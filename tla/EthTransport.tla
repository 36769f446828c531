---------------------------- MODULE EthTransport ----------------------------
(***************************************************************************)
(* transport_eth.c on the STM32: the receive path from the DMA ring        *)
(* through the Ethernet interrupt and the binary semaphore to eth_rx_task, *)
(* and the transmit path that raft_task and health_task share under        *)
(* tx_mutex.  Both paths go through the lock of the HAL handle, which is   *)
(* a flag: whoever finds it set gives up with HAL_BUSY, and the interrupt  *)
(* handler clears it whoever set it.                                       *)
(*                                                                         *)
(* An interrupt runs before any task, eth_rx_task before raft_task, and    *)
(* raft_task before health_task unless it is blocked.  The DMA moves       *)
(* between any two steps.  A frame fits one descriptor, so that its        *)
(* contents are its number: frames are numbered in the order in which the  *)
(* DMA stores them.  What eth_recv() filters it drops where it would have  *)
(* handed it on, and the statistics are left out.                          *)
(***************************************************************************)
EXTENDS Integers, Sequences

CONSTANTS
    ETH_RXBUFNB,    \* receive descriptors
    ETH_TXBUFNB,    \* transmit descriptors
    MAX_FRAMES      \* frames the network delivers

ASSUME TransportConstants ==
    /\ ETH_RXBUFNB \in Nat \ {0}
    /\ ETH_TXBUFNB \in Nat \ {0}
    /\ MAX_FRAMES \in Nat

VARIABLES
    rx_own,     \* OWN bit of every receive descriptor
    rx_buf,     \* the frame in its buffer, 0 for none yet
    rx_dma,     \* the descriptor the DMA fills next
    RxDesc,     \* heth->RxDesc
    FSRxDesc,   \* heth->RxFrameInfos.FSRxDesc
    SegCount,   \* heth->RxFrameInfos.SegCount
    rs,         \* receive status of the DMA: the interrupt is pending
    irq,        \* where the interrupt handler is
    rx_sem,     \* the binary semaphore
    rx_pc,      \* where eth_rx_task is
    Lock,       \* heth->Lock
    tx_own,     \* OWN bit of every transmit descriptor
    tx_buf,     \* the task whose frame is in its buffer
    tx_dma,     \* the descriptor the DMA sends next
    TxDesc,     \* heth->TxDesc
    tx_mutex,   \* its holder
    tx_pc,      \* where raft_task and health_task are in eth_send()
    arrived,    \* ghost: frames the DMA has stored
    seen,       \* ghost: frames HAL_ETH_GetReceivedFrame_IT() has returned
    merged,     \* ghost: two frames were announced by one token
    accepted    \* ghost: frames eth_send() accepted and the DMA has not sent

rxVars == <<rx_own, rx_buf, rx_dma, RxDesc, FSRxDesc, SegCount, arrived, seen, merged>>
signalVars == <<rs, irq, rx_sem>>
txVars == <<tx_own, tx_buf, tx_dma, TxDesc, accepted>>
vars == <<rxVars, signalVars, rx_pc, Lock, txVars, tx_mutex, tx_pc>>

Senders == {"raft", "health"}
RxRing == 0 .. ETH_RXBUFNB - 1
TxRing == 0 .. ETH_TXBUFNB - 1

\* Buffer2NextDescAddr chains the descriptors to a ring.
NextRx(d) == (d + 1) % ETH_RXBUFNB
NextTx(d) == (d + 1) % ETH_TXBUFNB

Init ==
    /\ rx_own = [d \in RxRing |-> TRUE] /\ rx_buf = [d \in RxRing |-> 0]
    /\ rx_dma = 0 /\ RxDesc = 0 /\ FSRxDesc = 0 /\ SegCount = 0
    /\ rs = FALSE /\ irq = "idle" /\ rx_sem = FALSE
    /\ rx_pc = "take" /\ Lock = FALSE
    /\ tx_own = [d \in TxRing |-> FALSE] /\ tx_buf = [d \in TxRing |-> "none"]
    /\ tx_dma = 0 /\ TxDesc = 0
    /\ tx_mutex = "none" /\ tx_pc = [s \in Senders |-> "idle"]
    /\ arrived = 0 /\ seen = 0 /\ merged = FALSE /\ accepted = <<>>

-----------------------------------------------------------------------------
(* Who may run *)

RxReady == rx_pc # "take" \/ rx_sem

RxRuns(at) == irq = "idle" /\ rx_pc = at

Blocked(s) == tx_pc[s] = "idle" \/ (tx_pc[s] = "take" /\ tx_mutex # "none")

TaskRuns(s) ==
    /\ irq = "idle" /\ ~RxReady
    /\ s = "health" => Blocked("raft")

-----------------------------------------------------------------------------
(* The receive DMA and the interrupt *)

\* A frame is stored if the DMA owns its next descriptor, and lost otherwise.
Receive ==
    /\ arrived < MAX_FRAMES
    /\ rx_own[rx_dma]
    /\ rx_own' = [rx_own EXCEPT ![rx_dma] = FALSE]
    /\ rx_buf' = [rx_buf EXCEPT ![rx_dma] = arrived + 1]
    /\ rx_dma' = NextRx(rx_dma)
    /\ arrived' = arrived + 1
    /\ merged' = (merged \/ rs \/ rx_sem)
    /\ rs' = TRUE
    /\ UNCHANGED <<RxDesc, FSRxDesc, SegCount, seen, irq, rx_sem, rx_pc, Lock,
                   txVars, tx_mutex, tx_pc>>

\* HAL_ETH_RxCpltCallback() gives the semaphore; a second give is lost.
IrqGive ==
    /\ rs /\ irq = "idle"
    /\ irq' = "given"
    /\ rx_sem' = TRUE
    /\ UNCHANGED <<rs, rxVars, rx_pc, Lock, txVars, tx_mutex, tx_pc>>

\* Mutant of IrqEnd: the handle stays locked.
IrqEnd_NoUnlock ==
    /\ irq = "given"
    /\ irq' = "idle"
    /\ rs' = FALSE
    /\ UNCHANGED <<rx_sem, rxVars, rx_pc, Lock, txVars, tx_mutex, tx_pc>>

\* The rest of HAL_ETH_IRQHandler() clears the status, of a frame that came
\* since the callback too, and unlocks the handle.
IrqEnd ==
    /\ irq = "given"
    /\ irq' = "idle"
    /\ rs' = FALSE
    /\ Lock' = FALSE
    /\ UNCHANGED <<rx_sem, rxVars, rx_pc, txVars, tx_mutex, tx_pc>>

-----------------------------------------------------------------------------
(* eth_rx_task: eth_recv() *)

RxTake ==
    /\ RxRuns("take")
    /\ rx_sem
    /\ rx_sem' = FALSE
    /\ rx_pc' = "get"
    /\ UNCHANGED <<rs, irq, rxVars, Lock, txVars, tx_mutex, tx_pc>>

\* HAL_ETH_GetReceivedFrame_IT() takes the lock or returns HAL_BUSY, which
\* eth_recv() takes for a spurious wakeup.
RxLock ==
    /\ RxRuns("get")
    /\ IF Lock
       THEN rx_pc' = "take" /\ UNCHANGED Lock
       ELSE rx_pc' = "scan" /\ Lock' = TRUE
    /\ UNCHANGED <<signalVars, rxVars, txVars, tx_mutex, tx_pc>>

\* ... and returns the frame of the next descriptor if the CPU owns it.
RxScan ==
    /\ RxRuns("scan")
    /\ Lock' = FALSE
    /\ IF rx_own[RxDesc]
       THEN rx_pc' = "take" /\ UNCHANGED <<RxDesc, FSRxDesc, SegCount, seen>>
       ELSE /\ SegCount' = SegCount + 1
            /\ FSRxDesc' = IF SegCount' = 1 THEN RxDesc ELSE FSRxDesc
            /\ RxDesc' = NextRx(RxDesc)
            /\ seen' = seen + 1
            /\ rx_pc' = "read"
    /\ UNCHANGED <<rx_own, rx_buf, rx_dma, arrived, merged, signalVars, txVars,
                   tx_mutex, tx_pc>>

\* Mutant of RxRelease: the segments of a frame are not forgotten.
RxRelease_KeepCount ==
    /\ RxRuns("read")
    /\ rx_own' = [d \in RxRing |-> \/ rx_own[d]
                                   \/ (d - FSRxDesc) % ETH_RXBUFNB < SegCount]
    /\ rx_pc' = "take"
    /\ UNCHANGED <<SegCount, rx_buf, rx_dma, RxDesc, FSRxDesc, arrived, seen, merged,
                   signalVars, Lock, txVars, tx_mutex, tx_pc>>

\* The frame is checked, its payload copied for the queues, and
\* rx_descriptors_release() gives the descriptors back to the DMA, which
\* then looks again if it had run out of them.
RxRelease ==
    /\ RxRuns("read")
    /\ rx_own' = [d \in RxRing |-> \/ rx_own[d]
                                   \/ (d - FSRxDesc) % ETH_RXBUFNB < SegCount]
    /\ SegCount' = 0
    /\ rx_pc' = "take"
    /\ UNCHANGED <<rx_buf, rx_dma, RxDesc, FSRxDesc, arrived, seen, merged,
                   signalVars, Lock, txVars, tx_mutex, tx_pc>>

EthRxTask == RxTake \/ RxLock \/ RxScan \/ RxRelease

-----------------------------------------------------------------------------
(* raft_task and health_task: eth_send() *)

SendCall(s) ==
    /\ TaskRuns(s)
    /\ tx_pc[s] = "idle"
    /\ tx_pc' = [tx_pc EXCEPT ![s] = "take"]
    /\ UNCHANGED <<rxVars, signalVars, rx_pc, Lock, txVars, tx_mutex>>

\* Mutant of SendTake: the descriptor is used without a look at its OWN bit.
SendTake_NoOwnCheck(s) ==
    /\ TaskRuns(s)
    /\ tx_pc[s] = "take" /\ tx_mutex = "none"
    /\ tx_mutex' = s
    /\ tx_pc' = [tx_pc EXCEPT ![s] = "build"]
    /\ UNCHANGED <<rxVars, signalVars, rx_pc, Lock, txVars>>

\* Mutant of SendTake: the error return of a full ring keeps the mutex.
SendTake_Leak(s) ==
    /\ TaskRuns(s)
    /\ tx_pc[s] = "take" /\ tx_mutex = "none"
    /\ tx_mutex' = s
    /\ tx_pc' = [tx_pc EXCEPT ![s] = IF tx_own[TxDesc] THEN "idle" ELSE "build"]
    /\ UNCHANGED <<rxVars, signalVars, rx_pc, Lock, txVars>>

\* The mutex is taken; no free descriptor is an error.
SendTake(s) ==
    /\ TaskRuns(s)
    /\ tx_pc[s] = "take" /\ tx_mutex = "none"
    /\ tx_mutex' = s
    /\ tx_pc' = [tx_pc EXCEPT ![s] = IF tx_own[TxDesc] THEN "give" ELSE "build"]
    /\ UNCHANGED <<rxVars, signalVars, rx_pc, Lock, txVars>>

\* 100 ms without the mutex.
SendTimeout(s) ==
    /\ irq = "idle" /\ ~RxReady
    /\ tx_pc[s] = "take" /\ tx_mutex # "none"
    /\ tx_pc' = [tx_pc EXCEPT ![s] = "idle"]
    /\ UNCHANGED <<rxVars, signalVars, rx_pc, Lock, txVars, tx_mutex>>

SendBuild(s) ==
    /\ TaskRuns(s)
    /\ tx_pc[s] = "build"
    /\ tx_buf' = [tx_buf EXCEPT ![TxDesc] = s]
    /\ tx_pc' = [tx_pc EXCEPT ![s] = "transmit"]
    /\ UNCHANGED <<rxVars, signalVars, rx_pc, Lock, tx_own, tx_dma, TxDesc, accepted,
                   tx_mutex>>

\* HAL_ETH_TransmitFrame() takes the lock or returns HAL_BUSY.
SendLock(s) ==
    /\ TaskRuns(s)
    /\ tx_pc[s] = "transmit"
    /\ tx_pc' = [tx_pc EXCEPT ![s] = IF Lock THEN "give" ELSE "own"]
    /\ Lock' = TRUE
    /\ UNCHANGED <<rxVars, signalVars, rx_pc, txVars, tx_mutex>>

\* ... and gives the descriptor to the DMA if the CPU owns it.
SendOwn(s) ==
    /\ TaskRuns(s)
    /\ tx_pc[s] = "own"
    /\ IF tx_own[TxDesc]
       THEN UNCHANGED <<tx_own, TxDesc, accepted>>
       ELSE /\ tx_own' = [tx_own EXCEPT ![TxDesc] = TRUE]
            /\ TxDesc' = NextTx(TxDesc)
            /\ accepted' = Append(accepted, s)
    /\ Lock' = FALSE
    /\ tx_pc' = [tx_pc EXCEPT ![s] = "give"]
    /\ UNCHANGED <<rxVars, signalVars, rx_pc, tx_buf, tx_dma, tx_mutex>>

SendGive(s) ==
    /\ TaskRuns(s)
    /\ tx_pc[s] = "give"
    /\ tx_mutex' = "none"
    /\ tx_pc' = [tx_pc EXCEPT ![s] = "idle"]
    /\ UNCHANGED <<rxVars, signalVars, rx_pc, Lock, txVars>>

Send(s) ==
    \/ SendCall(s) \/ SendTake(s) \/ SendTimeout(s) \/ SendBuild(s)
    \/ SendLock(s) \/ SendOwn(s) \/ SendGive(s)

\* The transmit DMA puts the next frame on the wire.
Transmit ==
    /\ tx_own[tx_dma]
    /\ tx_own' = [tx_own EXCEPT ![tx_dma] = FALSE]
    /\ tx_dma' = NextTx(tx_dma)
    /\ accepted' = Tail(accepted)
    /\ UNCHANGED <<rxVars, signalVars, rx_pc, Lock, tx_buf, TxDesc, tx_mutex, tx_pc>>

-----------------------------------------------------------------------------

Next ==
    \/ Receive \/ IrqGive \/ IrqEnd
    \/ EthRxTask
    \/ \E s \in Senders : Send(s)
    \/ Transmit

Spec == Init /\ [][Next]_vars

\* The processor takes a pending interrupt, finishes its handler, runs ready
\* tasks, and the DMA sends what it owns.  The network owes no further frame.
Fairness ==
    /\ WF_vars(IrqGive) /\ WF_vars(IrqEnd)
    /\ WF_vars(EthRxTask)
    /\ \A s \in Senders : WF_vars(tx_pc[s] # "idle" /\ Send(s))
    /\ WF_vars(Transmit)

FairSpec == Spec /\ Fairness

-----------------------------------------------------------------------------
(* Properties *)

\* The descriptors, program counters and counters have the ranges of
\* transport_eth.c and the HAL handle.
TypeOK ==
    /\ rx_own \in [RxRing -> BOOLEAN] /\ rx_buf \in [RxRing -> Nat]
    /\ {rx_dma, RxDesc, FSRxDesc} \subseteq RxRing
    /\ SegCount \in 0 .. 1
    /\ rs \in BOOLEAN /\ irq \in {"idle", "given"} /\ rx_sem \in BOOLEAN
    /\ rx_pc \in {"take", "get", "scan", "read"}
    /\ Lock \in BOOLEAN
    /\ tx_own \in [TxRing -> BOOLEAN] /\ tx_buf \in [TxRing -> Senders \union {"none"}]
    /\ {tx_dma, TxDesc} \subseteq TxRing
    /\ tx_mutex \in Senders \union {"none"}
    /\ tx_pc \in [Senders -> {"idle", "take", "build", "transmit", "own", "give"}]
    /\ arrived \in Nat /\ seen \in Nat /\ merged \in BOOLEAN
    /\ accepted \in Seq(Senders)

\* Nothing is under way that would make eth_rx_task look at the ring.
Quiescent == ~rs /\ irq = "idle" /\ ~rx_sem /\ rx_pc = "take"

\* No use of the HAL lock is ever refused, although eth_rx_task can preempt a
\* transmission that holds it: eth_rx_task is only woken by the interrupt
\* handler, which has cleared the lock before.
NeverBusy ==
    /\ RxRuns("get") => ~Lock
    /\ \A s \in Senders : TaskRuns(s) /\ tx_pc[s] = "transmit" => ~Lock

\* The frame eth_recv() reads is the next one in the order of arrival, and
\* the DMA does not own its buffer.
ReadsInOrder ==
    rx_pc = "read" => rx_buf[FSRxDesc] = seen /\ ~rx_own[FSRxDesc]

\* The ring never fills up for good: as long as nothing is under way, the DMA
\* has a descriptor for the next frame, whose interrupt wakes eth_rx_task.
ReceiverAlive == Quiescent => \E d \in RxRing : rx_own[d]

\* What eth_send() accepts goes on the wire once, in order and unaltered,
\* although two tasks build frames in the same ring.
WireKeepsOrder ==
    /\ Len(accepted) <= ETH_TXBUFNB
    /\ \A k \in 1 .. Len(accepted) :
          LET d == (tx_dma + k - 1) % ETH_TXBUFNB
          IN  tx_own[d] /\ tx_buf[d] = accepted[k]

\* Every frame the DMA stores is read in the end unless two frames shared a
\* token.
ReadUnlessMerged ==
    \A k \in 1 .. MAX_FRAMES : arrived >= k ~> (seen >= k \/ merged)

\* The mutex always comes back, whichever way eth_send() returns: with a full
\* ring, a refused lock, or the higher-priority task waiting for it.
MutexComesBack == \A s \in Senders : tx_mutex = s ~> tx_mutex # s
=============================================================================
