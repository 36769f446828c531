------------------------- MODULE EthTransportProofs -------------------------
(***************************************************************************)
(* Proofs about EthTransport for rings of any size: its types, that the    *)
(* HAL lock never refuses anyone, that the receiver cannot wedge, that     *)
(* both rings keep their frames in order and unaltered, and, in the last   *)
(* part, that both implement FrameQueue.                                   *)
(***************************************************************************)
EXTENDS EthQueues, TLAPS

-----------------------------------------------------------------------------
(* The inductive invariant *)

\* Between taking and giving the mutex, and only there, a task holds it.
MutexHeld ==
    \A s \in Senders :
        tx_pc[s] \in {"build", "transmit", "own", "give"} <=> tx_mutex = s

\* A frame under way through eth_recv() has its one segment counted.
Counted == SegCount = IF rx_pc = "read" THEN 1 ELSE 0

\* Unless the interrupt handler runs, a locked handle is in use by the task
\* that runs or by a transmission that only eth_rx_task may preempt next.
LockUsed ==
    Lock /\ irq = "idle" =>
        \/ rx_pc = "scan"
        \/ ~RxReady /\ \E s \in Senders : tx_pc[s] = "own"

\* The handler that has given the semaphore is followed by eth_rx_task, which
\* has not run since.
GivenIsTaken == irq = "given" => rx_sem

Inv == TypeOK /\ MutexHeld /\ Counted /\ LockUsed /\ GivenIsTaken /\ ReceiverAlive

-----------------------------------------------------------------------------
(* Rings *)

\* The descriptor k places after a in a ring of n.
After(n, a, k) == (a + k) % n

\* Positions in a ring wrap around once.
LEMMA Wrap == ASSUME NEW n \in Nat \ {0}, NEW a \in 0 .. n - 1, NEW k \in 0 .. n
              PROVE  After(n, a, k) = IF a + k < n THEN a + k ELSE a + k - n
<1>1. CASE a + k < n BY <1>1 DEF After
<1>2. CASE a + k >= n
  <2>1. a + k - n \in 0 .. n - 1 BY <1>2
  <2> QED BY <1>2, <2>1 DEF After
<1> QED BY <1>1, <1>2

\* The successor of a descriptor is a descriptor.
LEMMA RingStep == ASSUME NEW n \in Nat \ {0}, NEW d \in 0 .. n - 1
                  PROVE  After(n, d, 1) \in 0 .. n - 1
<1>1. 1 \in 0 .. n OBVIOUS
<1> QED BY <1>1, Wrap

\* How far descriptor d is ahead of descriptor f in a ring of n.
Ahead(n, f, d) == IF d >= f THEN d - f ELSE d - f + n

\* A distance in the ring is less than its size.
LEMMA AheadType == ASSUME NEW n \in Nat \ {0}, NEW f \in 0 .. n - 1, NEW d \in 0 .. n - 1
                   PROVE  Ahead(n, f, d) \in 0 .. n - 1
BY DEF Ahead

\* The descriptor k places ahead is the one at that distance, and no other is.
LEMMA AheadEnd == ASSUME NEW n \in Nat \ {0}, NEW f \in 0 .. n - 1, NEW k \in 0 .. n - 1
                  PROVE  /\ After(n, f, k) \in 0 .. n - 1
                         /\ \A d \in 0 .. n - 1 : Ahead(n, f, d) = k <=> d = After(n, f, k)
<1>1. k \in 0 .. n OBVIOUS
<1>2. After(n, f, k) = IF f + k < n THEN f + k ELSE f + k - n BY <1>1, Wrap
<1> QED BY <1>2 DEF Ahead

\* Once the first descriptor is passed it is the last, and all others are one
\* place nearer.
LEMMA AheadStep == ASSUME NEW n \in Nat \ {0}, NEW f \in 0 .. n - 1, NEW d \in 0 .. n - 1
                   PROVE  Ahead(n, After(n, f, 1), d) =
                             IF d = f THEN n - 1 ELSE Ahead(n, f, d) - 1
<1>1. 1 \in 0 .. n OBVIOUS
<1>2. After(n, f, 1) = IF f + 1 < n THEN f + 1 ELSE f + 1 - n BY <1>1, Wrap
<1> QED BY <1>2 DEF Ahead

\* One place and k places are k + 1 places, in either order.
LEMMA AfterStep == ASSUME NEW n \in Nat \ {0}, NEW f \in 0 .. n - 1, NEW k \in 0 .. n - 1
                   PROVE  /\ After(n, After(n, f, 1), k) = After(n, f, k + 1)
                          /\ After(n, After(n, f, k), 1) = After(n, f, k + 1)
<1>1. 1 \in 0 .. n /\ k \in 0 .. n /\ k + 1 \in 0 .. n OBVIOUS
<1>2. After(n, f, 1) = IF f + 1 < n THEN f + 1 ELSE f + 1 - n BY <1>1, Wrap
<1>3. After(n, f, k) = IF f + k < n THEN f + k ELSE f + k - n BY <1>1, Wrap
<1>4. After(n, f, k + 1) = IF f + (k + 1) < n THEN f + (k + 1) ELSE f + (k + 1) - n
  BY <1>1, Wrap
<1>5. After(n, f, 1) \in 0 .. n - 1 /\ After(n, f, k) \in 0 .. n - 1 BY <1>2, <1>3
<1>6. PICK a \in 0 .. n - 1 : a = After(n, f, 1) BY <1>5
<1>7. PICK b \in 0 .. n - 1 : b = After(n, f, k) BY <1>5
<1>8. After(n, a, k) = IF a + k < n THEN a + k ELSE a + k - n BY <1>1, Wrap
<1>9. After(n, b, 1) = IF b + 1 < n THEN b + 1 ELSE b + 1 - n BY <1>1, Wrap
<1> QED BY <1>2, <1>3, <1>4, <1>6, <1>7, <1>8, <1>9

\* The rings of the model are of this kind.
LEMMA NextIsAfter == /\ \A d : NextRx(d) = After(ETH_RXBUFNB, d, 1)
                     /\ \A d : NextTx(d) = After(ETH_TXBUFNB, d, 1)
BY DEF NextRx, NextTx, After

\* A frame of one segment occupies the descriptor it starts with, and no other.
LEMMA ReleasesOne == ASSUME NEW n \in Nat \ {0}, NEW f \in 0 .. n - 1, NEW d \in 0 .. n - 1
                     PROVE  (d - f) % n < 1 <=> d = f
<1>1. CASE d >= f BY <1>1
<1>2. CASE d < f
  <2>1. d - f + n \in 1 .. n - 1 BY <1>2
  <2>2. (d - f) % n = d - f + n BY <2>1
  <2> QED BY <1>2, <2>1, <2>2
<1> QED BY <1>1, <1>2

-----------------------------------------------------------------------------
(* The steps *)

\* The transport starts in the invariant.
LEMMA InvInit == Init => Inv
<1> SUFFICES ASSUME Init PROVE Inv OBVIOUS
<1>1. TypeOK
  <2>1. 0 \in RxRing /\ 0 \in TxRing BY TransportConstants DEF RxRing, TxRing
  <2>2. accepted \in Seq(Senders) BY DEF Init
  <2> QED BY <2>1, <2>2 DEF Init, TypeOK
<1>2. MutexHeld BY DEF Init, MutexHeld, Senders
<1>3. Counted /\ LockUsed /\ GivenIsTaken BY DEF Init, Counted, LockUsed, GivenIsTaken
<1>4. ReceiverAlive
  BY TransportConstants DEF Init, ReceiverAlive, RxRing
<1> QED BY <1>1, <1>2, <1>3, <1>4 DEF Inv

\* Receive disturbs the ring and the pending interrupt.
LEMMA ReceiveKeepsInv == Inv /\ Receive => Inv'
<1> SUFFICES ASSUME Inv, Receive PROVE Inv' OBVIOUS
<1>1. TypeOK'
  <2>1. NextRx(rx_dma) \in RxRing
    BY TransportConstants, RingStep, NextIsAfter DEF Inv, TypeOK, RxRing
  <2> QED BY <2>1 DEF Inv, TypeOK, Receive, txVars
<1>2. MutexHeld' BY DEF Inv, MutexHeld, Receive
<1>3. Counted' /\ LockUsed' /\ GivenIsTaken'
  BY DEF Inv, Counted, LockUsed, RxReady, GivenIsTaken, Receive
<1>4. ReceiverAlive' BY DEF ReceiverAlive, Quiescent, Receive
<1> QED BY <1>1, <1>2, <1>3, <1>4 DEF Inv

\* The interrupt handler disturbs the signals and the lock.
LEMMA IrqKeepsInv == Inv /\ (IrqGive \/ IrqEnd) => Inv'
<1> SUFFICES ASSUME Inv, IrqGive \/ IrqEnd PROVE Inv' OBVIOUS
<1> USE DEF rxVars, txVars
<1>1. TypeOK' BY DEF Inv, TypeOK, IrqGive, IrqEnd
<1>2. MutexHeld' BY DEF Inv, MutexHeld, IrqGive, IrqEnd
<1>3. Counted' BY DEF Inv, Counted, IrqGive, IrqEnd
<1>4. LockUsed' /\ GivenIsTaken' BY DEF LockUsed, GivenIsTaken, IrqGive, IrqEnd
<1>5. ReceiverAlive' BY DEF Inv, GivenIsTaken, ReceiverAlive, Quiescent, IrqGive, IrqEnd
<1> QED BY <1>1, <1>2, <1>3, <1>4, <1>5 DEF Inv

\* eth_rx_task finds the handle unlocked and gives back what it read.
LEMMA EthRxTaskKeepsInv == Inv /\ EthRxTask => Inv'
<1> SUFFICES ASSUME Inv, EthRxTask PROVE Inv' OBVIOUS
<1> USE DEF rxVars, txVars, signalVars, RxRuns
<1>1. CASE RxTake
  <2>1. TypeOK' BY <1>1 DEF Inv, TypeOK, RxTake
  <2>2. MutexHeld' BY <1>1 DEF Inv, MutexHeld, RxTake
  <2>3. Counted' /\ GivenIsTaken' /\ ReceiverAlive'
    BY <1>1 DEF Inv, Counted, GivenIsTaken, ReceiverAlive, Quiescent, RxTake
  <2>4. LockUsed' BY <1>1 DEF Inv, LockUsed, RxReady, RxTake
  <2> QED BY <2>1, <2>2, <2>3, <2>4 DEF Inv
<1>2. CASE RxLock
  <2>1. ~Lock BY <1>2 DEF Inv, LockUsed, RxReady, RxLock
  <2>2. rx_pc' = "scan" /\ Lock' = TRUE BY <1>2, <2>1 DEF RxLock
  <2>3. TypeOK' BY <1>2, <2>2 DEF Inv, TypeOK, RxLock
  <2>4. MutexHeld' BY <1>2 DEF Inv, MutexHeld, RxLock
  <2>5. Counted' /\ GivenIsTaken' /\ ReceiverAlive' /\ LockUsed'
    BY <1>2, <2>2 DEF Inv, Counted, GivenIsTaken, ReceiverAlive, Quiescent, LockUsed,
       RxLock
  <2> QED BY <2>3, <2>4, <2>5 DEF Inv
<1>3. CASE RxScan
  <2>1. NextRx(RxDesc) \in RxRing
    BY TransportConstants, RingStep, NextIsAfter DEF Inv, TypeOK, RxRing
  <2>2. SegCount = 0 BY <1>3 DEF Inv, Counted, RxScan
  <2>3. UNCHANGED <<rx_own, rx_buf, rx_dma, arrived, merged, signalVars, txVars,
                    tx_mutex, tx_pc>> /\ Lock' = FALSE
    BY <1>3 DEF RxScan
  <2>4. MutexHeld' BY <2>3 DEF Inv, MutexHeld
  <2>5. LockUsed' /\ GivenIsTaken' BY <1>3, <2>3 DEF LockUsed, GivenIsTaken, RxScan
  <2>6. CASE rx_own[RxDesc]
    <3>1. rx_pc' = "take" /\ UNCHANGED <<RxDesc, FSRxDesc, SegCount, seen>>
      BY <1>3, <2>6 DEF RxScan
    <3>2. TypeOK' BY <2>3, <3>1 DEF Inv, TypeOK
    <3>3. Counted' BY <2>2, <3>1 DEF Counted
    <3>4. ReceiverAlive' BY <2>3, <2>6 DEF Inv, TypeOK, ReceiverAlive
    <3> QED BY <2>4, <2>5, <3>2, <3>3, <3>4 DEF Inv
  <2>7. CASE ~rx_own[RxDesc]
    <3>1. /\ SegCount' = 1 /\ FSRxDesc' = RxDesc /\ RxDesc' = NextRx(RxDesc)
          /\ seen' = seen + 1 /\ rx_pc' = "read"
      BY <1>3, <2>2, <2>7 DEF RxScan
    <3>2. TypeOK'
      <4>1. rx_dma' \in RxRing /\ RxDesc' \in RxRing /\ FSRxDesc' \in RxRing
        BY <2>1, <2>3, <3>1 DEF Inv, TypeOK
      <4>2. SegCount' \in 0 .. 1 /\ seen' \in Nat BY <3>1 DEF Inv, TypeOK
      <4> QED BY <2>3, <3>1, <4>1, <4>2 DEF Inv, TypeOK
    <3>3. Counted' BY <3>1 DEF Counted
    <3>4. ReceiverAlive' BY <3>1 DEF ReceiverAlive, Quiescent
    <3> QED BY <2>4, <2>5, <3>2, <3>3, <3>4 DEF Inv
  <2> QED BY <2>6, <2>7
<1>4. CASE RxRelease
  <2> USE <1>4 DEF RxRelease
  <2>1. SegCount = 1 BY DEF Inv, Counted
  <2>2. TypeOK' BY DEF Inv, TypeOK
  <2>3. MutexHeld' BY DEF Inv, MutexHeld
  <2>4. Counted' /\ GivenIsTaken' BY DEF Counted, GivenIsTaken
  <2>5. LockUsed' BY DEF Inv, LockUsed, RxReady
  <2>6. ReceiverAlive'
    <3>1. FSRxDesc \in RxRing BY DEF Inv, TypeOK
    <3>2. (FSRxDesc - FSRxDesc) % ETH_RXBUFNB < SegCount
      BY <2>1, <3>1, TransportConstants, ReleasesOne DEF RxRing
    <3>3. rx_own'[FSRxDesc] BY <3>1, <3>2
    <3> QED BY <3>1, <3>3 DEF ReceiverAlive
  <2> QED BY <2>2, <2>3, <2>4, <2>5, <2>6 DEF Inv
<1> QED BY <1>1, <1>2, <1>3, <1>4 DEF EthRxTask

\* A sender that asks for the lock holds the mutex, so that no other
\* transmission can hold the lock, and eth_rx_task does not run.
LEMMA LockFree == ASSUME Inv, NEW s \in Senders, TaskRuns(s), tx_pc[s] = "transmit"
                  PROVE  ~Lock
<1>1. ~RxReady /\ irq = "idle" BY DEF TaskRuns
<1>2. rx_pc # "scan" BY <1>1 DEF RxReady
<1>3. tx_mutex = s BY DEF Inv, MutexHeld
<1>4. \A u \in Senders : tx_pc[u] = "own" => tx_mutex = u BY DEF Inv, MutexHeld
<1> QED BY <1>1, <1>2, <1>3, <1>4 DEF Inv, LockUsed

\* eth_send() keeps mutex and lock together and leaves the receiver alone.
LEMMA SendKeepsInv == ASSUME Inv, NEW s \in Senders, Send(s) PROVE Inv'
<1> USE DEF rxVars, txVars, signalVars
<1>0. /\ UNCHANGED <<rxVars, signalVars, rx_pc>> /\ irq = "idle" /\ ~RxReady
  BY DEF Send, SendCall, SendTake, SendTimeout, SendBuild, SendLock, SendOwn, SendGive,
         TaskRuns
<1>1. Counted' /\ GivenIsTaken' /\ ReceiverAlive'
  BY <1>0 DEF Inv, Counted, GivenIsTaken, ReceiverAlive, Quiescent
<1>2. TypeOK'
  <2>1. NextTx(TxDesc) \in TxRing
    BY TransportConstants, RingStep, NextIsAfter DEF Inv, TypeOK, TxRing
  <2>2. Append(accepted, s) \in Seq(Senders) BY DEF Inv, TypeOK
  <2>3. CASE SendOwn(s)
    <3>1. CASE tx_own[TxDesc] BY <1>0, <2>3, <3>1 DEF Inv, TypeOK, SendOwn
    <3>2. CASE ~tx_own[TxDesc] BY <1>0, <2>1, <2>2, <2>3, <3>2 DEF Inv, TypeOK, SendOwn
    <3> QED BY <3>1, <3>2
  <2>4. CASE SendTake(s) BY <1>0, <2>4 DEF Inv, TypeOK, SendTake
  <2>5. CASE SendBuild(s) BY <1>0, <2>5 DEF Inv, TypeOK, SendBuild
  <2>6. CASE SendLock(s) BY <1>0, <2>6 DEF Inv, TypeOK, SendLock
  <2>7. CASE SendCall(s) \/ SendTimeout(s) \/ SendGive(s)
    BY <1>0, <2>7 DEF Inv, TypeOK, SendCall, SendTimeout, SendGive
  <2> QED BY <2>3, <2>4, <2>5, <2>6, <2>7 DEF Send
<1>3. MutexHeld'
  <2> tx_pc \in [Senders -> {"idle", "take", "build", "transmit", "own", "give"}]
    BY DEF Inv, TypeOK
  <2>1. "none" \notin Senders BY DEF Senders
  <2>2. CASE SendCall(s) \/ SendTimeout(s)
    BY <2>2 DEF Inv, MutexHeld, SendCall, SendTimeout
  <2>3. CASE SendTake(s) BY <2>1, <2>3 DEF Inv, MutexHeld, SendTake
  <2>4. CASE SendBuild(s) \/ SendLock(s) \/ SendOwn(s)
    BY <2>4 DEF Inv, MutexHeld, SendBuild, SendLock, SendOwn
  <2>5. CASE SendGive(s) BY <2>1, <2>5 DEF Inv, MutexHeld, SendGive
  <2> QED BY <2>2, <2>3, <2>4, <2>5 DEF Send
<1>4. LockUsed'
  <2> tx_pc \in [Senders -> {"idle", "take", "build", "transmit", "own", "give"}]
    BY DEF Inv, TypeOK
  <2>1. CASE SendLock(s)
    <3>1. ~Lock BY <2>1, LockFree DEF SendLock
    <3>2. tx_pc'[s] = "own" BY <2>1, <3>1 DEF SendLock
    <3> QED BY <1>0, <3>2 DEF LockUsed, RxReady
  <2>2. CASE SendOwn(s) BY <2>2 DEF SendOwn, LockUsed
  <2>3. ASSUME Lock' = Lock, tx_pc[s] # "own",
               NEW at, tx_pc' = [tx_pc EXCEPT ![s] = at]
        PROVE  LockUsed'
    <3> SUFFICES ASSUME Lock PROVE ~RxReady' /\ \E u \in Senders : tx_pc'[u] = "own"
      BY <2>3 DEF LockUsed
    <3>1. PICK u \in Senders : tx_pc[u] = "own"
      BY <1>0 DEF Inv, LockUsed, RxReady
    <3>2. tx_pc'[u] = "own" BY <2>3, <3>1
    <3> QED BY <1>0, <3>2 DEF RxReady
  <2>4. CASE SendCall(s) BY <2>3, <2>4 DEF SendCall
  <2>5. CASE SendTake(s) BY <2>3, <2>5 DEF SendTake
  <2>6. CASE SendTimeout(s) BY <2>3, <2>6 DEF SendTimeout
  <2>7. CASE SendBuild(s) BY <2>3, <2>7 DEF SendBuild
  <2>8. CASE SendGive(s) BY <2>3, <2>8 DEF SendGive
  <2> QED BY <2>1, <2>2, <2>4, <2>5, <2>6, <2>7, <2>8 DEF Send
<1> QED BY <1>1, <1>2, <1>3, <1>4 DEF Inv

\* The transmit DMA disturbs its ring only.
LEMMA TransmitKeepsInv == Inv /\ Transmit /\ accepted # <<>> => Inv'
<1> SUFFICES ASSUME Inv, Transmit, accepted # <<>> PROVE Inv' OBVIOUS
<1> USE DEF rxVars, txVars, signalVars
<1>1. TypeOK'
  <2>1. NextTx(tx_dma) \in TxRing
    BY TransportConstants, RingStep, NextIsAfter DEF Inv, TypeOK, TxRing
  <2>2. Tail(accepted) \in Seq(Senders) BY DEF Inv, TypeOK
  <2> QED BY <2>1, <2>2 DEF Inv, TypeOK, Transmit
<1>2. MutexHeld' /\ Counted' /\ GivenIsTaken'
  BY DEF Inv, MutexHeld, Counted, GivenIsTaken, Transmit
<1>3. LockUsed' /\ ReceiverAlive'
  BY DEF Inv, LockUsed, RxReady, ReceiverAlive, Quiescent, Transmit
<1> QED BY <1>1, <1>2, <1>3 DEF Inv

-----------------------------------------------------------------------------
(* The transmit ring *)

\* The DMA owns the descriptors of the accepted frames, in order from the one
\* it sends next up to TxDesc, and each holds the frame it was accepted for.
Wire ==
    /\ Len(accepted) <= ETH_TXBUFNB
    /\ TxDesc = After(ETH_TXBUFNB, tx_dma, Len(accepted))
    /\ \A d \in TxRing :
          tx_own[d] <=> Ahead(ETH_TXBUFNB, tx_dma, d) < Len(accepted)
    /\ \A d \in TxRing :
          tx_own[d] => tx_buf[d] = accepted[Ahead(ETH_TXBUFNB, tx_dma, d) + 1]

\* A task that found a descriptor free keeps it, and its frame, until it hands
\* it over.
Built ==
    \A s \in Senders :
        /\ tx_pc[s] \in {"build", "transmit", "own"} => ~tx_own[TxDesc]
        /\ tx_pc[s] \in {"transmit", "own"} => tx_buf[TxDesc] = s

WireInv == Wire /\ Built

\* Nothing is accepted at the start.
LEMMA WireInit == Init => WireInv
<1> SUFFICES ASSUME Init PROVE WireInv OBVIOUS
<1>1. Len(accepted) = 0 BY DEF Init
<1>2. 0 \in 0 .. ETH_TXBUFNB - 1 /\ 0 \in 0 .. ETH_TXBUFNB BY TransportConstants
<1>3. After(ETH_TXBUFNB, 0, 0) = 0 BY <1>2, TransportConstants, Wrap
<1>4. \A d \in TxRing : Ahead(ETH_TXBUFNB, 0, d) \in 0 .. ETH_TXBUFNB - 1
  BY <1>2, TransportConstants, AheadType DEF TxRing
<1>5. Wire BY <1>1, <1>3, <1>4, TransportConstants DEF Init, Wire
<1>6. Built BY DEF Init, Built
<1> QED BY <1>5, <1>6 DEF WireInv

\* Ahead of TxDesc the ring is free: the accepted frames do not fill it.
LEMMA FreeDesc == ASSUME Inv, Wire, ~tx_own[TxDesc]
                  PROVE  /\ Len(accepted) \in 0 .. ETH_TXBUFNB - 1
                         /\ \A d \in TxRing :
                               Ahead(ETH_TXBUFNB, tx_dma, d) = Len(accepted) <=> d = TxDesc
<1> DEFINE n == ETH_TXBUFNB
<1> DEFINE k == Len(accepted)
<1>1. n \in Nat \ {0} BY TransportConstants
<1>2. tx_dma \in 0 .. n - 1 /\ TxDesc \in 0 .. n - 1 BY DEF Inv, TypeOK, TxRing
<1>3. k \in 0 .. n BY DEF Inv, TypeOK, Wire
<1>4. ~(Ahead(n, tx_dma, TxDesc) < k) BY <1>2 DEF Wire, TxRing
<1>5. TxDesc = After(n, tx_dma, k) BY DEF Wire
<1> HIDE DEF n, k
<1>6. k # n
  <2> SUFFICES ASSUME k = n PROVE FALSE OBVIOUS
  <2>1. TxDesc = tx_dma BY <1>1, <1>2, <1>3, <1>5, Wrap
  <2>2. Ahead(n, tx_dma, TxDesc) = 0 BY <1>1, <1>2, <2>1 DEF Ahead
  <2> QED BY <1>1, <1>4, <2>2
<1>7. k \in 0 .. n - 1 BY <1>1, <1>3, <1>6
<1>8. \A d \in 0 .. n - 1 : Ahead(n, tx_dma, d) = k <=> d = TxDesc
  <2>1. \A d \in 0 .. n - 1 : Ahead(n, tx_dma, d) = k <=> d = After(n, tx_dma, k)
    BY <1>1, <1>2, <1>7, AheadEnd
  <2> QED BY <1>5, <2>1
<1> QED BY <1>7, <1>8 DEF n, k, TxRing

\* Steps that leave the transmit ring alone.
LEMMA WireKept == ASSUME WireInv, UNCHANGED txVars,
                         \A s \in Senders :
                            \/ tx_pc'[s] = tx_pc[s]
                            \/ tx_pc'[s] \notin {"build", "transmit", "own"}
                            \/ tx_pc'[s] = "build" /\ ~tx_own[TxDesc]
                            \/ tx_pc'[s] = "own" /\ tx_pc[s] = "transmit"
                  PROVE  WireInv'
<1>1. Wire' BY DEF WireInv, Wire, txVars
<1>2. Built' BY DEF WireInv, Built, txVars
<1> QED BY <1>1, <1>2 DEF WireInv

\* Only the holder of the mutex is between build and own.
LEMMA OneBuilder == ASSUME Inv, NEW s \in Senders, NEW u \in Senders, u # s,
                           tx_pc[s] \in {"build", "own"}
                    PROVE  tx_pc[u] \notin {"build", "transmit", "own"}
BY DEF Inv, MutexHeld

\* The frame is built in a descriptor the DMA does not own.
LEMMA BuildKeepsWire == ASSUME Inv, WireInv, NEW s \in Senders, SendBuild(s)
                        PROVE  WireInv'
<1>0. /\ tx_pc[s] = "build" /\ tx_buf' = [tx_buf EXCEPT ![TxDesc] = s]
      /\ tx_pc' = [tx_pc EXCEPT ![s] = "transmit"]
      /\ UNCHANGED <<tx_own, tx_dma, TxDesc, accepted>>
  BY DEF SendBuild
<1>1. ~tx_own[TxDesc] BY <1>0 DEF WireInv, Built
<1>2. TxDesc \in TxRing /\ tx_buf \in [TxRing -> Senders \union {"none"}]
  BY DEF Inv, TypeOK
<1>3. \A d \in TxRing : tx_own[d] => tx_buf'[d] = tx_buf[d] BY <1>0, <1>1, <1>2
<1>4. Wire' BY <1>0, <1>3 DEF WireInv, Wire
<1>5. Built'
  <2> SUFFICES ASSUME NEW u \in Senders
               PROVE  /\ tx_pc'[u] \in {"build", "transmit", "own"} => ~tx_own'[TxDesc']
                      /\ tx_pc'[u] \in {"transmit", "own"} => tx_buf'[TxDesc'] = u
    BY DEF Built
  <2>1. CASE u = s BY <1>0, <1>1, <1>2, <2>1
  <2>2. CASE u # s
    <3>1. tx_pc[u] \notin {"build", "transmit", "own"} BY <1>0, <2>2, OneBuilder
    <3> QED BY <1>0, <2>2, <3>1 DEF Inv, TypeOK
  <2> QED BY <2>1, <2>2
<1> QED BY <1>4, <1>5 DEF WireInv

\* The descriptor handed over is the next after the accepted frames.
LEMMA OwnKeepsWire == ASSUME Inv, WireInv, NEW s \in Senders, SendOwn(s)
                      PROVE  WireInv'
<1> DEFINE n == ETH_TXBUFNB
<1> DEFINE k == Len(accepted)
<1>1. tx_pc[s] = "own" BY DEF SendOwn
<1>2. ~tx_own[TxDesc] /\ tx_buf[TxDesc] = s BY <1>1 DEF WireInv, Built
<1>3. /\ tx_own' = [tx_own EXCEPT ![TxDesc] = TRUE] /\ TxDesc' = NextTx(TxDesc)
      /\ accepted' = Append(accepted, s) /\ tx_pc' = [tx_pc EXCEPT ![s] = "give"]
      /\ UNCHANGED <<tx_buf, tx_dma>>
  BY <1>2 DEF SendOwn
<1>4. /\ tx_dma \in 0 .. n - 1 /\ TxDesc \in TxRing /\ n \in Nat \ {0}
      /\ tx_own \in [TxRing -> BOOLEAN] /\ accepted \in Seq(Senders)
  BY TransportConstants DEF Inv, TypeOK, TxRing
<1>5. /\ k \in 0 .. n - 1
      /\ \A d \in TxRing : Ahead(n, tx_dma, d) = k <=> d = TxDesc
  BY <1>2, FreeDesc DEF WireInv
<1>6. \A d \in TxRing : Ahead(n, tx_dma, d) \in 0 .. n - 1
  BY <1>4, AheadType DEF TxRing
<1>7. /\ Len(accepted') = k + 1 /\ accepted'[k + 1] = s
      /\ \A j \in 1 .. k : accepted'[j] = accepted[j]
  BY <1>3, <1>4
<1>8. TxDesc' = After(n, tx_dma, k + 1)
  <2>1. TxDesc = After(n, tx_dma, k) BY DEF WireInv, Wire
  <2>2. TxDesc' = After(n, TxDesc, 1) BY <1>3, NextIsAfter
  <2> QED BY <1>4, <1>5, <2>1, <2>2, AfterStep
<1>9. ASSUME NEW d \in TxRing
      PROVE  /\ tx_own'[d] <=> Ahead(n, tx_dma, d) < k + 1
             /\ tx_own'[d] => tx_buf[d] = accepted'[Ahead(n, tx_dma, d) + 1]
  <2>1. tx_own[d] <=> Ahead(n, tx_dma, d) < k BY DEF WireInv, Wire
  <2>2. tx_own[d] => tx_buf[d] = accepted[Ahead(n, tx_dma, d) + 1] BY DEF WireInv, Wire
  <2> HIDE DEF n, k
  <2>3. CASE d = TxDesc BY <1>2, <1>3, <1>4, <1>5, <1>7, <2>3
  <2>4. CASE d # TxDesc
    <3>1. tx_own'[d] = tx_own[d] BY <1>3, <1>4, <2>4
    <3>2. Ahead(n, tx_dma, d) < k + 1 <=> Ahead(n, tx_dma, d) < k BY <1>5, <1>6, <2>4
    <3>3. ASSUME tx_own[d]
          PROVE  tx_buf[d] = accepted'[Ahead(n, tx_dma, d) + 1]
      <4>1. Ahead(n, tx_dma, d) + 1 \in 1 .. k BY <1>5, <1>6, <2>1, <3>3
      <4> QED BY <1>7, <2>2, <3>3, <4>1
    <3> QED BY <2>1, <3>1, <3>2, <3>3
  <2> QED BY <2>3, <2>4
<1>10. Wire'
  <2>1. Len(accepted') <= n BY <1>4, <1>5, <1>7
  <2>2. TxDesc' = After(n, tx_dma', Len(accepted')) BY <1>3, <1>7, <1>8
  <2>3. \A d \in TxRing : tx_own'[d] <=> Ahead(n, tx_dma', d) < Len(accepted')
    BY <1>3, <1>7, <1>9
  <2>4. \A d \in TxRing : tx_own'[d] => tx_buf'[d] = accepted'[Ahead(n, tx_dma', d) + 1]
    BY <1>3, <1>9
  <2> QED BY <2>1, <2>2, <2>3, <2>4 DEF Wire
<1>11. Built'
  <2> SUFFICES ASSUME NEW u \in Senders
               PROVE  tx_pc'[u] \notin {"build", "transmit", "own"}
    BY DEF Built
  <2>1. CASE u = s BY <1>3, <2>1 DEF Inv, TypeOK
  <2>2. CASE u # s BY <1>1, <1>3, <2>2, OneBuilder DEF Inv, TypeOK
  <2> QED BY <2>1, <2>2
<1> QED BY <1>10, <1>11 DEF WireInv

\* The DMA sends the frame accepted first.
LEMMA TransmitKeepsWire == ASSUME Inv, WireInv, Transmit
                           PROVE  WireInv' /\ accepted # <<>>
<1> DEFINE n == ETH_TXBUFNB
<1> DEFINE k == Len(accepted)
<1>1. /\ tx_own[tx_dma] /\ tx_own' = [tx_own EXCEPT ![tx_dma] = FALSE]
      /\ tx_dma' = After(n, tx_dma, 1) /\ accepted' = Tail(accepted)
      /\ UNCHANGED <<tx_buf, TxDesc, tx_pc>>
  BY NextIsAfter DEF Transmit
<1>2. /\ tx_dma \in 0 .. n - 1 /\ tx_dma \in TxRing /\ n \in Nat \ {0}
      /\ tx_own \in [TxRing -> BOOLEAN] /\ accepted \in Seq(Senders) /\ TxDesc \in TxRing
  BY TransportConstants DEF Inv, TypeOK, TxRing
<1>3. Ahead(n, tx_dma, tx_dma) = 0 BY <1>2 DEF Ahead
<1>4. k \in 1 .. n
  <2>1. 0 < k BY <1>1, <1>2, <1>3 DEF WireInv, Wire
  <2> QED BY <1>2, <2>1 DEF WireInv, Wire
<1>5. /\ accepted # <<>> /\ Len(accepted') = k - 1
      /\ \A j \in 1 .. k - 1 : accepted'[j] = accepted[j + 1]
  BY <1>1, <1>2, <1>4
<1>6. \A d \in TxRing : /\ Ahead(n, tx_dma, d) \in 0 .. n - 1
                        /\ Ahead(n, tx_dma', d) =
                              IF d = tx_dma THEN n - 1 ELSE Ahead(n, tx_dma, d) - 1
  BY <1>1, <1>2, AheadType, AheadStep DEF TxRing
<1>7. TxDesc = After(n, tx_dma', k - 1)
  <2>1. TxDesc = After(n, tx_dma, k) BY DEF WireInv, Wire
  <2>2. k - 1 \in 0 .. n - 1 /\ (k - 1) + 1 = k BY <1>2, <1>4
  <2>3. After(n, After(n, tx_dma, 1), k - 1) = After(n, tx_dma, (k - 1) + 1)
    BY <1>2, <2>2, AfterStep
  <2> QED BY <1>1, <2>1, <2>2, <2>3
<1>8. ASSUME NEW d \in TxRing
      PROVE  /\ tx_own'[d] <=> Ahead(n, tx_dma', d) < k - 1
             /\ tx_own'[d] => tx_buf[d] = accepted'[Ahead(n, tx_dma', d) + 1]
  <2>1. tx_own[d] <=> Ahead(n, tx_dma, d) < k BY DEF WireInv, Wire
  <2>2. tx_own[d] => tx_buf[d] = accepted[Ahead(n, tx_dma, d) + 1] BY DEF WireInv, Wire
  <2> HIDE DEF n, k
  <2>3. CASE d = tx_dma BY <1>1, <1>2, <1>4, <1>6, <2>3
  <2>4. CASE d # tx_dma
    <3>1. tx_own'[d] = tx_own[d] BY <1>1, <1>2, <2>4
    <3>2. Ahead(n, tx_dma', d) = Ahead(n, tx_dma, d) - 1 BY <1>6, <2>4
    <3>3. Ahead(n, tx_dma, d) # 0
      <4>1. 0 \in 0 .. n - 1 BY <1>2
      <4>2. After(n, tx_dma, 0) = tx_dma BY <1>2, <1>3, <4>1, AheadEnd
      <4> QED BY <1>2, <2>4, <4>1, <4>2, AheadEnd DEF TxRing, n
    <3>4. ASSUME tx_own[d]
          PROVE  tx_buf[d] = accepted'[Ahead(n, tx_dma', d) + 1]
      <4>1. Ahead(n, tx_dma, d) \in 1 .. k - 1 BY <1>4, <1>6, <2>1, <3>3, <3>4
      <4>2. accepted'[Ahead(n, tx_dma, d)] = accepted[Ahead(n, tx_dma, d) + 1]
        BY <1>5, <4>1
      <4>3. Ahead(n, tx_dma', d) + 1 = Ahead(n, tx_dma, d) BY <1>4, <3>2, <4>1
      <4> QED BY <2>2, <3>4, <4>2, <4>3
    <3> QED BY <1>4, <1>6, <2>1, <3>1, <3>2, <3>4
  <2> QED BY <2>3, <2>4
<1>9. Wire'
  <2>1. Len(accepted') <= n BY <1>2, <1>4, <1>5
  <2>2. TxDesc' = After(n, tx_dma', Len(accepted')) BY <1>1, <1>5, <1>7
  <2>3. \A d \in TxRing : tx_own'[d] <=> Ahead(n, tx_dma', d) < Len(accepted')
    BY <1>5, <1>8
  <2>4. \A d \in TxRing : tx_own'[d] => tx_buf'[d] = accepted'[Ahead(n, tx_dma', d) + 1]
    BY <1>1, <1>8
  <2> QED BY <2>1, <2>2, <2>3, <2>4 DEF Wire
<1>10. Built'
  <2>1. tx_own'[TxDesc] => tx_own[TxDesc] BY <1>1, <1>2
  <2> QED BY <1>1, <2>1 DEF WireInv, Built
<1> QED BY <1>5, <1>9, <1>10 DEF WireInv

-----------------------------------------------------------------------------
(* The receive ring *)

\* Behind the frame being read, the frames not yet seen fill the ring from
\* RxDesc up to where the DMA stores the next one, in the order of arrival.
Ring ==
    /\ arrived - seen \in 0 .. (IF rx_pc = "read" THEN ETH_RXBUFNB - 1 ELSE ETH_RXBUFNB)
    /\ rx_dma = After(ETH_RXBUFNB, RxDesc, arrived - seen)
    /\ \A d \in RxRing :
          rx_own[d] <=> /\ ~(Ahead(ETH_RXBUFNB, RxDesc, d) < arrived - seen)
                        /\ ~(rx_pc = "read" /\ d = FSRxDesc)
    /\ \A d \in RxRing :
          Ahead(ETH_RXBUFNB, RxDesc, d) < arrived - seen =>
             rx_buf[d] = seen + 1 + Ahead(ETH_RXBUFNB, RxDesc, d)
    /\ rx_pc = "read" =>
          RxDesc = After(ETH_RXBUFNB, FSRxDesc, 1) /\ rx_buf[FSRxDesc] = seen

\* The receive ring starts empty.
LEMMA RingInit == Init => Ring
<1> SUFFICES ASSUME Init PROVE Ring OBVIOUS
<1>1. arrived - seen = 0 /\ rx_pc # "read" BY DEF Init
<1>2. 0 \in 0 .. ETH_RXBUFNB - 1 /\ 0 \in 0 .. ETH_RXBUFNB BY TransportConstants
<1>3. After(ETH_RXBUFNB, 0, 0) = 0 BY <1>2, TransportConstants, Wrap
<1>4. \A d \in RxRing : Ahead(ETH_RXBUFNB, 0, d) \in 0 .. ETH_RXBUFNB - 1
  BY <1>2, TransportConstants, AheadType DEF RxRing
<1> QED BY <1>1, <1>2, <1>3, <1>4 DEF Init, Ring

\* Steps that leave the receive ring alone.
LEMMA RingKept == ASSUME Ring, UNCHANGED rxVars, rx_pc # "read" <=> rx_pc' # "read"
                  PROVE  Ring'
BY DEF Ring, rxVars

\* The frame being read is the last in the ring as seen from RxDesc.
LEMMA ReadIsLast == ASSUME Inv, Ring, rx_pc = "read"
                    PROVE  Ahead(ETH_RXBUFNB, RxDesc, FSRxDesc) = ETH_RXBUFNB - 1
<1>1. RxDesc = After(ETH_RXBUFNB, FSRxDesc, 1) BY DEF Ring
<1>2. FSRxDesc \in 0 .. ETH_RXBUFNB - 1 BY DEF Inv, TypeOK, RxRing
<1> QED BY <1>1, <1>2, TransportConstants, AheadStep

\* A frame is stored behind the others, never over the one being read.
LEMMA ReceiveKeepsRing == ASSUME Inv, Ring, Receive PROVE Ring'
<1> DEFINE n == ETH_RXBUFNB
<1> DEFINE w == arrived - seen
<1>1. /\ rx_own[rx_dma] /\ rx_own' = [rx_own EXCEPT ![rx_dma] = FALSE]
      /\ rx_buf' = [rx_buf EXCEPT ![rx_dma] = arrived + 1]
      /\ rx_dma' = After(n, rx_dma, 1) /\ arrived' = arrived + 1
      /\ UNCHANGED <<RxDesc, FSRxDesc, seen, rx_pc>>
  BY NextIsAfter DEF Receive
<1>2. /\ n \in Nat \ {0} /\ arrived \in Nat /\ seen \in Nat
      /\ RxDesc \in 0 .. n - 1 /\ rx_dma \in 0 .. n - 1 /\ FSRxDesc \in 0 .. n - 1
      /\ rx_own \in [0 .. n - 1 -> BOOLEAN] /\ rx_buf \in [0 .. n - 1 -> Nat]
  BY TransportConstants DEF Inv, TypeOK, RxRing
<1>3. /\ w \in 0 .. (IF rx_pc = "read" THEN n - 1 ELSE n)
      /\ rx_dma = After(n, RxDesc, w)
      /\ rx_pc = "read" => RxDesc = After(n, FSRxDesc, 1) /\ rx_buf[FSRxDesc] = seen
  BY DEF Ring
<1>4. \A d \in 0 .. n - 1 :
         /\ rx_own[d] <=> ~(Ahead(n, RxDesc, d) < w) /\ ~(rx_pc = "read" /\ d = FSRxDesc)
         /\ Ahead(n, RxDesc, d) < w => rx_buf[d] = seen + 1 + Ahead(n, RxDesc, d)
  BY DEF Ring, RxRing
<1>5. rx_pc = "read" => Ahead(n, RxDesc, FSRxDesc) = n - 1 BY ReadIsLast
<1>6. w \in Int /\ arrived' - seen' = w + 1 /\ arrived + 1 = seen + 1 + w BY <1>1, <1>2
<1> HIDE DEF n, w
<1>7. w # n
  <2> SUFFICES ASSUME w = n PROVE FALSE OBVIOUS
  <2>1. rx_dma = RxDesc BY <1>2, <1>3, Wrap
  <2>2. Ahead(n, RxDesc, rx_dma) = 0 BY <1>2, <2>1 DEF Ahead
  <2> QED BY <1>1, <1>2, <1>4, <2>2
<1>8. w \in 0 .. n - 1 BY <1>2, <1>3, <1>7
<1>9. \A d \in 0 .. n - 1 : Ahead(n, RxDesc, d) = w <=> d = rx_dma
  <2>1. \A d \in 0 .. n - 1 : Ahead(n, RxDesc, d) = w <=> d = After(n, RxDesc, w)
    BY <1>2, <1>8, AheadEnd
  <2> QED BY <1>3, <2>1
<1>10. rx_pc = "read" => rx_dma # FSRxDesc BY <1>1, <1>2, <1>4
<1>11. rx_pc = "read" => w # n - 1 BY <1>2, <1>5, <1>9, <1>10
<1>12. w + 1 \in 0 .. (IF rx_pc = "read" THEN n - 1 ELSE n)
  BY <1>2, <1>3, <1>8, <1>11
<1>13. rx_dma' = After(n, RxDesc, w + 1) BY <1>1, <1>2, <1>3, <1>8, AfterStep
<1>14. \A d \in 0 .. n - 1 : Ahead(n, RxDesc, d) \in 0 .. n - 1 BY <1>2, AheadType
<1>15. ASSUME NEW d \in 0 .. n - 1
       PROVE  /\ rx_own'[d] <=> /\ ~(Ahead(n, RxDesc, d) < w + 1)
                                /\ ~(rx_pc = "read" /\ d = FSRxDesc)
              /\ Ahead(n, RxDesc, d) < w + 1 =>
                    rx_buf'[d] = seen + 1 + Ahead(n, RxDesc, d)
  <2>1. CASE d = rx_dma
    <3>1. Ahead(n, RxDesc, d) = w BY <1>9, <2>1
    <3>2. ~rx_own'[d] /\ rx_buf'[d] = arrived + 1 BY <1>1, <1>2, <2>1
    <3> QED BY <1>6, <3>1, <3>2
  <2>2. CASE d # rx_dma
    <3>1. rx_own'[d] = rx_own[d] /\ rx_buf'[d] = rx_buf[d] BY <1>1, <1>2, <2>2
    <3>2. Ahead(n, RxDesc, d) < w + 1 <=> Ahead(n, RxDesc, d) < w
      BY <1>8, <1>9, <1>14, <2>2
    <3> QED BY <1>4, <3>1, <3>2
  <2> QED BY <2>1, <2>2
<1>16. rx_pc = "read" => rx_buf'[FSRxDesc] = seen BY <1>1, <1>2, <1>3, <1>10
<1>17. /\ arrived' - seen' \in 0 .. (IF rx_pc' = "read" THEN n - 1 ELSE n)
       /\ rx_dma' = After(n, RxDesc', arrived' - seen')
       /\ rx_pc' = "read" => RxDesc' = After(n, FSRxDesc', 1) /\ rx_buf'[FSRxDesc'] = seen'
  BY <1>1, <1>3, <1>6, <1>12, <1>13, <1>16
<1>18. \A d \in 0 .. n - 1 :
          /\ rx_own'[d] <=> /\ ~(Ahead(n, RxDesc', d) < arrived' - seen')
                            /\ ~(rx_pc' = "read" /\ d = FSRxDesc')
          /\ Ahead(n, RxDesc', d) < arrived' - seen' =>
                rx_buf'[d] = seen' + 1 + Ahead(n, RxDesc', d)
  BY <1>1, <1>6, <1>15
<1> QED BY <1>17, <1>18 DEF Ring, RxRing, n

\* The frame handed to eth_recv() is the first one not yet seen.
LEMMA ScanKeepsRing == ASSUME Inv, Ring, RxScan PROVE Ring'
<1> DEFINE n == ETH_RXBUFNB
<1> DEFINE w == arrived - seen
<1>1. rx_pc = "scan" /\ UNCHANGED <<rx_own, rx_buf, rx_dma, arrived>>
  BY DEF RxScan, RxRuns
<1>2. CASE rx_own[RxDesc]
  <2>1. rx_pc' = "take" /\ UNCHANGED <<RxDesc, FSRxDesc, seen>> BY <1>2 DEF RxScan
  <2> QED BY <1>1, <2>1 DEF Ring
<1>3. CASE ~rx_own[RxDesc]
  <2>1. SegCount = 0 BY <1>1 DEF Inv, Counted
  <2>2. /\ FSRxDesc' = RxDesc /\ RxDesc' = After(n, RxDesc, 1) /\ seen' = seen + 1
        /\ rx_pc' = "read"
    BY <1>3, <2>1, NextIsAfter DEF RxScan
  <2>3. /\ n \in Nat \ {0} /\ arrived \in Nat /\ seen \in Nat /\ RxDesc \in 0 .. n - 1
    BY TransportConstants DEF Inv, TypeOK, RxRing
  <2>4. w \in 0 .. n /\ rx_dma = After(n, RxDesc, w) BY <1>1 DEF Ring
  <2>5. \A d \in 0 .. n - 1 :
           /\ rx_own[d] <=> ~(Ahead(n, RxDesc, d) < w)
           /\ Ahead(n, RxDesc, d) < w => rx_buf[d] = seen + 1 + Ahead(n, RxDesc, d)
    BY <1>1 DEF Ring, RxRing
  <2>6. w \in Int /\ arrived' - seen' = w - 1 BY <1>1, <2>2, <2>3
  <2> HIDE DEF n, w
  <2>7. Ahead(n, RxDesc, RxDesc) = 0 BY <2>3 DEF Ahead
  <2>8. 0 < w /\ rx_buf[RxDesc] = seen + 1 BY <1>3, <2>3, <2>5, <2>7
  <2>9. w - 1 \in 0 .. n - 1 /\ (w - 1) + 1 = w BY <2>3, <2>4, <2>8
  <2>10. rx_dma = After(n, RxDesc', w - 1)
    <3>1. After(n, After(n, RxDesc, 1), w - 1) = After(n, RxDesc, (w - 1) + 1)
      BY <2>3, <2>9, AfterStep
    <3> QED BY <2>2, <2>4, <2>9, <3>1
  <2>11. \A d \in 0 .. n - 1 :
            Ahead(n, RxDesc', d) = IF d = RxDesc THEN n - 1 ELSE Ahead(n, RxDesc, d) - 1
    BY <2>2, <2>3, AheadStep
  <2>12. \A d \in 0 .. n - 1 : Ahead(n, RxDesc, d) \in 0 .. n - 1 BY <2>3, AheadType
  <2>13. ASSUME NEW d \in 0 .. n - 1
         PROVE  /\ rx_own[d] <=> ~(Ahead(n, RxDesc', d) < w - 1) /\ ~(d = RxDesc)
                /\ Ahead(n, RxDesc', d) < w - 1 =>
                      rx_buf[d] = seen + 1 + 1 + Ahead(n, RxDesc', d)
    <3>1. CASE d = RxDesc
      <4>1. Ahead(n, RxDesc', d) = n - 1 BY <2>11, <3>1
      <4>2. ~(n - 1 < w - 1) BY <2>3, <2>4
      <4> QED BY <1>3, <3>1, <4>1, <4>2
    <3>2. CASE d # RxDesc
      <4>1. Ahead(n, RxDesc', d) = Ahead(n, RxDesc, d) - 1 BY <2>11, <3>2
      <4> QED BY <2>3, <2>5, <2>6, <2>12, <3>2, <4>1
    <3> QED BY <3>1, <3>2
  <2>14. /\ arrived' - seen' \in 0 .. (IF rx_pc' = "read" THEN n - 1 ELSE n)
         /\ rx_dma' = After(n, RxDesc', arrived' - seen')
         /\ RxDesc' = After(n, FSRxDesc', 1) /\ rx_buf'[FSRxDesc'] = seen'
    BY <1>1, <2>2, <2>6, <2>8, <2>9, <2>10
  <2>15. \A d \in 0 .. n - 1 :
            /\ rx_own'[d] <=> /\ ~(Ahead(n, RxDesc', d) < arrived' - seen')
                              /\ ~(rx_pc' = "read" /\ d = FSRxDesc')
            /\ Ahead(n, RxDesc', d) < arrived' - seen' =>
                  rx_buf'[d] = seen' + 1 + Ahead(n, RxDesc', d)
    BY <1>1, <2>2, <2>6, <2>13
  <2> QED BY <2>14, <2>15 DEF Ring, RxRing, n
<1> QED BY <1>2, <1>3

\* Releasing gives the DMA the descriptor of the frame read, and no other.
LEMMA ReleaseKeepsRing == ASSUME Inv, Ring, RxRelease PROVE Ring'
<1> DEFINE n == ETH_RXBUFNB
<1> DEFINE w == arrived - seen
<1>1. /\ rx_pc = "read" /\ rx_pc' = "take"
      /\ UNCHANGED <<rx_buf, rx_dma, RxDesc, FSRxDesc, arrived, seen>>
  BY DEF RxRelease, RxRuns
<1>2. /\ n \in Nat \ {0} /\ FSRxDesc \in 0 .. n - 1 /\ arrived - seen \in Int
  BY TransportConstants DEF Inv, TypeOK, RxRing
<1>3. SegCount = 1 BY <1>1 DEF Inv, Counted
<1>4. \A d \in 0 .. n - 1 : rx_own'[d] <=> rx_own[d] \/ d = FSRxDesc
  BY <1>2, <1>3, ReleasesOne DEF RxRelease, RxRing
<1>5. Ahead(n, RxDesc, FSRxDesc) = n - 1 BY <1>1, ReadIsLast
<1>6. w \in 0 .. n - 1 BY <1>1 DEF Ring
<1>7. \A d \in 0 .. n - 1 : rx_own'[d] <=> ~(Ahead(n, RxDesc, d) < w)
  <2>1. \A d \in 0 .. n - 1 :
           rx_own[d] <=> ~(Ahead(n, RxDesc, d) < w) /\ d # FSRxDesc
    BY <1>1 DEF Ring, RxRing
  <2> QED BY <1>2, <1>4, <1>5, <1>6, <2>1
<1>8. w \in 0 .. n BY <1>2, <1>6
<1> QED BY <1>1, <1>7, <1>8 DEF Ring, RxRing

-----------------------------------------------------------------------------
(* The theorems *)

FullInv == Inv /\ WireInv /\ Ring

\* The three invariants together hold at the start.
LEMMA FullInit == Init => FullInv
BY InvInit, WireInit, RingInit DEF FullInv

\* The three invariants together are inductive.
LEMMA FullNext == FullInv /\ [Next]_vars => FullInv'
<1> SUFFICES ASSUME FullInv, [Next]_vars PROVE FullInv' OBVIOUS
<1>0. Inv /\ WireInv /\ Ring BY DEF FullInv
<1>1. CASE Receive
  <2>1. UNCHANGED txVars /\ tx_pc' = tx_pc BY <1>1 DEF Receive
  <2> QED BY <1>0, <1>1, <2>1, ReceiveKeepsInv, WireKept, ReceiveKeepsRing DEF FullInv
<1>2. CASE IrqGive \/ IrqEnd
  <2>1. UNCHANGED <<txVars, rxVars, rx_pc, tx_pc>> BY <1>2 DEF IrqGive, IrqEnd
  <2> QED BY <1>0, <1>2, <2>1, IrqKeepsInv, WireKept, RingKept DEF FullInv
<1>3. CASE EthRxTask
  <2>1. UNCHANGED <<txVars, tx_pc>>
    BY <1>3 DEF EthRxTask, RxTake, RxLock, RxScan, RxRelease
  <2>2. Inv' /\ WireInv' BY <1>0, <1>3, <2>1, EthRxTaskKeepsInv, WireKept
  <2>3. CASE RxTake \/ RxLock
    <3>1. UNCHANGED rxVars /\ rx_pc # "read" /\ rx_pc' # "read"
      BY <2>3 DEF RxTake, RxLock, RxRuns
    <3> QED BY <1>0, <2>2, <3>1, RingKept DEF FullInv
  <2>4. CASE RxScan BY <1>0, <2>2, <2>4, ScanKeepsRing DEF FullInv
  <2>5. CASE RxRelease BY <1>0, <2>2, <2>5, ReleaseKeepsRing DEF FullInv
  <2> QED BY <1>3, <2>3, <2>4, <2>5 DEF EthRxTask
<1>4. CASE \E s \in Senders : Send(s)
  <2>1. PICK s \in Senders : Send(s) BY <1>4
  <2>2. Inv' BY <1>0, <2>1, SendKeepsInv
  <2>3. UNCHANGED <<rxVars, rx_pc>>
    BY <2>1 DEF Send, SendCall, SendTake, SendTimeout, SendBuild, SendLock, SendOwn,
                SendGive
  <2>4. Ring' BY <1>0, <2>3, RingKept
  <2>5. WireInv'
    <3>1. CASE SendBuild(s) BY <1>0, <3>1, BuildKeepsWire
    <3>2. CASE SendOwn(s) BY <1>0, <3>2, OwnKeepsWire
    <3>3. ASSUME UNCHANGED txVars, NEW at, tx_pc' = [tx_pc EXCEPT ![s] = at],
                 \/ at \notin {"build", "transmit", "own"}
                 \/ at = "build" /\ ~tx_own[TxDesc]
                 \/ at = "own" /\ tx_pc[s] = "transmit"
          PROVE  WireInv'
      <4>1. tx_pc'[s] = at /\ \A u \in Senders \ {s} : tx_pc'[u] = tx_pc[u]
        BY <1>0, <3>3 DEF Inv, TypeOK
      <4> QED BY <1>0, <3>3, <4>1, WireKept
    <3>4. CASE SendCall(s)
      <4>1. UNCHANGED txVars /\ tx_pc' = [tx_pc EXCEPT ![s] = "take"] BY <3>4 DEF SendCall
      <4> QED BY <3>3, <4>1
    <3>5. CASE SendTake(s)
      <4>1. UNCHANGED txVars BY <3>5 DEF SendTake
      <4>2. CASE tx_own[TxDesc]
        <5>1. tx_pc' = [tx_pc EXCEPT ![s] = "give"] BY <3>5, <4>2 DEF SendTake
        <5> QED BY <3>3, <4>1, <5>1
      <4>3. CASE ~tx_own[TxDesc]
        <5>1. tx_pc' = [tx_pc EXCEPT ![s] = "build"] BY <3>5, <4>3 DEF SendTake
        <5> QED BY <3>3, <4>1, <4>3, <5>1
      <4> QED BY <4>2, <4>3
    <3>6. CASE SendTimeout(s) \/ SendGive(s)
      <4>1. UNCHANGED txVars /\ tx_pc' = [tx_pc EXCEPT ![s] = "idle"]
        BY <3>6 DEF SendTimeout, SendGive
      <4> QED BY <3>3, <4>1
    <3>7. CASE SendLock(s)
      <4>1. UNCHANGED txVars /\ tx_pc[s] = "transmit" /\ ~Lock
        BY <1>0, <3>7, LockFree DEF SendLock
      <4>2. tx_pc' = [tx_pc EXCEPT ![s] = "own"] BY <3>7, <4>1 DEF SendLock
      <4> QED BY <3>3, <4>1, <4>2
    <3> QED BY <2>1, <3>1, <3>2, <3>4, <3>5, <3>6, <3>7 DEF Send
  <2> QED BY <2>2, <2>4, <2>5 DEF FullInv
<1>5. CASE Transmit
  <2>1. UNCHANGED <<rxVars, rx_pc>> BY <1>5 DEF Transmit
  <2>2. WireInv' /\ accepted # <<>> BY <1>0, <1>5, TransmitKeepsWire
  <2> QED BY <1>0, <1>5, <2>1, <2>2, TransmitKeepsInv, RingKept DEF FullInv
<1>6. CASE UNCHANGED vars
  <2>1. UNCHANGED <<rxVars, txVars, rx_pc, tx_pc>> BY <1>6 DEF vars
  <2>2. Inv'
    BY <1>0, <1>6 DEF vars, rxVars, txVars, signalVars, Inv, TypeOK, MutexHeld, Counted,
       LockUsed, RxReady, GivenIsTaken, ReceiverAlive, Quiescent
  <2> QED BY <1>0, <2>1, <2>2, WireKept, RingKept DEF FullInv
<1> QED BY <1>1, <1>2, <1>3, <1>4, <1>5, <1>6 DEF Next

\* ... and so always hold.
LEMMA FullAlways == Spec => []FullInv
BY FullInit, FullNext, PTL DEF Spec

\* The descriptors and pointers stay in their rings, no frame is counted as
\* more than one segment, and accepted frames are a sequence of senders.
THEOREM TransportTypes == Spec => []TypeOK
<1>1. FullInv => TypeOK BY DEF FullInv, Inv
<1> QED BY <1>1, FullAlways, PTL

\* HAL_ETH_GetReceivedFrame_IT() and HAL_ETH_TransmitFrame() never return
\* HAL_BUSY: the lock is free whenever a task comes to take it.
THEOREM NeverBusyAlways == Spec => []NeverBusy
<1>1. ASSUME Inv PROVE NeverBusy
  <2>1. RxRuns("get") => ~Lock BY <1>1 DEF Inv, LockUsed, RxRuns, RxReady
  <2>2. \A s \in Senders : TaskRuns(s) /\ tx_pc[s] = "transmit" => ~Lock BY <1>1, LockFree
  <2> QED BY <2>1, <2>2 DEF NeverBusy
<1>2. FullInv => NeverBusy BY <1>1 DEF FullInv
<1> QED BY <1>2, FullAlways, PTL

\* The receive ring never fills up while nothing is under way that would
\* empty it, so reception cannot stop for good.
THEOREM ReceiverAliveAlways == Spec => []ReceiverAlive
<1>1. FullInv => ReceiverAlive BY DEF FullInv, Inv
<1> QED BY <1>1, FullAlways, PTL

\* eth_recv() reads the frames in the order of their arrival, each from a
\* buffer the DMA cannot write.
THEOREM ReadsInOrderAlways == Spec => []ReadsInOrder
<1>1. ASSUME Inv, Ring PROVE ReadsInOrder
  <2>1. FSRxDesc \in RxRing /\ rx_own \in [RxRing -> BOOLEAN] BY <1>1 DEF Inv, TypeOK
  <2> QED BY <1>1, <2>1 DEF Ring, ReadsInOrder
<1>2. FullInv => ReadsInOrder BY <1>1 DEF FullInv
<1> QED BY <1>2, FullAlways, PTL

\* The frames eth_send() accepted and the DMA has not sent lie in the ring in
\* order, each as its task built it.
THEOREM WireKeepsOrderAlways == Spec => []WireKeepsOrder
<1>1. ASSUME Inv, Wire PROVE WireKeepsOrder
  <2> DEFINE n == ETH_TXBUFNB
  <2>1. n \in Nat \ {0} /\ tx_dma \in 0 .. n - 1 /\ Len(accepted) \in 0 .. n
    BY <1>1, TransportConstants DEF Inv, TypeOK, TxRing, Wire
  <2>2. ASSUME NEW k \in 1 .. Len(accepted)
        PROVE  /\ tx_own[(tx_dma + k - 1) % n]
               /\ tx_buf[(tx_dma + k - 1) % n] = accepted[k]
    <3>1. k - 1 \in 0 .. n - 1 /\ tx_dma + (k - 1) = tx_dma + k - 1 BY <2>1, <2>2
    <3>2. PICK j \in 0 .. n - 1 : j = k - 1 BY <3>1
    <3>3. After(n, tx_dma, j) = (tx_dma + k - 1) % n BY <3>1, <3>2 DEF After
    <3>4. /\ After(n, tx_dma, j) \in 0 .. n - 1
          /\ Ahead(n, tx_dma, After(n, tx_dma, j)) = j
      BY <2>1, AheadEnd
    <3>5. PICK d \in TxRing : d = After(n, tx_dma, j) BY <3>4 DEF TxRing
    <3>6. Ahead(n, tx_dma, d) = k - 1 BY <3>2, <3>4, <3>5
    <3>7. tx_own[d] BY <1>1, <2>1, <2>2, <3>6 DEF Wire
    <3>8. tx_buf[d] = accepted[(k - 1) + 1] BY <1>1, <3>6, <3>7 DEF Wire
    <3>9. (k - 1) + 1 = k BY <2>1, <2>2
    <3> QED BY <3>3, <3>5, <3>7, <3>8, <3>9
  <2> QED BY <1>1, <2>1, <2>2 DEF WireKeepsOrder, Wire
<1>2. FullInv => WireKeepsOrder BY <1>1 DEF FullInv, WireInv
<1> QED BY <1>2, FullAlways, PTL

-----------------------------------------------------------------------------
(* Reading a queue off a ring *)

\* When D is the set of the w descriptors from first on, Run() counts w.
LEMMA RunCounts ==
    ASSUME NEW n \in Nat \ {0}, NEW first \in 0 .. n - 1, NEW w \in 0 .. n,
           NEW D \in SUBSET (0 .. n - 1),
           \A d \in 0 .. n - 1 : d \in D <=> Ahead(n, first, d) < w
    PROVE  Run(n, first, D) = w
<1> DEFINE P(k) == /\ \A j \in 0 .. k - 1 : (first + j) % n \in D
                   /\ k < n => (first + k) % n \notin D
<1>1. ASSUME NEW j \in 0 .. n - 1
      PROVE  (first + j) % n \in D <=> j < w
  <2>1. After(n, first, j) \in 0 .. n - 1 /\ Ahead(n, first, After(n, first, j)) = j
    BY AheadEnd
  <2> QED BY <2>1 DEF After
<1>2. P(w)
  <2>1. \A j \in 0 .. w - 1 : j \in 0 .. n - 1 /\ j < w OBVIOUS
  <2>2. w < n => w \in 0 .. n - 1 /\ ~(w < w) OBVIOUS
  <2> QED BY <1>1, <2>1, <2>2
<1>3. ASSUME NEW k \in 0 .. n, P(k) PROVE k = w
  <2>1. CASE k < w
    <3>1. k \in 0 .. n - 1 BY <2>1
    <3> QED BY <1>1, <1>3, <2>1, <3>1
  <2>2. CASE w < k
    <3>1. w \in 0 .. k - 1 /\ w \in 0 .. n - 1 /\ ~(w < w) BY <2>2
    <3> QED BY <1>1, <1>3, <3>1
  <2> QED BY <2>1, <2>2
<1>4. Run(n, first, D) = CHOOSE k \in 0 .. n : P(k) BY DEF Run
<1> HIDE DEF P
<1> QED BY <1>2, <1>3, <1>4

\* The transmit ring holds the accepted frames.
LEMMA TxWaitingIs == FullInv => TxWaiting = accepted
<1> SUFFICES ASSUME FullInv PROVE TxWaiting = accepted OBVIOUS
<1> DEFINE n == ETH_TXBUFNB
<1> DEFINE w == Len(accepted)
<1> DEFINE D == {d \in TxRing : tx_own[d]}
<1>1. /\ n \in Nat \ {0} /\ tx_dma \in 0 .. n - 1 /\ w \in 0 .. n
      /\ accepted \in Seq(Senders)
  BY TransportConstants DEF FullInv, Inv, TypeOK, TxRing, WireInv, Wire
<1>2. \A d \in 0 .. n - 1 : d \in D <=> Ahead(n, tx_dma, d) < w
  BY DEF FullInv, WireInv, Wire, TxRing
<1>3. D \in SUBSET (0 .. n - 1) BY DEF TxRing
<1>4. Run(n, tx_dma, D) = w
  <2> HIDE DEF n, w, D
  <2> QED BY <1>1, <1>2, <1>3, RunCounts
<1>5. ASSUME NEW k \in 1 .. w
      PROVE  tx_buf[(tx_dma + (k - 1)) % n] = accepted[k]
  <2>1. k - 1 \in 0 .. n - 1 /\ (k - 1) + 1 = k /\ k - 1 < w BY <1>1
  <2>2. PICK j \in 0 .. n - 1 : j = k - 1 BY <2>1
  <2>3. After(n, tx_dma, j) \in 0 .. n - 1 /\ Ahead(n, tx_dma, After(n, tx_dma, j)) = j
    BY <1>1, AheadEnd
  <2>4. After(n, tx_dma, j) = (tx_dma + (k - 1)) % n BY <2>2 DEF After
  <2>5. PICK d \in TxRing : d = After(n, tx_dma, j) BY <2>3 DEF TxRing
  <2>6. Ahead(n, tx_dma, d) = k - 1 BY <2>2, <2>3, <2>5
  <2>7. tx_own[d] => tx_buf[d] = accepted[(k - 1) + 1]
    BY <2>6 DEF FullInv, WireInv, Wire
  <2>8. tx_own[d] BY <2>1, <2>6 DEF FullInv, WireInv, Wire
  <2> QED BY <2>1, <2>4, <2>5, <2>7, <2>8
<1>6. TxWaiting = [k \in 1 .. w |-> tx_buf[(tx_dma + (k - 1)) % n]]
  BY <1>4 DEF TxWaiting
<1>7. accepted = [k \in 1 .. w |-> accepted[k]] BY <1>1
<1> HIDE DEF n, w, D
<1> QED BY <1>5, <1>6, <1>7

\* The frame eth_recv() reads counts as waiting until it is released.
Unread == IF rx_pc = "read" THEN seen - 1 ELSE seen

\* The receive ring holds the frames after Unread, in the order of arrival.
LEMMA RxWaitingIs ==
    FullInv => /\ arrived - Unread \in 0 .. ETH_RXBUFNB
               /\ RxWaiting = [k \in 1 .. arrived - Unread |-> Unread + k]
<1> SUFFICES ASSUME FullInv
             PROVE  /\ arrived - Unread \in 0 .. ETH_RXBUFNB
                    /\ RxWaiting = [k \in 1 .. arrived - Unread |-> Unread + k]
  OBVIOUS
<1> DEFINE n == ETH_RXBUFNB
<1> DEFINE w == arrived - Unread
<1> DEFINE D == {d \in RxRing : ~rx_own[d]}
<1>1. /\ n \in Nat \ {0} /\ RxDesc \in 0 .. n - 1 /\ FSRxDesc \in 0 .. n - 1
      /\ arrived \in Nat /\ seen \in Nat
  BY TransportConstants DEF FullInv, Inv, TypeOK, RxRing
<1>2. RxFirst = IF rx_pc = "read" THEN FSRxDesc ELSE RxDesc
  BY DEF RxFirst, FullInv, Inv, Counted
<1>3. w \in 0 .. n BY <1>1 DEF FullInv, Ring, Unread
<1>4. RxFirst \in 0 .. n - 1 BY <1>1, <1>2
<1>5. ASSUME NEW d \in 0 .. n - 1
      PROVE  /\ d \in D <=> Ahead(n, RxFirst, d) < w
             /\ d \in D => rx_buf[d] = Unread + 1 + Ahead(n, RxFirst, d)
  <2>0. d \in RxRing BY DEF RxRing
  <2>1. CASE rx_pc # "read"
    BY <1>1, <1>2, <2>0, <2>1 DEF FullInv, Ring, Unread
  <2>2. CASE rx_pc = "read"
    <3>1. RxDesc = After(n, FSRxDesc, 1) /\ rx_buf[FSRxDesc] = seen
      BY <2>2 DEF FullInv, Ring
    <3>2. RxFirst = FSRxDesc /\ Unread = seen - 1 BY <1>2, <2>2 DEF Unread
    <3>3. arrived - seen \in 0 .. n - 1 BY <2>2 DEF FullInv, Ring
    <3>4. d \in D <=> Ahead(n, RxDesc, d) < arrived - seen \/ d = FSRxDesc
      BY <2>0, <2>2 DEF FullInv, Ring
    <3>5. Ahead(n, RxDesc, d) < arrived - seen =>
             rx_buf[d] = seen + 1 + Ahead(n, RxDesc, d)
      BY <2>0 DEF FullInv, Ring
    <3>6. Ahead(n, FSRxDesc, FSRxDesc) = 0 BY <1>1 DEF Ahead
    <3>7. d # FSRxDesc => Ahead(n, FSRxDesc, d) = Ahead(n, RxDesc, d) + 1
      <4>1. 1 \in 0 .. n BY <1>1
      <4>2. RxDesc = IF FSRxDesc + 1 < n THEN FSRxDesc + 1 ELSE FSRxDesc + 1 - n
        BY <1>1, <3>1, <4>1, Wrap
      <4> QED BY <1>1, <4>2 DEF Ahead
    <3>8. Ahead(n, RxDesc, FSRxDesc) = n - 1 BY <2>2, ReadIsLast DEF FullInv
    <3>9. Ahead(n, RxDesc, d) \in 0 .. n - 1 BY <1>1, AheadType
    <3>10. w = arrived - seen + 1 BY <1>1, <3>2
    <3> HIDE DEF n, w, D
    <3>11. CASE d = FSRxDesc
      <4>1. Ahead(n, RxFirst, d) = 0 BY <3>2, <3>6, <3>11
      <4>2. d \in D BY <3>4, <3>11
      <4>3. 0 < w BY <1>1, <3>3, <3>10
      <4>4. rx_buf[d] = Unread + 1 + 0 BY <1>1, <3>1, <3>2, <3>11
      <4> QED BY <4>1, <4>2, <4>3, <4>4
    <3>12. CASE d # FSRxDesc
      BY <1>1, <3>2, <3>4, <3>5, <3>7, <3>9, <3>10, <3>12
    <3> QED BY <3>11, <3>12
  <2> QED BY <2>1, <2>2
<1>6. D \in SUBSET (0 .. n - 1) BY DEF RxRing
<1>7. Run(n, RxFirst, D) = w
  <2> HIDE DEF n, w, D
  <2> QED BY <1>1, <1>3, <1>4, <1>5, <1>6, RunCounts
<1>8. ASSUME NEW k \in 1 .. w
      PROVE  rx_buf[(RxFirst + (k - 1)) % n] = Unread + k
  <2> HIDE DEF n, w, D
  <2>1. k - 1 \in 0 .. n - 1 /\ k - 1 < w BY <1>1, <1>3
  <2>2. PICK j \in 0 .. n - 1 : j = k - 1 BY <2>1
  <2>3. After(n, RxFirst, j) \in 0 .. n - 1 /\ Ahead(n, RxFirst, After(n, RxFirst, j)) = j
    BY <1>1, <1>4, AheadEnd
  <2>4. After(n, RxFirst, j) = (RxFirst + (k - 1)) % n BY <2>2 DEF After
  <2>5. PICK d \in 0 .. n - 1 : d = After(n, RxFirst, j) BY <2>3
  <2>6. Ahead(n, RxFirst, d) = k - 1 BY <2>2, <2>3, <2>5
  <2>7. rx_buf[d] = Unread + 1 + Ahead(n, RxFirst, d) BY <1>5, <2>1, <2>6
  <2>8. Unread + 1 + (k - 1) = Unread + k BY <1>1, <1>3 DEF Unread
  <2> QED BY <2>4, <2>5, <2>6, <2>7, <2>8
<1>9. RxWaiting = [k \in 1 .. w |-> rx_buf[(RxFirst + (k - 1)) % n]]
  BY <1>7 DEF RxWaiting
<1>10. RxWaiting = [k \in 1 .. w |-> Unread + k]
  <2> HIDE DEF n, w, D
  <2> QED BY <1>8, <1>9
<1> QED BY <1>3, <1>10

-----------------------------------------------------------------------------
(* Steps of the transmit ring *)

\* What a step does to the accepted frames.
LEMMA AcceptedStep ==
    ASSUME FullInv, [Next]_vars
    PROVE  \/ accepted' = accepted
           \/ accepted # <<>> /\ accepted' = Tail(accepted)
           \/ /\ Len(accepted) < ETH_TXBUFNB
              /\ \E s \in Senders : accepted' = Append(accepted, s)
<1>0. Inv /\ WireInv BY DEF FullInv
<1>1. CASE Transmit
  <2>1. accepted # <<>> BY <1>0, <1>1, TransmitKeepsWire
  <2> QED BY <1>1, <2>1 DEF Transmit
<1>2. CASE \E s \in Senders : Send(s)
  <2>1. PICK s \in Senders : Send(s) BY <1>2
  <2>2. CASE SendOwn(s)
    <3>1. ~tx_own[TxDesc] BY <1>0, <2>2 DEF SendOwn, WireInv, Built
    <3>2. accepted' = Append(accepted, s) BY <2>2, <3>1 DEF SendOwn
    <3>3. Len(accepted) \in 0 .. ETH_TXBUFNB - 1 BY <1>0, <3>1, FreeDesc DEF WireInv
    <3>4. Len(accepted) < ETH_TXBUFNB BY <3>3, TransportConstants
    <3> QED BY <3>2, <3>4
  <2>3. CASE ~SendOwn(s)
    BY <2>1, <2>3 DEF Send, SendCall, SendTake, SendTimeout, SendBuild, SendLock,
                      SendGive, txVars
  <2> QED BY <2>2, <2>3
<1>3. CASE Receive \/ IrqGive \/ IrqEnd \/ EthRxTask \/ UNCHANGED vars
  BY <1>3 DEF Receive, IrqGive, IrqEnd, EthRxTask, RxTake, RxLock, RxScan, RxRelease,
              vars, txVars
<1> QED BY <1>1, <1>2, <1>3 DEF Next

\* No frame waits in the transmit ring at the start.
LEMMA TxInit == Init => TxQueue!Init
<1> SUFFICES ASSUME Init PROVE TxQueue!Init OBVIOUS
<1>1. TxWaiting = accepted BY FullInit, TxWaitingIs
<1> QED BY <1>1 DEF Init, TxQueue!Init

\* Every step puts a frame into the transmit queue, takes one or does neither.
LEMMA TxStep == FullInv /\ FullInv' /\ [Next]_vars => [TxQueue!Next]_TxWaiting
<1> SUFFICES ASSUME FullInv, FullInv', [Next]_vars PROVE [TxQueue!Next]_TxWaiting
  OBVIOUS
<1>1. TxWaiting = accepted BY TxWaitingIs
<1>2. (FullInv => TxWaiting = accepted)' BY TxWaitingIs, PTL
<1>3. TxWaiting' = accepted' BY <1>2
<1>4. CASE accepted' = accepted BY <1>1, <1>3, <1>4
<1>5. CASE accepted # <<>> /\ accepted' = Tail(accepted)
  <2>1. TxQueue!Take BY <1>1, <1>3, <1>5 DEF TxQueue!Take
  <2> QED BY <2>1 DEF TxQueue!Next
<1>6. ASSUME Len(accepted) < ETH_TXBUFNB, NEW s \in Senders, accepted' = Append(accepted, s)
      PROVE  [TxQueue!Next]_TxWaiting
  <2>1. TxQueue!Put(s) BY <1>1, <1>3, <1>6 DEF TxQueue!Put
  <2> QED BY <2>1 DEF TxQueue!Next
<1> QED BY <1>4, <1>5, <1>6, AcceptedStep

\* The transmit ring implements the queue: for any size of the ring and every
\* interleaving of both tasks, the DMA and the interrupt, the frames leave in
\* the order in which eth_send() accepted them, unaltered.
THEOREM TxRingImplementsQueue == Spec => TxRingIsQueue
<1>1. FullInv /\ [Next]_vars => FullInv' BY FullNext
<1> QED BY <1>1, TxInit, TxStep, FullAlways, PTL DEF Spec, TxRingIsQueue, TxQueue!Spec

-----------------------------------------------------------------------------
(* Steps of the receive ring *)

\* The numbers from a + 1 to a + w: what the receive ring holds.
Numbers(a, w) == [k \in 1 .. w |-> a + k]

\* Taking the first number and adding the next one.
LEMMA NumbersStep ==
    ASSUME NEW a \in Int, NEW w \in Nat
    PROVE  /\ Len(Numbers(a, w)) = w
           /\ Append(Numbers(a, w), a + (w + 1)) = Numbers(a, w + 1)
           /\ w > 0 => Numbers(a, w) # <<>> /\ Tail(Numbers(a, w)) = Numbers(a + 1, w - 1)
<1>1. Numbers(a, w) \in Seq(Int) /\ Len(Numbers(a, w)) = w BY DEF Numbers
<1>2. \A k \in 1 .. w : Numbers(a, w)[k] = a + k BY DEF Numbers
<1>3. Append(Numbers(a, w), a + (w + 1)) = Numbers(a, w + 1)
  <2> DEFINE A == Append(Numbers(a, w), a + (w + 1))
  <2>1. A \in Seq(Int) /\ Len(A) = w + 1 BY <1>1
  <2>2. \A k \in 1 .. w + 1 : A[k] = a + k BY <1>1, <1>2
  <2>3. A = [k \in 1 .. w + 1 |-> A[k]] BY <2>1
  <2> HIDE DEF A
  <2>4. A = [k \in 1 .. w + 1 |-> a + k] BY <2>2, <2>3
  <2> QED BY <2>4 DEF A, Numbers
<1>4. ASSUME w > 0
      PROVE  Numbers(a, w) # <<>> /\ Tail(Numbers(a, w)) = Numbers(a + 1, w - 1)
  <2> DEFINE B == Tail(Numbers(a, w))
  <2>1. Numbers(a, w) # <<>> BY <1>1, <1>4
  <2>2. B \in Seq(Int) /\ Len(B) = w - 1 BY <1>1, <1>4, <2>1
  <2>3. ASSUME NEW k \in 1 .. w - 1 PROVE B[k] = a + 1 + k
    <3>1. k + 1 \in 1 .. w BY <1>4
    <3>2. B[k] = Numbers(a, w)[k + 1] BY <1>1, <1>4, <2>1
    <3>3. a + (k + 1) = a + 1 + k OBVIOUS
    <3> QED BY <1>2, <3>1, <3>2, <3>3
  <2> HIDE DEF B
  <2>4. B = [k \in 1 .. w - 1 |-> B[k]] BY <2>2
  <2>5. B = [k \in 1 .. w - 1 |-> a + 1 + k] BY <2>3, <2>4
  <2> QED BY <2>1, <2>5 DEF B, Numbers
<1> QED BY <1>1, <1>3, <1>4

\* What a step does to the numbers of the frames in the receive ring.
LEMMA UnreadStep ==
    ASSUME FullInv, [Next]_vars
    PROVE  \/ arrived' = arrived /\ Unread' = Unread
           \/ arrived' = arrived /\ Unread' = Unread + 1 /\ arrived - Unread > 0
           \/ arrived' = arrived + 1 /\ Unread' = Unread /\ arrived < MAX_FRAMES
<1>1. /\ arrived \in Nat /\ seen \in Nat /\ Unread \in Int
      /\ rx_pc = "read" => arrived - seen >= 0
  BY TransportConstants DEF FullInv, Inv, TypeOK, Ring, Unread
<1>2. CASE Receive BY <1>2 DEF Receive, Unread
<1>3. CASE RxRelease BY <1>1, <1>3 DEF RxRelease, RxRuns, Unread
<1>4. CASE RxScan
  <2>1. rx_pc = "scan" /\ arrived' = arrived BY <1>4 DEF RxScan, RxRuns
  <2>2. CASE rx_own[RxDesc] BY <1>4, <2>1, <2>2 DEF RxScan, Unread
  <2>3. CASE ~rx_own[RxDesc]
    <3>1. seen' = seen + 1 /\ rx_pc' = "read" BY <1>4, <2>3 DEF RxScan
    <3> QED BY <1>1, <2>1, <3>1 DEF Unread
  <2> QED BY <2>2, <2>3
<1>5. CASE RxTake \/ RxLock BY <1>5 DEF RxTake, RxLock, RxRuns, Unread, rxVars
<1>6. CASE IrqGive \/ IrqEnd \/ Transmit \/ UNCHANGED vars
  BY <1>6 DEF IrqGive, IrqEnd, Transmit, vars, rxVars, Unread
<1>7. CASE \E s \in Senders : Send(s)
  BY <1>7 DEF Send, SendCall, SendTake, SendTimeout, SendBuild, SendLock, SendOwn,
              SendGive, rxVars, Unread
<1> QED BY <1>2, <1>3, <1>4, <1>5, <1>6, <1>7 DEF Next, EthRxTask

\* The receive ring holds consecutive numbers.
LEMMA RxWaitingNumbers ==
    FullInv => /\ arrived - Unread \in 0 .. ETH_RXBUFNB
               /\ RxWaiting = Numbers(Unread, arrived - Unread)
               /\ arrived \in Nat /\ Unread \in Int
BY RxWaitingIs DEF Numbers, FullInv, Inv, TypeOK, Unread

\* No frame waits in the receive ring at the start.
LEMMA RxInit == Init => RxQueue!Init
<1> SUFFICES ASSUME Init PROVE RxQueue!Init OBVIOUS
<1>1. RxWaiting = Numbers(Unread, arrived - Unread) BY FullInit, RxWaitingNumbers
<1>2. arrived - Unread = 0 BY DEF Init, Unread
<1>3. Numbers(Unread, 0) = <<>> BY DEF Numbers
<1> QED BY <1>1, <1>2, <1>3 DEF RxQueue!Init

\* Every step puts a frame into the receive queue, takes one or does neither.
LEMMA RxStep == FullInv /\ FullInv' /\ [Next]_vars => [RxQueue!Next]_RxWaiting
<1> SUFFICES ASSUME FullInv, FullInv', [Next]_vars PROVE [RxQueue!Next]_RxWaiting
  OBVIOUS
<1> DEFINE w == arrived - Unread
<1>1. /\ w \in 0 .. ETH_RXBUFNB /\ RxWaiting = Numbers(Unread, w)
      /\ arrived \in Nat /\ Unread \in Int
  BY RxWaitingNumbers
<1>2. (FullInv => /\ arrived - Unread \in 0 .. ETH_RXBUFNB
                  /\ RxWaiting = Numbers(Unread, arrived - Unread)
                  /\ arrived \in Nat /\ Unread \in Int)'
  BY RxWaitingNumbers, PTL
<1>3. /\ arrived' - Unread' \in 0 .. ETH_RXBUFNB
      /\ RxWaiting' = Numbers(Unread', arrived' - Unread')
  BY <1>2
<1>4. w \in Nat /\ ETH_RXBUFNB \in Nat BY <1>1, TransportConstants
<1>5. /\ Len(Numbers(Unread, w)) = w
      /\ Append(Numbers(Unread, w), Unread + (w + 1)) = Numbers(Unread, w + 1)
      /\ w > 0 => /\ Numbers(Unread, w) # <<>>
                  /\ Tail(Numbers(Unread, w)) = Numbers(Unread + 1, w - 1)
  <2> HIDE DEF w
  <2> QED BY <1>1, <1>4, NumbersStep
<1>6. CASE arrived' = arrived /\ Unread' = Unread BY <1>1, <1>3, <1>6
<1>7. CASE arrived' = arrived /\ Unread' = Unread + 1 /\ arrived - Unread > 0
  <2>1. arrived' - Unread' = w - 1 BY <1>1, <1>7
  <2>2. RxWaiting' = Numbers(Unread + 1, w - 1) BY <1>3, <1>7, <2>1
  <2>3. RxQueue!Take BY <1>1, <1>5, <1>7, <2>2 DEF RxQueue!Take
  <2> QED BY <2>3 DEF RxQueue!Next
<1>8. CASE arrived' = arrived + 1 /\ Unread' = Unread /\ arrived < MAX_FRAMES
  <2>1. arrived' - Unread' = w + 1 BY <1>1, <1>8
  <2>2. RxWaiting' = Numbers(Unread, w + 1) BY <1>3, <1>8, <2>1
  <2>3. Unread + (w + 1) = arrived + 1 BY <1>1
  <2>4. w < ETH_RXBUFNB BY <1>3, <1>4, <2>1
  <2>5. arrived + 1 \in 1 .. MAX_FRAMES BY <1>1, <1>8, TransportConstants
  <2>6. RxQueue!Put(arrived + 1)
    <3>1. RxWaiting' = Append(RxWaiting, arrived + 1) BY <1>1, <1>5, <2>2, <2>3
    <3>2. Len(RxWaiting) < ETH_RXBUFNB BY <1>1, <1>5, <2>4
    <3> QED BY <3>1, <3>2 DEF RxQueue!Put
  <2> QED BY <2>5, <2>6 DEF RxQueue!Next
<1> QED BY <1>6, <1>7, <1>8, UnreadStep

\* The receive ring implements the queue: for any size of the ring and every
\* interleaving of the DMA, the interrupt and the tasks, eth_recv() gives the
\* frames back in the order of arrival, and none is overwritten before.
THEOREM RxRingImplementsQueue == Spec => RxRingIsQueue
<1>1. FullInv /\ [Next]_vars => FullInv' BY FullNext
<1> QED BY <1>1, RxInit, RxStep, FullAlways, PTL DEF Spec, RxRingIsQueue, RxQueue!Spec
=============================================================================
