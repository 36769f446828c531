----------------------------- MODULE EthQueues ------------------------------
(***************************************************************************)
(* Both descriptor rings of EthTransport implement FrameQueue.  The queue  *)
(* is read off the ring as its reader finds it, from the OWN bits and the  *)
(* buffers alone: the DMA is the reader of the transmit ring, eth_rx_task  *)
(* that of the receive ring.                                               *)
(***************************************************************************)
EXTENDS EthTransport

\* How many descriptors of D follow one another in a ring of n from first on.
Run(n, first, D) ==
    CHOOSE k \in 0 .. n :
        /\ \A j \in 0 .. k - 1 : (first + j) % n \in D
        /\ k < n => (first + k) % n \notin D

\* The frames the DMA finds in the transmit ring.
TxWaiting ==
    [k \in 1 .. Run(ETH_TXBUFNB, tx_dma, {d \in TxRing : tx_own[d]}) |->
        tx_buf[(tx_dma + (k - 1)) % ETH_TXBUFNB]]

\* The frames of the receive ring that eth_recv() has not given back: the one
\* it reads, if any, and those it still has to look at.
RxFirst == IF SegCount > 0 THEN FSRxDesc ELSE RxDesc
RxWaiting ==
    [k \in 1 .. Run(ETH_RXBUFNB, RxFirst, {d \in RxRing : ~rx_own[d]}) |->
        rx_buf[(RxFirst + (k - 1)) % ETH_RXBUFNB]]

TxQueue == INSTANCE FrameQueue
           WITH Frames <- Senders, Capacity <- ETH_TXBUFNB, queue <- TxWaiting
RxQueue == INSTANCE FrameQueue
           WITH Frames <- 1 .. MAX_FRAMES, Capacity <- ETH_RXBUFNB, queue <- RxWaiting

\* Two tasks building frames, the DMA emptying the ring and everything that
\* preempts them make up a queue: no step of eth_send() alters, repeats or
\* overtakes a frame the DMA has not sent.
TxRingIsQueue == TxQueue!Spec

\* The DMA, the interrupt and eth_recv() make up a queue: no frame is
\* overwritten before rx_descriptors_release() gave its descriptor back, and
\* none is given back unread or twice.
RxRingIsQueue == RxQueue!Spec
=============================================================================
