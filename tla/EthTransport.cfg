SPECIFICATION FairSpec
CONSTANTS
    ETH_RXBUFNB = 3
    ETH_TXBUFNB = 2
    MAX_FRAMES = 5
INVARIANTS TypeOK NeverBusy ReadsInOrder ReceiverAlive WireKeepsOrder
PROPERTIES TxRingIsQueue RxRingIsQueue ReadUnlessMerged MutexComesBack
