SPECIFICATION FairSpec
CONSTANTS
  Threads = {t1, t2}
  RX_RING_DEPTH = 3
  TX_RING_DEPTH = 2
  MaxMessages = 3
  MaxFaults = 1
INVARIANTS
  TxExactlyOnce
  NoSleeperForgotten
  ReadBufferIsKept
  MessagesInOrder
  SlotsAreNotLost
PROPERTIES
  EveryWriteIsSent
