\* A queue whose ring is wrapped twice: netif_tx blocks in dequeue and stops the queue,
\* as at a tx_queue; a poller removes messages under it and messages expire, as at an
\* rx_queue.
CONSTANTS
  Size = 4
  MaxStored = 9
  Producers = {p1, p2}
  Pollers = {q1}
  ReaderOp = "dequeue"
  LatencyLimit = TRUE
  MayDestroy = TRUE
SPECIFICATION FairSpec
INVARIANTS HoldsNewest NoLostWakeup OwnerWaitsForReader
PROPERTIES ImplementsLossyFifo DestroyTerminates ReaderServed
CHECK_DEADLOCK FALSE
