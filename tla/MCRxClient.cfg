\* The rx_queue of a client: rx_loop blocks in dequeue_peek while handlers take messages
\* without blocking; the ring overflows, the file may be closed at any time.
CONSTANTS
  Size = 3
  MaxStored = 4
  Producers = {p1}
  Pollers = {"handler"}
  ReaderOp = "dequeue_peek"
  LatencyLimit = TRUE
  MayDestroy = TRUE
  Clients = {c1, c2}
  MsgLen <- MCMsgLen
  ReadSizes = {2, 3}
  READ_SIZE = 2
  MaxRequests = 2
  MayInterrupt = TRUE
  MayShutdown = TRUE
SPECIFICATION MCSpec
INVARIANTS BlockedIsListed NoneHangsAfterClose ReadsInOrder
PROPERTIES BlockedServed CloseTerminates
CHECK_DEADLOCK FALSE
