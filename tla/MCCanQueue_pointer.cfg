\* The message behind the pointer that dequeue returned to netif_tx.
CONSTANTS
  Size = 3
  MaxStored = 6
  Producers = {p1}
  Pollers = {}
  ReaderOp = "dequeue"
  LatencyLimit = FALSE
  MayDestroy = FALSE
SPECIFICATION Spec
INVARIANT PointerStable
CHECK_DEADLOCK FALSE
