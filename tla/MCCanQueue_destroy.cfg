\* destroy_queue against threads that have passed the session_up test.
CONSTANTS
  Size = 3
  MaxStored = 3
  Producers = {p1}
  Pollers = {}
  ReaderOp = "dequeue_peek"
  LatencyLimit = FALSE
  MayDestroy = TRUE
SPECIFICATION Spec
INVARIANT NoUseAfterDestroy
CHECK_DEADLOCK FALSE
