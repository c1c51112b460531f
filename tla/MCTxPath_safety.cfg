\* What the threads never do, whatever errors and restarts happen.
CONSTANTS
  MaxMsgs = 3
  MaxBusOffs = 2
  MaxErrors = 2
  ErrorKinds = {"EI", "EPI", "BEI"}
  RxBurst = 1
  SJA1000_MAX_IRQ = 6
  restart_ms = 50
  DelayOutlastsIrq = TRUE
  AllocMayFail = TRUE
  OptR = {0, 128}
SPECIFICATION Spec
INVARIANTS BufferIsFree EchoIsTheFrameSent SkbsAccounted RestartsOnlyBusOff
CHECK_DEADLOCK FALSE
