\* A short restart delay expires while the handler of the bus-off still runs.
CONSTANTS
  MaxMsgs = 2
  MaxBusOffs = 1
  MaxErrors = 1
  ErrorKinds = {"EI"}
  RxBurst = 1
  SJA1000_MAX_IRQ = 6
  restart_ms = 1
  DelayOutlastsIrq = FALSE
  AllocMayFail = FALSE
  OptR = {0}
SPECIFICATION Spec
INVARIANT RestartsOnlyBusOff
CHECK_DEADLOCK FALSE
