\* A bus-off and an error-passive interrupt read together.
CONSTANTS
  MaxMsgs = 1
  MaxBusOffs = 1
  MaxErrors = 1
  ErrorKinds = {"EPI"}
  RxBurst = 1
  SJA1000_MAX_IRQ = 6
  restart_ms = 50
  DelayOutlastsIrq = TRUE
  AllocMayFail = FALSE
  OptR = {0}
SPECIFICATION FairSpec
PROPERTY BusOffRecovered
CHECK_DEADLOCK FALSE
