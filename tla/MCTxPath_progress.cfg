\* Neither bus-offs nor the restarts of option -R stop the queue for ever.
CONSTANTS
  MaxMsgs = 3
  MaxBusOffs = 2
  MaxErrors = 1
  ErrorKinds = {"EI", "BEI"}
  RxBurst = 1
  SJA1000_MAX_IRQ = 6
  restart_ms = 50
  DelayOutlastsIrq = TRUE
  AllocMayFail = FALSE
  OptR = {0, 90}
SPECIFICATION FairSpec
PROPERTIES TxProgress QueueDrained BusOffRecovered
CHECK_DEADLOCK FALSE
