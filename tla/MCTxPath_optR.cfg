\* Option -R 128: an error restarts a device that is transmitting.
CONSTANTS
  MaxMsgs = 3
  MaxBusOffs = 0
  MaxErrors = 2
  ErrorKinds = {"BEI", "EPI"}
  RxBurst = 1
  SJA1000_MAX_IRQ = 6
  restart_ms = 50
  DelayOutlastsIrq = TRUE
  AllocMayFail = FALSE
  OptR = {128}
SPECIFICATION Spec
INVARIANT EchoNeverOccupied
CHECK_DEADLOCK FALSE
