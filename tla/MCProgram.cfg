CONSTANTS
  Cards <- MCCards
  Chips <- MCChips
  Scenarios <- MCScenarios
  MaxVcan = 16
  Clocks <- MCClocks
  Rates <- MCRates
  Timings <- MCTimings
  Bars <- MCBars
  MaxBars = 3
  PciDevices <- MCPciDevices
  MaxDevices = 3
  MaxRequests = 4
  MAX_ATTACH = 4
  MAX_HANDLERS = 4
  Ids <- MCIds
  Data <- MCData
  Writes <- MCWrites
  TxCapacity = 4
  LenWrap = 32
  Stamps = {0, 1, 15, 16, 17, 32}
  Wrap = 16
  ErrorEvents <- MCErrorEvents
  RestartDelays = {0, 50}
  ErrorLimits = {0, 90, 100, 200, 256}
  MaxInterrupts = 3
  FreeSkbs = 3
  MaxBlocks = 4
  Threads = {t1, t2, t3}
  Loops = {l1, l2, l3, l4}
  Delays = {50, 999, 1000, 2000}
SPECIFICATION MCSpec
INVARIANTS MissingChipsSurvived FailedCallSurvived HandledAlive Released CalcSound RequestedTiming RestartConfigured OwnDriverSelected WindowsDisjoint AccessRouted InterruptRearmed IrqRouted FrameRoundTrip  PoolSound TimerSound ErrorStateFollows
CHECK_DEADLOCK FALSE
