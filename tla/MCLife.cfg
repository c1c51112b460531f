CONSTANTS
  Clients = {c1}
  MaxSigints = 2
SPECIFICATION Spec
INVARIANTS BroadcastLive SessionLiveUnderMutex FreedOnlyInFlight
PROPERTIES SigintExits ClientsAnswered
CHECK_DEADLOCK FALSE
