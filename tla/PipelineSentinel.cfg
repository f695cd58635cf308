SPECIFICATION Spec
CONSTANTS
  WorkerTasks = 2
  MaxItems = 4
  MaxOutcomes = 2
  SignalItems = {}
  FaultyItems = {1}
  FaultyDiscovery = FALSE
INVARIANT NoBlockedSentinel
CHECK_DEADLOCK FALSE
