SPECIFICATION FairSpec
CONSTANTS
  WorkerTasks = 2
  MaxItems = 3
  MaxOutcomes = 2
  SignalItems = {2}
  FaultyItems = {1, 3}
  FaultyDiscovery = TRUE
INVARIANTS CompleteMeansDelivered
PROPERTIES StreamSpec
CHECK_DEADLOCK FALSE
