SPECIFICATION FairSpec
CONSTANTS
  WorkerTasks = 2
  MaxItems = 6
  MaxOutcomes = 1
  SignalItems = {2}
  FaultyItems = {}
  FaultyDiscovery = FALSE
INVARIANTS PermitsConserved Backpressure
PROPERTIES QuietAfterShutdown StreamEnds
