SPECIFICATION FairSpec
CONSTANTS
  Repos = {r1, r2}
  Known = {r1}
  Pipelined = {r1}
  MaxOutcomes = 3
  MaxConcurrency = 2
  MayInterrupt = TRUE
INVARIANTS OneEntryEach NeverSilent Accounted CompletedMeansWhole
PROPERTIES FrozenAfterClose RunExits
