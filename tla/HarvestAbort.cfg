SPECIFICATION Spec
CONSTANTS
  Repos = {r1, r2}
  Known = {r1}
  Pipelined = {r1}
  MaxOutcomes = 2
  MaxConcurrency = 2
  MayInterrupt = FALSE
INVARIANTS AbortCounted
