SPECIFICATION FairSpec
CONSTANTS
  Size = 4
  Limits = {0, 1, 2}
  Firsts = {1, 2}
  ChunkSize = 3
  Advertised = 2
  Attempts = 2
  SameCut = TRUE
INVARIANTS Once Whole NamedRight
PROPERTIES Ends
CHECK_DEADLOCK FALSE
