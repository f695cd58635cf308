SPECIFICATION FairSpec
CONSTANTS
  a = a
  b = b
  c = c
  d = d
  p = p
  q = q
  NoUrl = payload
  Urls = {a, b, c, d}
  Refs <- MixedRefs
  Nulls = {d}
  Callers = {p, q}
  Payload <- MixedPayload
  Allowed = {a, b, c, d}
  MaxEntries = 2
  Ttl = 1
  MaxTime = 2
  MaxFetches = 4
INVARIANTS FetchBudget JoinableUnlessDropped DoneMeansComplete
PROPERTIES ParsesEnd
CHECK_DEADLOCK FALSE
