SPECIFICATION SourcesSpec
CONSTANTS
  u1 = u1
  u2 = u2
  u3 = u3
  NoUrl = NoUrl
  Ids = {1, 2, 3}
  Urls <- MCUrls
  EntryUrl = u1
  PageSize = 2
  Limits = {1, 2}
  Listings <- MCListings
  Sites <- MCSites
  MaxOffset = 6
  MaxChanges = 2
  Batches <- MCBatches
  Interval = 2
  MaxArcs = 2
INVARIANTS WholeListing BatchAnswered
PROPERTIES SourceEnds StreamSpec
CHECK_DEADLOCK FALSE
