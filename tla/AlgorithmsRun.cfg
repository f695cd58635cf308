SPECIFICATION AlgorithmsSpec
CONSTANTS
  Literals <- MCLiterals
  Iris <- MCIris
  Chains <- MCChains
  DoiSets <- MCDoiSets
  Names = {"n1", "n2"}
  Orcids = {"o1", "o2"}
  Organisations = {"org"}
  MaxListed = 3
  Keys <- MCKeys
  Units <- MCUnits
  CatalogIds <- MCCatalogIds
  Addresses <- MCAddresses
  Titles <- MCTitles
  Sanitise <- MCSanitise
  Slug <- MCSlug
  Landing <- MCLanding
  LastSegment <- MCLastSegment
  Datasets <- MCDatasets
  MaxReadings = 3
  MaxEntries = 2
  Values = {"a", "b"}
  MaxComments = 3
  Bases = {2, 3}
  MaxKeys = 5
  Interval = 1
  MaxAge = 10
  MaxDelay = 2
  MaxMisses = 2
INVARIANTS OrderFree ContactsSound IdsSound TablesSound CommentsKept AcceptedBuilds HealthyUnlessBlocked
CHECK_DEADLOCK FALSE
