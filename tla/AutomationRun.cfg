SPECIFICATION AutomationSpec
CONSTANTS
  Threads = {t1}
  ReviewWindow = 2
  CommentWindow = 2
  Naming = TRUE
  MaxReviews = 3
  MaxUpsets = 1
  MaxClock = 1
  Runners = {r1, r2}
  Ids = {"i1", "i2"}
  MaxCalls = 1
  MaxEdits = 1
INVARIANTS NoneLost ReusedByReRuns
PROPERTIES AllTriaged Followed
CHECK_DEADLOCK FALSE
