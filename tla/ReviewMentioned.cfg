SPECIFICATION ReviewSpec
CONSTANTS
  Threads = {t1}
  ReviewWindow = 2
  CommentWindow = 2
  Naming = TRUE
  MaxReviews = 2
  MaxUpsets = 1
  MaxClock = 1
INVARIANT OpenUntilNamed
CHECK_DEADLOCK FALSE
