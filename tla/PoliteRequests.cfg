SPECIFICATION FairSpec
CONSTANTS
  site = site
  p = p
  q = q
  r = r
  Tasks = {p, q}
  Hosts = {site}
  HostOf <- OneHost
  Forbidden = {q}
  SiteDelay <- SlowSite
  RespectRobots = TRUE
  MinInterval = 2
  RetryAttempts = 2
  BackoffBase = 1
  BackoffFactor = 2
  MaxRetryDelay = 3
  Advices <- Headers
  Uptime = 1
  Horizon = 3
INVARIANTS ForbiddenOnlyUnread
PROPERTIES AdmissionsSpaced CrawlDelayKept RetryAfterHonoured RequestsEnd
