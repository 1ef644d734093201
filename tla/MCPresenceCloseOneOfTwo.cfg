\* Two tabs, no downloads: one of them is closed.
CONSTANTS
  Page = {p1, p2}
  Interval = 4
  IdleTimeout = 7
  CloseGrace = 3
  StartupTimeout = 5
  MaxDelay = 1
  MaxLoad = 1
  Downloads = FALSE
  Restores = FALSE
  Ordered = TRUE
  MaxMail = 4
  Never = Never
SPECIFICATION FairSpec
PROPERTIES
  StopsAfterLastPage
CHECK_DEADLOCK FALSE
