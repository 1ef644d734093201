\* One tab, no downloads: navigation, closing, killing.
CONSTANTS
  Page = {p1}
  Interval = 4
  IdleTimeout = 7
  CloseGrace = 3
  StartupTimeout = 5
  MaxDelay = 1
  MaxLoad = 1
  Downloads = FALSE
  Restores = FALSE
  Ordered = TRUE
  MaxMail = 4
  Never = Never
SPECIFICATION FairSpec
PROPERTIES
  StopsAfterLastPage
  StopsWhenAbandoned
CHECK_DEADLOCK FALSE
