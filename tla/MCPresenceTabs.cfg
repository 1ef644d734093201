\* Two tabs, downloads, pages from the back-forward cache, requests out of order.
CONSTANTS
  Page = {p1, p2}
  Interval = 4
  IdleTimeout = 7
  CloseGrace = 3
  StartupTimeout = 5
  MaxDelay = 1
  MaxLoad = 1
  Downloads = TRUE
  Restores = TRUE
  Ordered = FALSE
  MaxMail = 3
  Never = Never
SPECIFICATION Spec
SYMMETRY Symmetry
INVARIANTS
  ClosingIsLatest
PROPERTIES
  IdleStopIsSound
CHECK_DEADLOCK FALSE
