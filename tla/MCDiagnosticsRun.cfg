CONSTANTS
  MaxTargets = 2
  MaxHosts = 2
SPECIFICATION Spec
INVARIANTS
  TypeOK
  ReportsWithinPlan
  ActiveIsFirstOpen
  FactsSurvive
PROPERTIES
  CountNeverDecreases
CHECK_DEADLOCK FALSE
