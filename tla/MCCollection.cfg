SPECIFICATION Spec
CONSTANTS
  TargetLists <- Targets
  HostLists <- Names
  PathsOf <- Paths
  Containers = {1, 2}
  ContainerOf <- Layout
  Totals = {0, 400, 1000}
  Frees = {0, 16, 21, 30, 41}
  MaxActivity = 1
INVARIANTS
  TypeOK
  
  FailedMeansNothingWorked
  EveryCheckIsShown
  NextLabelIsTheNextCheck
  EveryPressureIsReported
  OneIncidentWhenQuiet
  LessFreeIsNotBetter
