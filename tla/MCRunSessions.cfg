CONSTANTS
  Run = {r1, r2}
  Page = {p1}
  MaxEntries = 1
  Total = 2
  NoRun = NoRun
SPECIFICATION FairSpec
INVARIANTS
  TypeOK
  SettledHasArtifacts
  NoRedirectLoop
  DownloadNeverConflicts
PROPERTIES
  ShownNeverDecreases
  EveryRunSettles
  WatchersLeave
  RefinesLifecycle
