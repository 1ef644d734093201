\* Three runs in a store of two: which run is evicted. The eviction order
\* does not depend on the progress counts, hence Total = 0.
CONSTANTS
  Run = {r1, r2, r3}
  Page = {p1}
  MaxEntries = 2
  Total = 0
  NoRun = NoRun
SPECIFICATION Spec
SYMMETRY Symmetry
INVARIANTS
  StoreBounded
  EvictedOnlyWhenIdle
