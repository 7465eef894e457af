SPECIFICATION Spec
CONSTANTS
  Jobs = {j1}
  MaxAttempts = 2
  Scrapes = {s1, s2}
  MaxRollbacks = 1
  MaxRestarts = 1
SYMMETRY MetricsSymmetry
CHECK_DEADLOCK FALSE
INVARIANTS
  TypeOK
  NothingCountedTwice
PROPERTIES
  ScrapeMissesNothing
  CountersOnlyRise
  LoneScrapeIsFresh
