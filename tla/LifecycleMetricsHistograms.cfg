SPECIFICATION Spec
CONSTANTS
  Jobs = {j1}
  MaxAttempts = 2
  Scrapes = {s1, s2}
  MaxRollbacks = 0
  MaxRestarts = 0
SYMMETRY MetricsSymmetry
CHECK_DEADLOCK FALSE
PROPERTIES
  ClaimsAreTimed
