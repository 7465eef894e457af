SPECIFICATION Spec
CONSTANTS
  Null = Null
  t1 = t1
  t2 = t2
  w1 = w1
  w2 = w2
  w3 = w3
  Jobs = {1, 2, 3}
  Tenants = {t1, t2}
  Workers = {w1, w2}
  WorkerIds = {"worker"}
  TenantOf <- TwoTenantOf
  Priority <- FallingPriority
  JobType <- DefaultJobs
  PayloadComplete <- AllComplete
  MaxRunningJobs <- LimitOne
  WorkerId <- SharedWorkerId
  MaxAttempts = 2
  LeaseSeconds = 1
  CandidateLimit = 2
  ReaperBatch = 2
  BaseBackoff = 1
  MaxBackoff = 1
  Jitter = 0
  MaxInterruptions = 0
SYMMETRY WorkerSymmetry
INVARIANTS
  QuotaExact
PROPERTIES
  ImplementsLifecycle
