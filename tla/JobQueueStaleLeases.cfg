SPECIFICATION Spec
CONSTANTS
  Null = Null
  t1 = t1
  t2 = t2
  w1 = w1
  w2 = w2
  w3 = w3
  Jobs = {1}
  Tenants = {t1}
  Workers = {w1, w2, w3}
  WorkerIds = {"worker"}
  TenantOf <- OneTenantOf
  Priority <- EqualPriority
  JobType <- CustomJobs
  PayloadComplete <- AllComplete
  MaxRunningJobs <- LimitOne
  WorkerId <- SharedWorkerId
  MaxAttempts = 3
  LeaseSeconds = 1
  CandidateLimit = 1
  ReaperBatch = 2
  BaseBackoff = 1
  MaxBackoff = 2
  Jitter = 0
  MaxInterruptions = 2
SYMMETRY WorkerSymmetry
INVARIANTS
  AttemptsBudget
  OneLeaseHolder
  HistoryExplainsJob
PROPERTIES
  AttemptEndedByOwnerOrTimeout
