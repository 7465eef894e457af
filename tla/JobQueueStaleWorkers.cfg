SPECIFICATION Spec
CONSTANTS
  Null = Null
  t1 = t1
  t2 = t2
  w1 = w1
  w2 = w2
  w3 = w3
  Jobs = {1, 2}
  Tenants = {t1}
  Workers = {w1, w2}
  WorkerIds = {"worker"}
  TenantOf <- OneTenantOf
  Priority <- EqualPriority
  JobType <- CustomJobs
  PayloadComplete <- AllComplete
  MaxRunningJobs <- LimitOne
  WorkerId <- SharedWorkerId
  MaxAttempts = 2
  LeaseSeconds = 1
  CandidateLimit = 2
  ReaperBatch = 2
  BaseBackoff = 1
  MaxBackoff = 1
  Jitter = 0
  MaxInterruptions = 1
INVARIANTS
  HandlersWithinQuota
