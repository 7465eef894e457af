SPECIFICATION FairSpec
CONSTANTS
  Null = Null
  t1 = t1
  t2 = t2
  Jobs = {1, 2, 3, 4}
  Tenants = {t1, t2}
  TenantOf <- MCTenantOf
  MaxRunningJobs <- MCLimit
  MaxAttempts = 2
  Workers = {w1, w2}
  Reapers = {r1, r2}
  CandidateLimit = 2
  ReaperBatch = 2
  Tried <- MCTried
  Orphans = {1}
CHECK_DEADLOCK FALSE
INVARIANTS
  TypeOK
  QuotaExact
  DeadlocksAcrossTenants
PROPERTIES
  CommitsFollowLifecycle
  ExpiredLeasesRecovered
