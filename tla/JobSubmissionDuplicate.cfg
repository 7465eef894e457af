SPECIFICATION Spec
CONSTANTS
  Null = Null
  RateLimited = RateLimited
  r1 = r1
  r2 = r2
  r3 = r3
  r4 = r4
  t1 = t1
  t2 = t2
  k1 = k1
  k2 = k2
  a1 = a1
  Requests = {r1, r2, r3}
  Tenants = {t1, t2}
  TenantOf <- MCTenantOf
  Keys = {k1, k2}
  KeyOf <- MCKeyOf
  ApiKeys = {a1}
  ApiKeyOf <- MCApiKeyOf
  SubmitRateLimit <- LimitOne
  MaxMinute = 2
  MaxAborts = 0
CHECK_DEADLOCK FALSE
PROPERTIES
  DuplicateGetsTheJob
