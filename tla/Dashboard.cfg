SPECIFICATION FairSpec
CONSTANTS
  Null = Null
  t1 = t1
  t2 = t2
  k1 = k1
  k2 = k2
  Tenants = {t1, t2}
  EventIds = {1, 2}
  Sockets = {1,2,3}
  Lookback = 1
  BatchSize = 1
  MaxNow = 1
  Tokens = {k1, k2}
  TokenTenant <- MCTokenTenant
  MaxSteps = 3
CHECK_DEADLOCK FALSE
INVARIANTS
  TypeOK
  OnlyOvertakenEventsMissed
  QuietListIsFresh
  ShownStateIsTrue
  SentOnceInOrder
PROPERTIES
  
  NewEventsAreShown
