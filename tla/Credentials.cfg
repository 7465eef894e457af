SPECIFICATION FairSpec
CONSTANTS
  Null = Null
  e1 = e1
  e2 = e2
  ann = ann
  signup = signup
  rival = rival
  login = login
  key = key
  use = use
  reuse = reuse
  revoke = revoke
  stranger = stranger
  Requests = {ann, signup, rival, login, key, use, reuse, revoke, stranger}
  Op <- MCOp
  EmailOf <- MCEmailOf
  KeyOf <- MCKeyOf
  After <- MCAfter
  Emails = {e1, e2}
  Existing = {ann}
  MaxAborts = 1
  MaxOperatorSteps = 1
CHECK_DEADLOCK FALSE
INVARIANTS
  TypeOK
  OneAccountPerEmail
PROPERTIES
  UnknownOnlyBeforeCommit
  BarredKeysAdmitNoNewUse
  NothingReactivated
  EveryRequestEnds
