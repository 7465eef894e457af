-------------------------- MODULE SubmissionLedger --------------------------
(***************************************************************************)
(* What POST /jobs promises about the jobs it accepts, with no requests,   *)
(* transactions or locks: one job for each tenant and idempotency key, at  *)
(* most SubmitRateLimit of a tenant's jobs counted in one minute, and no   *)
(* job counted in a minute that is already over for the tenant.            *)
(***************************************************************************)
EXTENDS Integers, FiniteSets

CONSTANTS Requests, TenantOf, KeyOf, SubmitRateLimit

VARIABLE accepted  \* the minute each submission was counted in, 0 if not accepted

Init == accepted = [r \in Requests |-> 0]

CountedIn(t, m) == {q \in Requests : TenantOf[q] = t /\ accepted[q] = m}

Accept(r, m) ==
  /\ accepted[r] = 0
  /\ m > 0
  /\ \A q \in Requests : TenantOf[q] = TenantOf[r] /\ accepted[q] > 0 =>
       KeyOf[q] # KeyOf[r] /\ accepted[q] <= m
  /\ Cardinality(CountedIn(TenantOf[r], m)) < SubmitRateLimit[TenantOf[r]]
  /\ accepted' = [accepted EXCEPT ![r] = m]

Next == \E r \in Requests : Accept(r, accepted'[r])

Spec == Init /\ [][Next]_accepted
=============================================================================
