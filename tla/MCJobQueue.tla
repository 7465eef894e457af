----------------------------- MODULE MCJobQueue -----------------------------
(* Values of JobQueue's constants for TLC.  Jobs are numbers.                *)
EXTENDS JobQueue, TLC

CONSTANTS t1, t2, w1, w2, w3

\* All jobs of one tenant, or job 3 of a second.
OneTenantOf == [j \in Jobs |-> t1]
TwoTenantOf == [j \in Jobs |-> IF j = 3 THEN t2 ELSE t1]
EqualPriority == [j \in Jobs |-> 0]
FallingPriority == [j \in Jobs |-> 0 - j]

CustomJobs == [j \in Jobs |-> "custom"]
DefaultJobs == [j \in Jobs |-> IF j = 1 THEN "fail_once" ELSE "noop"]
AllComplete == [j \in Jobs |-> TRUE]

LimitOne == [t \in Tenants |-> 1]

OneCustomJob == [j \in Jobs |-> IF j = 1 THEN "custom" ELSE "fail_once"]

SharedWorkerId == [w \in Workers |-> "worker"]

\* Worker processes are interchangeable: every constant treats them alike.
WorkerSymmetry == Permutations(Workers)
=============================================================================
