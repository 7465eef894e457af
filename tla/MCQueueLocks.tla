---------------------------- MODULE MCQueueLocks ----------------------------
(* Values of QueueLocks' constants for TLC.                                  *)
EXTENDS QueueLocks

CONSTANTS t1, t2

\* A reaper's batch 1, 4 and a claim's batch 2, 3 lock the tenants in opposite orders,
\* if the claim of 4 fills t1 first.
MCTenantOf == [j \in Jobs |-> IF j \in {2, 4} THEN t1 ELSE t2]
MCLimit == [t \in Tenants |-> IF t = t1 THEN 1 ELSE 2]

\* One job has another attempt left, the other jobs are in their last one.
MCTried == [j \in Jobs |-> IF j = 4 THEN 0 ELSE MaxAttempts - 1]
=============================================================================
