---------------------------- MODULE JobLifecycle ----------------------------
(***************************************************************************)
(* What the queue promises to somebody who sees only a job's status and    *)
(* attempts (GET /jobs, the dashboard): no workers, leases or clocks.  A   *)
(* job is attempted at most MaxAttempts times, a tenant never has more     *)
(* than MaxRunningJobs running, a pending job has an attempt left, and     *)
(* nothing happens to a job that succeeded or was dead-lettered.           *)
(***************************************************************************)
EXTENDS Integers, FiniteSets

CONSTANTS Jobs, Tenants, TenantOf, MaxRunningJobs, MaxAttempts

VARIABLES status, attempts

lifecycle == <<status, attempts>>

RunningOf(t) == {j \in Jobs : status[j] = "RUNNING" /\ TenantOf[j] = t}

Init ==
  /\ status = [j \in Jobs |-> "ABSENT"]
  /\ attempts = [j \in Jobs |-> 0]

Submit(j) ==
  /\ status[j] = "ABSENT"
  /\ status' = [status EXCEPT ![j] = "PENDING"]
  /\ UNCHANGED attempts

Start(j) ==
  /\ status[j] = "PENDING"
  /\ attempts[j] < MaxAttempts
  /\ Cardinality(RunningOf(TenantOf[j])) < MaxRunningJobs[TenantOf[j]]
  /\ status' = [status EXCEPT ![j] = "RUNNING"]
  /\ attempts' = [attempts EXCEPT ![j] = @ + 1]

\* Where the attempt of a running job may lead.
Outcome(j) ==
  {"SUCCEEDED", "DEAD_LETTERED"} \cup (IF attempts[j] < MaxAttempts THEN {"PENDING"} ELSE {})

\* The attempts of some running jobs end together: an acknowledgement ends one, a
\* batch of the reaper several.
End(S) ==
  /\ S # {}
  /\ \A j \in S : status[j] = "RUNNING" /\ status'[j] \in Outcome(j)
  /\ status' = [j \in Jobs |-> IF j \in S THEN status'[j] ELSE status[j]]
  /\ UNCHANGED attempts

Next ==
  \/ \E j \in Jobs : Submit(j) \/ Start(j)
  \/ \E S \in SUBSET Jobs : End(S)

Spec == Init /\ [][Next]_lifecycle
=============================================================================
