----------------------------- MODULE QueueLocks -----------------------------
(***************************************************************************)
(* The row locks of the queue's transactions: claims, acknowledgements and *)
(* the batches of one or several lease reapers.                            *)
(*                                                                         *)
(* JobQueue takes each of these transactions as one step.  Here a step is  *)
(* one statement that locks a row of jobs or of tenant_runtime_quotas, or  *)
(* the commit.  A locked row makes an UPDATE or a FOR UPDATE wait, and     *)
(* SKIP LOCKED pass over it.  Two kinds of transactions wait for a quota   *)
(* row while they hold another: a reaper's batch, in the order in which    *)
(* its leases expired, and a claim that waited for a reservation, found    *)
(* the tenant full and goes on to its next candidate.  Such transactions   *)
(* can wait for each other; PostgreSQL then aborts one of them, and the    *)
(* exception ends that process.                                            *)
(***************************************************************************)
EXTENDS Integers, FiniteSets

CONSTANTS
  Jobs,           \* numbers, in the order of created_at
  Tenants, TenantOf,
  MaxRunningJobs, \* tenants.max_running_jobs
  MaxAttempts,    \* jobs.max_attempts
  Workers, Reapers,
  CandidateLimit, \* settings.worker_batch_size
  ReaperBatch,    \* settings.lease_reaper_batch_size
  Tried,          \* attempts of each job that were over at the start
  Orphans,        \* jobs that workers claimed in this order, and died
  Null

Transactions == Workers \cup Reapers

ASSUME QueueLocksAssumption ==
  /\ Jobs \subseteq Nat /\ IsFiniteSet(Jobs)
  /\ TenantOf \in [Jobs -> Tenants]
  /\ MaxRunningJobs \in [Tenants -> Nat]
  /\ MaxAttempts \in Nat \ {0}
  /\ CandidateLimit \in Nat \ {0} /\ ReaperBatch \in Nat \ {0}
  /\ Workers \cap Reapers = {} /\ Null \notin Transactions
  /\ Tried \in [Jobs -> 0..(MaxAttempts - 1)] /\ Orphans \subseteq Jobs
  /\ \A t \in Tenants :
       Cardinality({j \in Orphans : TenantOf[j] = t}) <= MaxRunningJobs[t]

VARIABLES
  jobs,         \* committed status and attempts; an attempt has one lease
  lease_order,  \* pairs of running jobs: the first one's lease ends before the other's
  expired,      \* the running jobs whose leases are over
  running_jobs, \* committed tenant_runtime_quotas.running_jobs
  tx            \* the transaction, and the claimed job, of each process

vars == <<jobs, lease_order, expired, running_jobs, tx>>

Row == [status : {"PENDING", "RUNNING", "SUCCEEDED", "DEAD_LETTERED"},
        attempts : 0..MaxAttempts]

Running == {j \in Jobs : jobs[j].status = "RUNNING"}
RunningOf(t) == {j \in Running : TenantOf[j] = t}

\* rows and quotas: the locks it holds; todo: the jobs it has still to go through;
\* attempt and live: of the lease that an acknowledgement is about.
Steps == {"idle", "claiming", "waiting", "reserved", "executing", "acking", "owning",
          "released", "recovering", "down"}
Transaction == [step : Steps, rows : SUBSET Jobs, quotas : SUBSET Tenants,
                todo : SUBSET Jobs, attempt : 0..MaxAttempts, live : BOOLEAN]
Idle == [step |-> "idle", rows |-> {}, quotas |-> {}, todo |-> {},
         attempt |-> 0, live |-> FALSE]
Down == [Idle EXCEPT !.step = "down"]

ByAge == {p \in Jobs \X Jobs : p[1] < p[2]}

Init ==
  /\ jobs = [j \in Jobs |->
               IF j \in Orphans THEN [status |-> "RUNNING", attempts |-> Tried[j] + 1]
               ELSE [status |-> "PENDING", attempts |-> Tried[j]]]
  /\ lease_order = ByAge \cap (Orphans \X Orphans)
  /\ expired = {}
  /\ running_jobs = [t \in Tenants |-> Cardinality({j \in Orphans : TenantOf[j] = t})]
  /\ tx = [x \in Transactions |-> Idle]

Become(x, state) == tx' = [tx EXCEPT ![x] = state]
Waits == UNCHANGED <<jobs, lease_order, expired, running_jobs>>

RowHolders(j, x) == {y \in Transactions \ {x} : j \in tx[y].rows}
QuotaHolders(j, x) == {y \in Transactions \ {x} : TenantOf[j] \in tx[y].quotas}
RowFree(j, x) == RowHolders(j, x) = {}
QuotaFree(j, x) == QuotaHolders(j, x) = {}

\* ORDER BY ... LIMIT n
Batch(S, n, order) == {j \in S : Cardinality({k \in S : <<k, j>> \in order}) < n}

First(S, order) == {j \in S : {j} \X (S \ {j}) \subseteq order}

\* The job that a process deals with: reapers follow the leases, the others the age.
Current(x) == First(tx[x].todo, IF x \in Reapers THEN lease_order ELSE ByAge)

\* The attempts of the jobs in S end with this status, their leases and their slots.
End(S, status) ==
  /\ jobs' = [j \in Jobs |-> IF j \in S THEN [jobs[j] EXCEPT !.status = status[j]]
                             ELSE jobs[j]]
  /\ lease_order' = lease_order \ ((S \X Jobs) \cup (Jobs \X S))
  /\ expired' = expired \ S
  /\ running_jobs' = [t \in Tenants |->
       LET released == Cardinality({j \in S : TenantOf[j] = t})
       IN  IF running_jobs[t] > released THEN running_jobs[t] - released ELSE 0]

-----------------------------------------------------------------------------
(* claim_pending_job                                                        *)

HasRoom(t) == running_jobs[t] < MaxRunningJobs[t]

Claimable(w) ==
  {j \in Jobs : jobs[j].status = "PENDING" /\ HasRoom(TenantOf[j]) /\ RowFree(j, w)}

SelectCandidates(w) ==
  /\ tx[w].step = "idle"
  /\ Claimable(w) # {}
  /\ LET B == Batch(Claimable(w), CandidateLimit, ByAge)
     IN  Become(w, [Idle EXCEPT !.step = "claiming", !.todo = B, !.rows = B])
  /\ Waits

\* reserve_runtime_slot updated no row: the claim goes on with the other candidates and
\* the quota rows it holds, or ends.
NextCandidate(w, j, quotas) ==
  Become(w, IF tx[w].todo = {j} THEN Idle
            ELSE [tx[w] EXCEPT !.step = "claiming", !.todo = @ \ {j}, !.quotas = quotas])

Reserved(w, j) ==
  Become(w, [tx[w] EXCEPT !.step = "reserved", !.todo = {j},
                          !.quotas = @ \cup {TenantOf[j]}])

\* The UPDATE of reserve_runtime_slot passes over a row that is full, and waits for one
\* that has room and is locked.
ReserveSlot(w) ==
  /\ tx[w].step = "claiming"
  /\ \E j \in Current(w) :
       IF ~HasRoom(TenantOf[j]) THEN NextCandidate(w, j, tx[w].quotas)
       ELSE IF QuotaFree(j, w) THEN Reserved(w, j)
       ELSE Become(w, [tx[w] EXCEPT !.step = "waiting"])
  /\ Waits

\* It reads the row again when it got it.  A row that is full by then stays locked.
GetQuota(w) ==
  /\ tx[w].step = "waiting"
  /\ \E j \in Current(w) :
       /\ QuotaFree(j, w)
       /\ IF HasRoom(TenantOf[j]) THEN Reserved(w, j)
          ELSE NextCandidate(w, j, tx[w].quotas \cup {TenantOf[j]})
  /\ Waits

\* The workers' clocks and settings decide which leases the new one outlasts.
CommitClaim(w) ==
  /\ tx[w].step = "reserved"
  /\ \E j \in tx[w].todo : \E earlier \in SUBSET Running :
       /\ expired \subseteq earlier
       /\ earlier \X (Running \ earlier) \subseteq lease_order
       /\ jobs' = [jobs EXCEPT ![j] = [status |-> "RUNNING", attempts |-> @.attempts + 1]]
       /\ lease_order' = lease_order \cup (earlier \X {j})
                                     \cup ({j} \X (Running \ earlier))
       /\ running_jobs' = [running_jobs EXCEPT ![TenantOf[j]] = @ + 1]
       /\ Become(w, [Idle EXCEPT !.step = "executing", !.todo = {j},
                                 !.attempt = jobs[j].attempts + 1])
  /\ UNCHANGED expired

-----------------------------------------------------------------------------
(* mark_job_succeeded, schedule_job_retry, move_owned_job_to_dlq            *)

\* The transaction computes now before its SELECT.
BeginAck(w) ==
  /\ tx[w].step = "executing"
  /\ \E j \in tx[w].todo :
       Become(w, [tx[w] EXCEPT !.step = "acking",
                    !.live = jobs[j].attempts = tx[w].attempt /\ j \notin expired])
  /\ Waits

\* Mutant: the row that the SELECT waited for is not read again.
OwnedWhenAsked(w, j) == tx[w].live

\* The lease is the one that was claimed, and was live when the clock was read.
Owned(w, j) ==
  /\ jobs[j].status = "RUNNING"
  /\ jobs[j].attempts = tx[w].attempt
  /\ tx[w].live

\* Mutant: the slot is released before the job's row is locked.
QuotaBeforeRow(w) ==
  /\ tx[w].step = "acking"
  /\ \E j \in tx[w].todo :
       IF ~Owned(w, j) THEN Become(w, Idle)
       ELSE IF tx[w].quotas = {}
       THEN QuotaFree(j, w) /\ Become(w, [tx[w] EXCEPT !.quotas = {TenantOf[j]}])
       ELSE RowFree(j, w) /\ Become(w, [tx[w] EXCEPT !.step = "owning", !.rows = {j}])
  /\ Waits

\* _get_owned_running_job finds nothing, or waits for the row and reads it again when it
\* got it.
LockOwnedJob(w) ==
  /\ tx[w].step = "acking"
  /\ \E j \in tx[w].todo :
       IF Owned(w, j)
       THEN RowFree(j, w) /\ Become(w, [tx[w] EXCEPT !.step = "owning", !.rows = {j}])
       ELSE Become(w, Idle)
  /\ Waits

ReleaseSlot(w) ==
  /\ tx[w].step = "owning"
  /\ \E j \in tx[w].todo :
       QuotaFree(j, w) /\ Become(w, [tx[w] EXCEPT !.step = "released",
                                                 !.quotas = {TenantOf[j]}])
  /\ Waits

CommitAck(w) ==
  /\ tx[w].step = "released"
  /\ \E status \in {"SUCCEEDED", "DEAD_LETTERED"}
                 \cup (IF tx[w].attempt < MaxAttempts THEN {"PENDING"} ELSE {}) :
       End(tx[w].todo, [j \in Jobs |-> status])
  /\ Become(w, Idle)

-----------------------------------------------------------------------------
(* recover_expired_leases                                                   *)

\* Mutant: without SKIP LOCKED or a wait.
RecoverableOrLocked(r) == expired

\* Mutant: only jobs that can be requeued are looked for.
RecoverableToRetry(r) == {j \in expired : RowFree(j, r) /\ jobs[j].attempts < MaxAttempts}

\* SKIP LOCKED
Recoverable(r) == {j \in expired : RowFree(j, r)}

SelectExpired(r) ==
  /\ tx[r].step = "idle"
  /\ Recoverable(r) # {}
  /\ LET B == Batch(Recoverable(r), ReaperBatch, lease_order)
     IN  Become(r, [Idle EXCEPT !.step = "recovering", !.todo = B, !.rows = B])
  /\ Waits

\* release_runtime_slot for the next job of the batch
RecoverJob(r) ==
  /\ tx[r].step = "recovering"
  /\ \E j \in Current(r) :
       /\ QuotaFree(j, r)
       /\ Become(r, [tx[r] EXCEPT !.quotas = @ \cup {TenantOf[j]}, !.todo = @ \ {j}])
  /\ Waits

\* Mutant: a job that has no attempt left is requeued.
AlwaysRequeued(row) == "PENDING"

AfterTimeout(row) == IF row.attempts >= MaxAttempts THEN "DEAD_LETTERED" ELSE "PENDING"

CommitRecovery(r) ==
  /\ tx[r].step = "recovering"
  /\ tx[r].todo = {}
  /\ End(tx[r].rows, [j \in Jobs |-> AfterTimeout(jobs[j])])
  /\ Become(r, Idle)

-----------------------------------------------------------------------------
(* PostgreSQL                                                               *)

\* The transactions that hold the row x waits for: there is at most one.
Blockers(x) ==
  UNION {IF tx[x].step = "acking" /\ Owned(x, j) THEN RowHolders(j, x)
         ELSE IF tx[x].step \in {"waiting", "owning", "recovering"} THEN QuotaHolders(j, x)
         ELSE {} : j \in Current(x)}

Blocked == {x \in Transactions : Blockers(x) # {}}

\* Each of them waits for another one, and is waited for by another one.
Circles == {S \in SUBSET Blocked : S # {} /\ S = UNION {Blockers(x) : x \in S}}

\* One of them is aborted.  Neither run_worker nor run_reaper catches the error: the
\* process ends, and nothing starts it again.
DetectDeadlock ==
  /\ \E S \in Circles : \E x \in S : Become(x, Down)
  /\ Waits

\* The lease that is next to expire is over.
Expire ==
  /\ \E j \in First(Running \ expired, lease_order) : expired' = expired \cup {j}
  /\ UNCHANGED <<jobs, lease_order, running_jobs, tx>>

WorkerStep(w) ==
  \/ SelectCandidates(w) \/ ReserveSlot(w) \/ GetQuota(w) \/ CommitClaim(w)
  \/ LockOwnedJob(w) \/ ReleaseSlot(w) \/ CommitAck(w)

ReaperStep(r) == SelectExpired(r) \/ RecoverJob(r) \/ CommitRecovery(r)

Next ==
  \/ \E w \in Workers : WorkerStep(w) \/ BeginAck(w)
  \/ \E r \in Reapers : ReaperStep(r)
  \/ DetectDeadlock
  \/ Expire

Spec == Init /\ [][Next]_vars

\* Processes go on and deadlocks are detected; a handler need not return.
Fairness ==
  /\ \A w \in Workers : WF_vars(WorkerStep(w))
  /\ \A r \in Reapers : WF_vars(ReaperStep(r))
  /\ WF_vars(DetectDeadlock)

FairSpec == Spec /\ Fairness

-----------------------------------------------------------------------------
(* Properties                                                               *)

\* The rows and transactions hold values of their types, and the leases of the running
\* jobs end one after the other, the expired ones first.
TypeOK ==
  /\ jobs \in [Jobs -> Row]
  /\ lease_order \subseteq Running \X Running
  /\ \A j, k \in Running : j # k =>
       (<<j, k>> \in lease_order <=> <<k, j>> \notin lease_order)
  /\ \A i, j, k \in Running :
       <<i, j>> \in lease_order /\ <<j, k>> \in lease_order => <<i, k>> \in lease_order
  /\ expired \subseteq Running
  /\ expired \X (Running \ expired) \subseteq lease_order
  /\ running_jobs \in [Tenants -> Nat]
  /\ tx \in [Transactions -> Transaction]

\* However statements of the transactions interleave, the counter of a tenant is the
\* number of its running jobs, within its limit: no slot is released twice for one
\* attempt, by two reapers or by a reaper and an acknowledgement, and none is reserved
\* on a count that another claim has raised since.
QuotaExact ==
  \A t \in Tenants :
    /\ running_jobs[t] = Cardinality(RunningOf(t))
    /\ running_jobs[t] <= MaxRunningJobs[t]

\* Acknowledgements never deadlock, nor does a claim that has not lost a reservation it
\* waited for: each transaction in a circle holds a tenant's quota row and waits for
\* another tenant's, as only such claims and the batches of reapers do.
DeadlocksAcrossTenants ==
  \A S \in Circles : \A x \in S :
    /\ tx[x].step \in {"waiting", "recovering"}
    /\ \E t \in tx[x].quotas : \E j \in Current(x) : TenantOf[j] # t

\* The transactions are what JobQueue takes them for: every commit is a step of a
\* job's lifecycle, with the tenant's limit and the attempts kept.
Lifecycle == INSTANCE JobLifecycle
  WITH status   <- [j \in Jobs |-> jobs[j].status],
       attempts <- [j \in Jobs |-> jobs[j].attempts]

CommitsFollowLifecycle == [][Lifecycle!Next]_<<jobs>>

\* Every lease that is over is ended while there is a reaper: deadlocks may end them one
\* after the other, but a process in a circle always goes on.  No job is claimed for
\* ever, so in the end none is left.
ExpiredLeasesRecovered ==
  <>[](expired # {} => \A r \in Reapers : tx[r].step = "down")

=============================================================================
