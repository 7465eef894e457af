------------------------------ MODULE JobQueue ------------------------------
(***************************************************************************)
(* The durable queue of the backend: the jobs table, the tenants' runtime  *)
(* quotas, the dead-letter table and the job history, as the API, the      *)
(* worker processes and the lease reaper change them.                      *)
(*                                                                         *)
(* A database transaction is one step, with two exceptions that matter to  *)
(* the queue.  Claiming has two: the SELECT that locks a batch of          *)
(* candidate rows, and the reservation of a slot for each in turn, because *)
(* the quota is read in the first and enforced in the second.  An          *)
(* acknowledgement reads its clock when the handler returns and applies    *)
(* its update in a later step, because the code computes "now" before the  *)
(* statement that may wait for the row's lock.                             *)
(*                                                                         *)
(* The events a transaction adds to a job's history have no order: they    *)
(* share created_at, which is the transaction's start, their ids are       *)
(* random, and readers order by the two.  Only transactions are ordered.   *)
(*                                                                         *)
(* Time is relative: lease_expires_in is lease_expires_at - now and stops  *)
(* at -1 (expired), run_after_in is run_after - now and stops at 0 (due).  *)
(***************************************************************************)
EXTENDS Integers, Sequences, FiniteSets, Backoff, Handlers

CONSTANTS
  Jobs,             \* the rows the jobs table may hold
  Tenants,
  TenantOf,         \* jobs.tenant_id
  Priority,         \* jobs.priority
  JobType,          \* jobs.job_type
  PayloadComplete,  \* whether jobs.payload has what its handler requires
  MaxRunningJobs,   \* tenants.max_running_jobs
  MaxAttempts,      \* jobs.max_attempts: no caller sets it, every row has the default
  Workers,          \* worker processes
  WorkerIds,
  WorkerId,         \* settings.worker_id: several processes may be given the same
  LeaseSeconds,     \* settings.worker_lease_seconds
  CandidateLimit,   \* settings.worker_batch_size
  ReaperBatch,      \* settings.lease_reaper_batch_size
  MaxInterruptions, \* bound: crashes and shutdown signals of worker processes
  Null

ASSUME JobQueueAssumption ==
  /\ IsFiniteSet(Jobs)
  /\ TenantOf \in [Jobs -> Tenants]
  /\ Priority \in [Jobs -> Int]
  /\ JobType \in [Jobs -> JobTypes]
  /\ PayloadComplete \in [Jobs -> BOOLEAN]
  /\ MaxRunningJobs \in [Tenants -> Nat \ {0}]
  /\ MaxAttempts \in Nat \ {0}
  /\ WorkerId \in [Workers -> WorkerIds]
  /\ LeaseSeconds \in Nat \ {0}
  /\ CandidateLimit \in Nat \ {0}
  /\ ReaperBatch \in Nat \ {0}
  /\ MaxInterruptions \in Nat
  /\ Null \notin WorkerIds /\ Null \notin Jobs

VARIABLES
  jobs,             \* the jobs table
  running_jobs,     \* tenant_runtime_quotas.running_jobs; 0 also when there is no row
  dead_letter_jobs, \* dead_letter_jobs by job_id; attempts = 0 when there is no row
  job_events,       \* the job_events rows of each job, one set for each transaction
  leases_issued,    \* number of lease ids drawn: uuid4 never repeats one
  worker,           \* memory of each worker process
  shutdown,         \* the stop event set by SIGINT or SIGTERM
  interruptions     \* crashes and shutdown signals so far

vars == <<jobs, running_jobs, dead_letter_jobs, job_events, leases_issued,
          worker, shutdown, interruptions>>

-----------------------------------------------------------------------------
(* Rows and records                                                        *)

\* models.JobStatus without its reserved values FAILED and CANCELLED, which no
\* code assigns, and with ABSENT for a row that was not inserted yet.
JobStatus == {"ABSENT", "PENDING", "RUNNING", "SUCCEEDED", "DEAD_LETTERED"}
Terminal == {"SUCCEEDED", "DEAD_LETTERED"}

JobErrors == {"none", "handler_error", "lease_expired"}

JobRow == [status : JobStatus, attempts : Nat, locked_by : WorkerIds \cup {Null},
           lease_id : Nat, lease_expires_in : Int, run_after_in : Nat,
           last_error : JobErrors]

\* The columns of a row that has no lease; lease_id = 0 stands for NULL.
AbsentRow == [status |-> "ABSENT", attempts |-> 0, locked_by |-> Null,
              lease_id |-> 0, lease_expires_in |-> 0, run_after_in |-> 0,
              last_error |-> "none"]

DeadLetterRow == [attempts : Nat, final_error : JobErrors]
NoDeadLetter == [attempts |-> 0, final_error |-> "none"]

EventTypes == {"SUBMITTED", "CLAIMED", "SUCCEEDED", "FAILED_RETRY_SCHEDULED",
               "DEAD_LETTERED", "LEASE_EXPIRED", "REQUEUED_FROM_TIMEOUT"}

JobEvent == [event_type : EventTypes, from_status : JobStatus,
             to_status : JobStatus, attempt : Nat]

Event(type, from, to, attempt) ==
  [event_type |-> type, from_status |-> from, to_status |-> to, attempt |-> attempt]

\* What a worker process remembers: the candidate rows its open claim
\* transaction has locked and what is left of the lease computed from that
\* transaction's clock; then its ClaimedJob copy (id, lease_id, attempts), how the
\* handler ended and whether the lease was live at the clock read by the
\* acknowledgement.
WorkerMemory ==
  [state : {"idle", "claiming", "executing", "acking", "down"},
   candidates : SUBSET Jobs, new_lease_in : Int,
   job : Jobs \cup {Null}, lease_id : Nat, attempts : Nat,
   outcome : Outcomes \cup {"none"}, lease_live : BOOLEAN]

Idle == [state |-> "idle", candidates |-> {}, new_lease_in |-> 0, job |-> Null,
         lease_id |-> 0, attempts |-> 0, outcome |-> "none", lease_live |-> FALSE]
Down == [Idle EXCEPT !.state = "down"]

Init ==
  /\ jobs = [j \in Jobs |-> AbsentRow]
  /\ running_jobs = [t \in Tenants |-> 0]
  /\ dead_letter_jobs = [j \in Jobs |-> NoDeadLetter]
  /\ job_events = [j \in Jobs |-> <<>>]
  /\ leases_issued = 0
  /\ worker = [w \in Workers |-> Idle]
  /\ shutdown = [w \in Workers |-> FALSE]
  /\ interruptions = 0

-----------------------------------------------------------------------------
(* The API inserts the row and its SUBMITTED event in one transaction.      *)

SubmitJob(j) ==
  /\ jobs[j].status = "ABSENT"
  /\ jobs' = [jobs EXCEPT ![j].status = "PENDING"]
  /\ job_events' = [job_events EXCEPT
       ![j] = Append(@, {Event("SUBMITTED", "ABSENT", "PENDING", 0)})]
  /\ UNCHANGED <<running_jobs, dead_letter_jobs, leases_issued, worker,
                 shutdown, interruptions>>

-----------------------------------------------------------------------------
(* claim_pending_job                                                       *)

\* Rows some open claim transaction holds a FOR UPDATE lock on.
Locked == UNION {worker[w].candidates : w \in Workers}

\* Mutant: the limit is compared with <=.
HasRoomAtLimit(t) == running_jobs[t] <= MaxRunningJobs[t]

HasRoom(t) == running_jobs[t] < MaxRunningJobs[t]

\* Mutant: FOR UPDATE without SKIP LOCKED, rows not read again after the wait.
ClaimableOrLocked ==
  {j \in Jobs : /\ jobs[j].status = "PENDING"
                /\ jobs[j].run_after_in = 0
                /\ HasRoom(TenantOf[j])}

\* What the SELECT of claim_pending_job can return: the committed rows its WHERE
\* accepts, without those SKIP LOCKED passes over.
Claimable ==
  {j \in Jobs : /\ jobs[j].status = "PENDING"
                /\ jobs[j].run_after_in = 0
                /\ HasRoom(TenantOf[j])
                /\ j \notin Locked}

\* ORDER BY priority DESC ... LIMIT candidate_limit.  Rows of equal priority come in
\* any order: created_at and id are not modelled.
CandidateBatch(S) ==
  /\ S # {}
  /\ \/ S = Claimable
     \/ Cardinality(S) = CandidateLimit
  /\ Cardinality(S) <= CandidateLimit
  /\ \A in \in S, out \in Claimable \ S : Priority[in] >= Priority[out]

\* The SELECT; when it returns no row, nothing changes and the worker polls again.
SelectCandidates(w) ==
  /\ worker[w].state = "idle"
  /\ ~shutdown[w]
  /\ \E S \in SUBSET Claimable :
       /\ CandidateBatch(S)
       /\ worker' = [worker EXCEPT ![w] =
            [Idle EXCEPT !.state = "claiming", !.candidates = S,
                         !.new_lease_in = LeaseSeconds]]
  /\ UNCHANGED <<jobs, running_jobs, dead_letter_jobs, job_events, leases_issued,
                 shutdown, interruptions>>

\* The candidate the loop of claim_pending_job looks at now.
NextCandidate(w, j) ==
  /\ worker[w].state = "claiming"
  /\ j \in worker[w].candidates
  /\ \A k \in worker[w].candidates : Priority[j] >= Priority[k]

\* reserve_runtime_slot updates no row: the loop continues with the next
\* candidate, and the transaction ends without a claim after the last.
ReservationFails(w, j) ==
  /\ NextCandidate(w, j)
  /\ ~HasRoom(TenantOf[j])
  /\ worker' = [worker EXCEPT ![w] =
       IF worker[w].candidates = {j} THEN Idle
       ELSE [@ EXCEPT !.candidates = worker[w].candidates \ {j}]]
  /\ UNCHANGED <<jobs, running_jobs, dead_letter_jobs, job_events, leases_issued,
                 shutdown, interruptions>>

\* Mutant: every claim of a row gets the same lease id.
ConstantLease == 1

\* lease_id = uuid4()
NewLease == leases_issued + 1

\* reserve_runtime_slot succeeds: the row is leased, the history extended and the
\* transaction committed, which unlocks the other candidates.  The lease runs from
\* the clock read before the SELECT.
ClaimJob(w, j) ==
  /\ NextCandidate(w, j)
  /\ HasRoom(TenantOf[j])
  /\ running_jobs' = [running_jobs EXCEPT ![TenantOf[j]] = @ + 1]
  /\ leases_issued' = leases_issued + 1
  /\ jobs' = [jobs EXCEPT ![j] =
       [@ EXCEPT !.status = "RUNNING", !.attempts = jobs[j].attempts + 1,
                 !.locked_by = WorkerId[w], !.lease_id = NewLease,
                 !.lease_expires_in = worker[w].new_lease_in]]
  /\ job_events' = [job_events EXCEPT
       ![j] = Append(@, {Event("CLAIMED", "PENDING", "RUNNING", jobs[j].attempts + 1)})]
  /\ worker' = [worker EXCEPT ![w] =
       [Idle EXCEPT !.state = "executing", !.job = j,
                    !.lease_id = NewLease,
                    !.attempts = jobs[j].attempts + 1]]
  /\ UNCHANGED <<dead_letter_jobs, shutdown, interruptions>>

-----------------------------------------------------------------------------
(* process_one_job, from the handler to the acknowledgement                *)

\* The handler ends and the acknowledging transaction reads its clock.  The lease
\* the worker was given never moves, so only that lease's remaining time counts.
HandlerReturns(w) ==
  LET mine == worker[w]
      row  == jobs[mine.job]
  IN  /\ mine.state = "executing"
      /\ \E result \in HandlerOutcomes(JobType[mine.job], PayloadComplete[mine.job],
                                       mine.attempts) :
           worker' = [worker EXCEPT ![w] =
             [@ EXCEPT !.state = "acking", !.outcome = result,
                       !.lease_live = /\ row.lease_id = mine.lease_id
                                      /\ row.lease_expires_in > 0]]
      /\ UNCHANGED <<jobs, running_jobs, dead_letter_jobs, job_events, leases_issued,
                     shutdown, interruptions>>

\* Mutant: the lease is identified by its worker id alone.
OwnsByWorkerId(w) ==
  LET row == jobs[worker[w].job]
  IN  /\ row.status = "RUNNING"
      /\ row.locked_by = WorkerId[w]
      /\ worker[w].lease_live

\* _get_owned_running_job finds the row.
OwnsRunningJob(w) ==
  LET row == jobs[worker[w].job]
  IN  /\ row.status = "RUNNING"
      /\ row.locked_by = WorkerId[w]
      /\ row.lease_id = worker[w].lease_id
      /\ worker[w].lease_live

\* The three ways a row leaves RUNNING; each clears the columns of the lease.
Unleased(row) ==
  [row EXCEPT !.locked_by = Null, !.lease_id = 0, !.lease_expires_in = 0]
Succeeded(row) == [Unleased(row) EXCEPT !.status = "SUCCEEDED"]
Requeued(row, delay, error) ==
  [Unleased(row) EXCEPT !.status = "PENDING", !.run_after_in = delay,
                        !.last_error = error]

\* Mutant: the final error goes to the dead-letter table only.
DeadLetteredSilently(row, error) == [Unleased(row) EXCEPT !.status = "DEAD_LETTERED"]

DeadLettered(row, error) ==
  [Unleased(row) EXCEPT !.status = "DEAD_LETTERED", !.last_error = error]

\* release_runtime_slot, n times: the WHERE keeps the counter from going negative.
ReleaseSlots(running, n) == IF running > n THEN running - n ELSE 0

\* Mutant: the final error is not passed on.
InsertWithoutError(j, error) ==
  [attempts |-> jobs[j].attempts, final_error |-> Null]

\* INSERT INTO dead_letter_jobs ... ON CONFLICT DO NOTHING
InsertDeadLetter(j, error) ==
  IF dead_letter_jobs[j] = NoDeadLetter
    THEN [attempts |-> jobs[j].attempts, final_error |-> error]
    ELSE dead_letter_jobs[j]

\* What the acknowledging transactions share: the slot, the history, the commit.
Acknowledge(w, settled_row, event_type) ==
  LET j == worker[w].job
  IN  /\ worker[w].state = "acking"
      /\ OwnsRunningJob(w)
      /\ running_jobs' = [running_jobs EXCEPT ![TenantOf[j]] = ReleaseSlots(@, 1)]
      /\ jobs' = [jobs EXCEPT ![j] = settled_row]
      /\ job_events' = [job_events EXCEPT ![j] =
           Append(@, {Event(event_type, "RUNNING", settled_row.status, jobs[j].attempts)})]
      /\ worker' = [worker EXCEPT ![w] = Idle]
      /\ UNCHANGED <<leases_issued, shutdown, interruptions>>

MarkJobSucceeded(w) ==
  /\ worker[w].outcome = "ok"
  /\ Acknowledge(w, Succeeded(jobs[worker[w].job]), "SUCCEEDED")
  /\ UNCHANGED dead_letter_jobs

\* Mutant: one attempt too many.
MoreThanExhausted(w) == worker[w].attempts > MaxAttempts

\* _retry_or_dead_letter decides from the ClaimedJob copy, not from the row.
AttemptsExhausted(w) == worker[w].attempts >= MaxAttempts

ScheduleJobRetry(w) ==
  /\ worker[w].outcome = "retryable"
  /\ ~AttemptsExhausted(w)
  /\ \E delay \in BackoffDelays(worker[w].attempts) :
       Acknowledge(w, Requeued(jobs[worker[w].job], delay, "handler_error"),
                   "FAILED_RETRY_SCHEDULED")
  /\ UNCHANGED dead_letter_jobs

MoveOwnedJobToDlq(w) ==
  LET j == worker[w].job
  IN  /\ \/ worker[w].outcome = "non_retryable"
         \/ worker[w].outcome = "retryable" /\ AttemptsExhausted(w)
      /\ Acknowledge(w, DeadLettered(jobs[j], "handler_error"), "DEAD_LETTERED")
      /\ dead_letter_jobs' = [dead_letter_jobs EXCEPT
                                ![j] = InsertDeadLetter(j, "handler_error")]

\* The row is not this worker's any more: nothing is written, the result is dropped.
AckRejected(w) ==
  /\ worker[w].state = "acking"
  /\ ~OwnsRunningJob(w)
  /\ worker' = [worker EXCEPT ![w] = Idle]
  /\ UNCHANGED <<jobs, running_jobs, dead_letter_jobs, job_events, leases_issued,
                 shutdown, interruptions>>

-----------------------------------------------------------------------------
(* lease_reaper.recover_once                                               *)

\* Mutant: the reaper looks only for jobs it can requeue.
ExpiredAndRetryable(j) ==
  /\ jobs[j].status = "RUNNING"
  /\ jobs[j].lease_expires_in < 0
  /\ jobs[j].attempts < MaxAttempts

Expired(j) == jobs[j].status = "RUNNING" /\ jobs[j].lease_expires_in < 0

\* Mutant: one attempt too many.
TimedOutRowOnceMore(j, delay) ==
  IF jobs[j].attempts > MaxAttempts
    THEN DeadLettered(jobs[j], "lease_expired")
    ELSE Requeued(jobs[j], delay, "lease_expired")

TimedOutRow(j, delay) ==
  IF jobs[j].attempts >= MaxAttempts
    THEN DeadLettered(jobs[j], "lease_expired")
    ELSE Requeued(jobs[j], delay, "lease_expired")

\* Mutant: a job that is dead-lettered is recorded as requeued too (no continue).
TimeoutEventsOfBoth(j) ==
  LET attempt == jobs[j].attempts
  IN  {Event("LEASE_EXPIRED", "RUNNING", "RUNNING", attempt),
       Event("REQUEUED_FROM_TIMEOUT", "RUNNING", "PENDING", attempt)}
      \cup {e \in {Event("DEAD_LETTERED", "RUNNING", "DEAD_LETTERED", attempt)} :
              attempt >= MaxAttempts}

\* One event for the expiry and one for what becomes of the job.
TimeoutEvents(j) ==
  LET attempt == jobs[j].attempts
  IN  {Event("LEASE_EXPIRED", "RUNNING", "RUNNING", attempt),
       IF attempt >= MaxAttempts
         THEN Event("DEAD_LETTERED", "RUNNING", "DEAD_LETTERED", attempt)
         ELSE Event("REQUEUED_FROM_TIMEOUT", "RUNNING", "PENDING", attempt)}

\* One transaction for the batch.  Which expired rows it takes is left open: SKIP
\* LOCKED passes over a row that an acknowledgement holds, and -1 does not tell which
\* lease expired first.
RecoverExpiredLeases ==
  \E S \in (SUBSET {j \in Jobs : Expired(j)}) \ {{}} :
    /\ Cardinality(S) <= ReaperBatch
    /\ \E delay \in [S -> 0..MaxBackoff] :
         /\ \A j \in S : delay[j] \in BackoffDelays(jobs[j].attempts)
         /\ jobs' = [j \in Jobs |->
              IF j \in S THEN TimedOutRow(j, delay[j]) ELSE jobs[j]]
    /\ running_jobs' = [t \in Tenants |->
         ReleaseSlots(running_jobs[t], Cardinality({j \in S : TenantOf[j] = t}))]
    /\ dead_letter_jobs' = [j \in Jobs |->
         IF j \in S /\ jobs[j].attempts >= MaxAttempts
           THEN InsertDeadLetter(j, "lease_expired") ELSE dead_letter_jobs[j]]
    /\ job_events' = [j \in Jobs |->
         IF j \in S THEN Append(job_events[j], TimeoutEvents(j)) ELSE job_events[j]]
    /\ UNCHANGED <<leases_issued, worker, shutdown, interruptions>>

-----------------------------------------------------------------------------
(* Time, signals and crashes                                               *)

\* One second passes for every deadline, including that of a lease which an open
\* claim transaction is about to write.
Tick ==
  /\ jobs' = [j \in Jobs |->
       [jobs[j] EXCEPT
          !.lease_expires_in = IF jobs[j].status = "RUNNING" /\ @ > -1 THEN @ - 1 ELSE @,
          !.run_after_in = IF @ > 0 THEN @ - 1 ELSE @]]
  /\ worker' = [w \in Workers |->
       [worker[w] EXCEPT !.new_lease_in =
          IF worker[w].state = "claiming" /\ @ > -1 THEN @ - 1 ELSE @]]
  /\ UNCHANGED <<running_jobs, dead_letter_jobs, job_events, leases_issued,
                 shutdown, interruptions>>

\* SIGTERM or SIGINT only sets the stop event; run_worker looks at it between jobs.
SignalShutdown(w) ==
  /\ worker[w].state # "down" /\ ~shutdown[w]
  /\ interruptions < MaxInterruptions
  /\ shutdown' = [shutdown EXCEPT ![w] = TRUE]
  /\ interruptions' = interruptions + 1
  /\ UNCHANGED <<jobs, running_jobs, dead_letter_jobs, job_events, leases_issued,
                 worker>>

StopWorker(w) ==
  /\ worker[w].state = "idle" /\ shutdown[w]
  /\ worker' = [worker EXCEPT ![w] = Down]
  /\ UNCHANGED <<jobs, running_jobs, dead_letter_jobs, job_events, leases_issued,
                 shutdown, interruptions>>

\* The process dies anywhere: killed, or by an exception that process_one_job does
\* not catch (every database error).  An open transaction is rolled back.
CrashWorker(w) ==
  /\ worker[w].state # "down"
  /\ interruptions < MaxInterruptions
  /\ worker' = [worker EXCEPT ![w] = Down]
  /\ interruptions' = interruptions + 1
  /\ UNCHANGED <<jobs, running_jobs, dead_letter_jobs, job_events, leases_issued,
                 shutdown>>

\* Somebody starts the process again, with nothing in its memory.
StartWorker(w) ==
  /\ worker[w].state = "down"
  /\ worker' = [worker EXCEPT ![w] = Idle]
  /\ shutdown' = [shutdown EXCEPT ![w] = FALSE]
  /\ UNCHANGED <<jobs, running_jobs, dead_letter_jobs, job_events, leases_issued,
                 interruptions>>

-----------------------------------------------------------------------------
Claim(w) == \E j \in Jobs : ReservationFails(w, j) \/ ClaimJob(w, j)

SettleAttempt(w) ==
  \/ MarkJobSucceeded(w)
  \/ ScheduleJobRetry(w)
  \/ MoveOwnedJobToDlq(w)
  \/ AckRejected(w)

Next ==
  \/ \E j \in Jobs : SubmitJob(j)
  \/ \E w \in Workers :
       \/ SelectCandidates(w)
       \/ Claim(w)
       \/ HandlerReturns(w)
       \/ SettleAttempt(w)
       \/ SignalShutdown(w)
       \/ StopWorker(w)
       \/ CrashWorker(w)
       \/ StartWorker(w)
  \/ RecoverExpiredLeases
  \/ Tick

Spec == Init /\ [][Next]_vars
-----------------------------------------------------------------------------
(* Fairness                                                                 *)

\* Every process keeps taking its own steps and time passes; a process that went
\* down is started again; the default handlers, which await nothing external,
\* return.  Nobody has to submit, and crashes and signals need not happen.
Fairness ==
  /\ \A w \in Workers :
       /\ WF_vars(SelectCandidates(w))
       /\ WF_vars(Claim(w))
       /\ WF_vars(HandlerReturns(w))
       /\ WF_vars(SettleAttempt(w))
       /\ WF_vars(StopWorker(w))
       /\ WF_vars(StartWorker(w))
  /\ WF_vars(RecoverExpiredLeases)
  /\ WF_vars(Tick)

FairSpec == Spec /\ Fairness

-----------------------------------------------------------------------------
(* Properties                                                               *)

\* The values the tables and the processes can hold.
TypeOK ==
  /\ jobs \in [Jobs -> JobRow]
  /\ running_jobs \in [Tenants -> Nat]
  /\ dead_letter_jobs \in [Jobs -> DeadLetterRow]
  /\ job_events \in [Jobs -> Seq(SUBSET JobEvent)]
  /\ leases_issued \in Nat
  /\ worker \in [Workers -> WorkerMemory]
  /\ shutdown \in [Workers -> BOOLEAN]
  /\ interruptions \in Nat

RunningJobsOf(t) == {j \in Jobs : jobs[j].status = "RUNNING" /\ TenantOf[j] = t}

\* The quota counter never drifts from the rows it counts, however claims,
\* acknowledgements, timeouts and crashes interleave, and never exceeds the tenant's
\* limit although the claim's SELECT reads it before it is reserved.
QuotaExact ==
  \A t \in Tenants :
    /\ running_jobs[t] = Cardinality(RunningJobsOf(t))
    /\ running_jobs[t] <= MaxRunningJobs[t]

\* A job waiting to be claimed always has an attempt left, and no job is attempted
\* more often than allowed, although the worker decides about retries from the copy
\* it took when it claimed and the reaper decides from the row.
AttemptsBudget ==
  \A j \in Jobs :
    /\ jobs[j].attempts <= MaxAttempts
    /\ jobs[j].status = "PENDING" => jobs[j].attempts < MaxAttempts

\* w believes it runs j under the lease the row carries now.
HoldsLease(w, j) ==
  /\ worker[w].state \in {"executing", "acking"}
  /\ worker[w].job = j
  /\ jobs[j].status = "RUNNING"
  /\ worker[w].lease_id = jobs[j].lease_id

\* Among the workers that ever claimed a job, stale ones included and also when they
\* were given the same worker id, at most one holds its lease, and the holder's copy of
\* the attempt count is the row's.
OneLeaseHolder ==
  \A j \in Jobs, w \in Workers : HoldsLease(w, j) =>
    /\ worker[w].attempts = jobs[j].attempts
    /\ \A v \in Workers : HoldsLease(v, j) => v = w

\* A job has a dead-letter row exactly when it is dead-lettered, and that row, written
\* once and never overwritten (ON CONFLICT DO NOTHING), agrees with the job's final
\* attempts and error.
DeadLettersMatchJobs ==
  \A j \in Jobs :
    /\ (jobs[j].status = "DEAD_LETTERED") <=> (dead_letter_jobs[j] # NoDeadLetter)
    /\ jobs[j].status = "DEAD_LETTERED" =>
         /\ dead_letter_jobs[j].attempts = jobs[j].attempts
         /\ dead_letter_jobs[j].final_error = jobs[j].last_error

\* Transactions that added an event of j with one of these types for this attempt.
TransactionsFor(j, types, attempt) ==
  {i \in DOMAIN job_events[j] :
     \E e \in job_events[j][i] : e.event_type \in types /\ e.attempt = attempt}

EndOfAttempt ==
  {"SUCCEEDED", "FAILED_RETRY_SCHEDULED", "DEAD_LETTERED", "REQUEUED_FROM_TIMEOUT"}

\* The statuses that the events of one transaction start from, and those they lead to.
StartsFrom(events) == {e.from_status : e \in events}
LeadsTo(events) == {e.to_status : e \in events} \ StartsFrom(events)

\* The history alone explains the row, in whatever order the events of one transaction
\* are read: all of them start at the status the transaction before led to, and lead to
\* one other, from the submission to the current status; every attempt was claimed once,
\* and every attempt but a running one was ended once, by its worker or by the reaper but
\* never by both.
HistoryExplainsJob ==
  \A j \in Jobs :
    LET history == job_events[j]
        row     == jobs[j]
    IN  /\ row.status = "ABSENT" <=> history = <<>>
        /\ \A i \in DOMAIN history :
             StartsFrom(history[i]) =
               IF i = 1 THEN {"ABSENT"} ELSE LeadsTo(history[i - 1])
        /\ history # <<>> => LeadsTo(history[Len(history)]) = {row.status}
        /\ \A k \in 1..row.attempts :
             /\ Cardinality(TransactionsFor(j, {"CLAIMED"}, k)) = 1
             /\ Cardinality(TransactionsFor(j, EndOfAttempt, k)) =
                  IF row.status = "RUNNING" /\ k = row.attempts THEN 0 ELSE 1
        /\ \A i \in DOMAIN history : \A e \in history[i] : e.attempt <= row.attempts

\* A settled job stays settled: no late acknowledgement, retry, timeout or claim
\* touches its row, its dead letter or its history.
SettledForever ==
  [][\A j \in Jobs : jobs[j].status \in Terminal =>
       /\ jobs'[j] = jobs[j]
       /\ dead_letter_jobs'[j] = dead_letter_jobs[j]
       /\ job_events'[j] = job_events[j]]_vars

\* The step ends the attempt that w holds the lease of, as its handler's outcome says.
EndedByHolder(w, j) ==
  /\ HoldsLease(w, j)
  /\ worker[w].state = "acking"
  /\ worker'[w].state = "idle"
  /\ CASE jobs'[j].status = "SUCCEEDED"     -> worker[w].outcome = "ok"
       [] jobs'[j].status = "PENDING"       -> worker[w].outcome = "retryable"
       [] jobs'[j].status = "DEAD_LETTERED" ->
            \/ worker[w].outcome = "non_retryable"
            \/ worker[w].outcome = "retryable" /\ jobs[j].attempts = MaxAttempts
       [] OTHER -> FALSE

\* A running job leaves RUNNING, or loses its lease, only by the acknowledgement of
\* the worker that holds that lease or after the lease ran out: no stale worker
\* settles the attempt of another, and the reaper takes no live lease.
AttemptEndedByOwnerOrTimeout ==
  [][\A j \in Jobs :
       /\ jobs[j].status = "RUNNING"
       /\ jobs'[j].status # "RUNNING" \/ jobs'[j].lease_id # jobs[j].lease_id
       => \/ \E w \in Workers : EndedByHolder(w, j)
          \/ /\ jobs[j].lease_expires_in < 0
             /\ jobs'[j].status \in {"PENDING", "DEAD_LETTERED"}]_vars

\* Every submitted job is eventually settled, whatever finitely many crashes and
\* shutdowns do to the workers that claim it.
EverySubmittedJobSettles ==
  \A j \in Jobs : jobs[j].status = "PENDING" ~> jobs[j].status \in Terminal

\* The quota bounds the workers that execute a tenant's handlers, as the documents
\* say of it; it does not, because the slot of an expired lease is released while the
\* handler of the stale worker still runs.
HandlersWithinQuota ==
  \A t \in Tenants :
    Cardinality({w \in Workers : /\ worker[w].state = "executing"
                                 /\ TenantOf[worker[w].job] = t}) <= MaxRunningJobs[t]

\* The queue keeps the promise of JobLifecycle, read from the status and attempts
\* columns: a step of the queue is a step of the lifecycle or changes neither.
Lifecycle == INSTANCE JobLifecycle
  WITH status   <- [j \in Jobs |-> jobs[j].status],
       attempts <- [j \in Jobs |-> jobs[j].attempts]

ImplementsLifecycle == Lifecycle!Spec
=============================================================================
