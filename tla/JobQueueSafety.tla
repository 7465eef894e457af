--------------------------- MODULE JobQueueSafety ---------------------------
(***************************************************************************)
(* The safety properties of JobQueue, proved from one inductive invariant: *)
(* QuotaExact, AttemptsBudget, OneLeaseHolder, DeadLettersMatchJobs,       *)
(* SettledForever and HistoryExplainsJob.                                  *)
(***************************************************************************)
EXTENDS JobQueueProofs

-----------------------------------------------------------------------------
(* What each step does to the rows                                         *)

\* The columns the invariants are about are those of the state before; time alone
\* changes nothing in a row that neither runs nor waits for its run_after.
RowKept(j) ==
  /\ jobs'[j].status = jobs[j].status
  /\ jobs'[j].attempts = jobs[j].attempts
  /\ jobs'[j].lease_id = jobs[j].lease_id
  /\ jobs'[j].last_error = jobs[j].last_error
  /\ jobs[j].run_after_in = 0 => jobs'[j].run_after_in = 0
  /\ jobs[j].run_after_in = 0 /\ jobs[j].status # "RUNNING" => jobs'[j] = jobs[j]

\* The running attempt of j ends.
RowEnded(j) ==
  /\ jobs[j].status = "RUNNING"
  /\ jobs'[j].status \in {"PENDING", "SUCCEEDED", "DEAD_LETTERED"}
  /\ jobs'[j].attempts = jobs[j].attempts
  /\ jobs'[j].lease_id = 0
  /\ jobs'[j].status # "PENDING" => jobs'[j].run_after_in = jobs[j].run_after_in

\* The rows an open claim has locked are pending, due and belong to no other claim.
CandidatesInv ==
  \A w \in Workers, j \in Jobs : j \in worker[w].candidates =>
    /\ jobs[j].status = "PENDING"
    /\ jobs[j].run_after_in = 0
    /\ \A v \in Workers : j \in worker[v].candidates => v = w

\* A submission makes an absent row pending and touches no other.
LEMMA SubmitRows ==
  ASSUME TypeInv, NEW j \in Jobs, SubmitJob(j)
  PROVE  /\ jobs[j].status = "ABSENT" /\ jobs'[j].status = "PENDING"
         /\ jobs'[j].run_after_in = jobs[j].run_after_in
         /\ jobs'[j].attempts = jobs[j].attempts
         /\ jobs'[j].lease_id = jobs[j].lease_id
         /\ \A k \in Jobs \ {j} : jobs'[k] = jobs[k]
BY DEF SubmitJob, TypeInv, TypeOK, JobRow

\* A claim makes a pending row running under a new lease and touches no other.
LEMMA ClaimRows ==
  ASSUME TypeInv, CandidatesInv, NEW w \in Workers, NEW j \in Jobs, ClaimJob(w, j)
  PROVE  /\ jobs[j].status = "PENDING" /\ jobs'[j].status = "RUNNING"
         /\ jobs'[j].attempts = jobs[j].attempts + 1
         /\ jobs'[j].lease_id = leases_issued + 1
         /\ jobs'[j].run_after_in = 0
         /\ \A k \in Jobs \ {j} : jobs'[k] = jobs[k]
<1>1. jobs[j].status = "PENDING" /\ jobs[j].run_after_in = 0
  BY DEF ClaimJob, NextCandidate, CandidatesInv
<1>2. jobs[j] \in JobRow
  BY DEF TypeInv, TypeOK
<1>3. jobs' = [jobs EXCEPT ![j] =
         [jobs[j] EXCEPT !.status = "RUNNING", !.attempts = jobs[j].attempts + 1,
                   !.locked_by = WorkerId[w], !.lease_id = leases_issued + 1,
                   !.lease_expires_in = worker[w].new_lease_in]]
  BY DEF ClaimJob, NewLease
<1> QED
  BY <1>1, <1>2, <1>3 DEF TypeInv, TypeOK, JobRow

\* An acknowledgement ends the attempt of the worker that holds the lease, as the
\* handler's outcome says, and touches no other row.
LEMMA AcknowledgeRows ==
  ASSUME TypeInv, NEW w \in Workers,
         MarkJobSucceeded(w) \/ ScheduleJobRetry(w) \/ MoveOwnedJobToDlq(w)
  PROVE  LET j == worker[w].job
         IN  /\ j \in Jobs
             /\ HoldsLease(w, j) /\ worker[w].state = "acking"
             /\ RowEnded(j)
             /\ \A k \in Jobs \ {j} : jobs'[k] = jobs[k]
             /\ MarkJobSucceeded(w) => jobs'[j].status = "SUCCEEDED"
             /\ ScheduleJobRetry(w) => jobs'[j].status = "PENDING"
             /\ MoveOwnedJobToDlq(w) => /\ jobs'[j].status = "DEAD_LETTERED"
                                        /\ jobs'[j].last_error = "handler_error"
             /\ running_jobs' = [running_jobs EXCEPT
                  ![TenantOf[j]] = ReleaseSlots(running_jobs[TenantOf[j]], 1)]
             /\ worker' = [worker EXCEPT ![w] = Idle]
             /\ UNCHANGED leases_issued
<1> DEFINE j == worker[w].job
<1>1. /\ j \in Jobs /\ jobs[j] \in JobRow
      /\ HoldsLease(w, j) /\ worker[w].state = "acking"
      /\ jobs[j].status = "RUNNING"
  BY DEF MarkJobSucceeded, ScheduleJobRetry, MoveOwnedJobToDlq, Acknowledge,
         OwnsRunningJob, HoldsLease, TypeInv, TypeOK, WorkerOK
<1>2. ASSUME MarkJobSucceeded(w)
      PROVE  /\ jobs' = [jobs EXCEPT ![j] = Succeeded(jobs[j])]
             /\ Succeeded(jobs[j]).status = "SUCCEEDED"
             /\ Succeeded(jobs[j]).attempts = jobs[j].attempts
             /\ Succeeded(jobs[j]).lease_id = 0
             /\ Succeeded(jobs[j]).run_after_in = jobs[j].run_after_in
  BY <1>1, <1>2, SucceededRow DEF MarkJobSucceeded, Acknowledge
<1>3. ASSUME ScheduleJobRetry(w)
      PROVE  \E row : /\ jobs' = [jobs EXCEPT ![j] = row]
                      /\ row.status = "PENDING"
                      /\ row.attempts = jobs[j].attempts
                      /\ row.lease_id = 0
  <2>1. PICK delay \in BackoffDelays(worker[w].attempts) :
          jobs' = [jobs EXCEPT ![j] = Requeued(jobs[j], delay, "handler_error")]
    BY <1>3 DEF ScheduleJobRetry, Acknowledge
  <2>2. delay \in Nat /\ "handler_error" \in JobErrors
    BY BackoffIsNat DEF TypeInv, TypeOK, WorkerMemory, JobErrors
  <2> HIDE DEF j
  <2>3. LET row == Requeued(jobs[j], delay, "handler_error")
        IN  row.status = "PENDING" /\ row.attempts = jobs[j].attempts /\ row.lease_id = 0
    BY <1>1, <2>2, RequeuedRow
  <2> QED
    BY <2>1, <2>3, Zenon
<1>4. ASSUME MoveOwnedJobToDlq(w)
      PROVE  /\ jobs' = [jobs EXCEPT ![j] = DeadLettered(jobs[j], "handler_error")]
             /\ DeadLettered(jobs[j], "handler_error").status = "DEAD_LETTERED"
             /\ DeadLettered(jobs[j], "handler_error").attempts = jobs[j].attempts
             /\ DeadLettered(jobs[j], "handler_error").lease_id = 0
             /\ DeadLettered(jobs[j], "handler_error").last_error = "handler_error"
             /\ DeadLettered(jobs[j], "handler_error").run_after_in = jobs[j].run_after_in
  <2>1. "handler_error" \in JobErrors
    BY DEF JobErrors
  <2> QED
    BY <1>1, <1>4, <2>1, DeadLetteredRow DEF MoveOwnedJobToDlq, Acknowledge
<1>5. ~(MarkJobSucceeded(w) /\ ScheduleJobRetry(w))
  BY DEF MarkJobSucceeded, ScheduleJobRetry
<1>6. ~(MarkJobSucceeded(w) /\ MoveOwnedJobToDlq(w))
  BY DEF MarkJobSucceeded, MoveOwnedJobToDlq
<1>7. ~(ScheduleJobRetry(w) /\ MoveOwnedJobToDlq(w))
  BY DEF ScheduleJobRetry, MoveOwnedJobToDlq, AttemptsExhausted
<1>8. /\ running_jobs' = [running_jobs EXCEPT
           ![TenantOf[j]] = ReleaseSlots(running_jobs[TenantOf[j]], 1)]
      /\ worker' = [worker EXCEPT ![w] = Idle]
      /\ UNCHANGED leases_issued
  BY DEF MarkJobSucceeded, ScheduleJobRetry, MoveOwnedJobToDlq, Acknowledge
<1>9. /\ jobs \in [Jobs -> JobRow]
      /\ MarkJobSucceeded(w) \/ ScheduleJobRetry(w) \/ MoveOwnedJobToDlq(w)
  BY DEF TypeInv, TypeOK
<1> HIDE DEF j
<1>10. RowEnded(j) /\ \A k \in Jobs \ {j} : jobs'[k] = jobs[k]
  BY <1>1, <1>2, <1>3, <1>4, <1>9 DEF RowEnded
<1>11. /\ MarkJobSucceeded(w) => jobs'[j].status = "SUCCEEDED"
       /\ ScheduleJobRetry(w) => jobs'[j].status = "PENDING"
       /\ MoveOwnedJobToDlq(w) => /\ jobs'[j].status = "DEAD_LETTERED"
                                  /\ jobs'[j].last_error = "handler_error"
  BY <1>1, <1>2, <1>3, <1>4, <1>9
<1> QED
  BY <1>1, <1>8, <1>10, <1>11 DEF j

\* A second of time changes none of the columns the invariants are about.
LEMMA TickRows ==
  ASSUME TypeInv, Tick
  PROVE  \A j \in Jobs : RowKept(j)
<1> SUFFICES ASSUME NEW j \in Jobs PROVE RowKept(j)
  OBVIOUS
<1> DEFINE left == IF jobs[j].status = "RUNNING" /\ jobs[j].lease_expires_in > -1
                     THEN jobs[j].lease_expires_in - 1 ELSE jobs[j].lease_expires_in
           wait == IF jobs[j].run_after_in > 0
                     THEN jobs[j].run_after_in - 1 ELSE jobs[j].run_after_in
<1>1. jobs'[j] = [jobs[j] EXCEPT !.lease_expires_in = left, !.run_after_in = wait]
  BY DEF Tick
<1>2. jobs[j] \in JobRow
  BY DEF TypeInv, TypeOK
<1>3. jobs[j].run_after_in = 0 => wait = 0
  OBVIOUS
<1>4. jobs[j].run_after_in = 0 /\ jobs[j].status # "RUNNING" =>
        left = jobs[j].lease_expires_in /\ wait = jobs[j].run_after_in
  OBVIOUS
<1> HIDE DEF left, wait
<1>5. [jobs[j] EXCEPT !.lease_expires_in = jobs[j].lease_expires_in,
                      !.run_after_in = jobs[j].run_after_in] = jobs[j]
  BY <1>2 DEF JobRow
<1>6. jobs[j].run_after_in = 0 /\ jobs[j].status # "RUNNING" => jobs'[j] = jobs[j]
  BY <1>1, <1>4, <1>5
<1> QED
  BY <1>1, <1>2, <1>3, <1>6 DEF RowKept, JobRow

\* A batch of the reaper ends the attempts of some expired rows, those without
\* attempts left in the dead-letter table, and touches no other row.
LEMMA RecoverRows ==
  ASSUME TypeInv, RecoverExpiredLeases
  PROVE  \E S \in SUBSET Jobs :
           /\ \A j \in S : /\ RowEnded(j)
                           /\ jobs[j].lease_expires_in < 0
                           /\ jobs[j].attempts >= MaxAttempts =>
                                /\ jobs'[j].status = "DEAD_LETTERED"
                                /\ jobs'[j].last_error = "lease_expired"
                           /\ ~(jobs[j].attempts >= MaxAttempts) =>
                                jobs'[j].status = "PENDING"
           /\ \A k \in Jobs \ S : jobs'[k] = jobs[k]
           /\ running_jobs' = [t \in Tenants |->
                ReleaseSlots(running_jobs[t], Cardinality({j \in S : TenantOf[j] = t}))]
           /\ dead_letter_jobs' = [j \in Jobs |->
                IF j \in S /\ jobs[j].attempts >= MaxAttempts
                  THEN InsertDeadLetter(j, "lease_expired") ELSE dead_letter_jobs[j]]
           /\ job_events' = [j \in Jobs |->
                IF j \in S THEN Append(job_events[j], TimeoutEvents(j)) ELSE job_events[j]]
           /\ UNCHANGED <<leases_issued, worker>>
<1>1. PICK S \in (SUBSET {j \in Jobs : Expired(j)}) \ {{}} :
    /\ \E delay \in [S -> 0..MaxBackoff] :
         /\ \A j \in S : delay[j] \in BackoffDelays(jobs[j].attempts)
         /\ jobs' = [j \in Jobs |->
              IF j \in S THEN TimedOutRow(j, delay[j]) ELSE jobs[j]]
    /\ running_jobs' = [t \in Tenants |->
         ReleaseSlots(running_jobs[t], Cardinality({j \in S : TenantOf[j] = t}))]
    /\ dead_letter_jobs' = [j \in Jobs |->
         IF j \in S /\ jobs[j].attempts >= MaxAttempts
           THEN InsertDeadLetter(j, "lease_expired") ELSE dead_letter_jobs[j]]
    /\ job_events' = [j \in Jobs |->
         IF j \in S THEN Append(job_events[j], TimeoutEvents(j)) ELSE job_events[j]]
    /\ UNCHANGED <<leases_issued, worker, shutdown, interruptions>>
  BY DEF RecoverExpiredLeases
<1>2. PICK delay \in [S -> 0..MaxBackoff] :
         jobs' = [j \in Jobs |-> IF j \in S THEN TimedOutRow(j, delay[j]) ELSE jobs[j]]
  BY <1>1
<1>3. S \subseteq Jobs
  OBVIOUS
<1>4. \A k \in Jobs \ S : jobs'[k] = jobs[k]
  BY <1>2
<1>5. ASSUME NEW j \in S
      PROVE  /\ RowEnded(j)
             /\ jobs[j].lease_expires_in < 0
             /\ jobs[j].attempts >= MaxAttempts =>
                  /\ jobs'[j].status = "DEAD_LETTERED"
                  /\ jobs'[j].last_error = "lease_expired"
             /\ ~(jobs[j].attempts >= MaxAttempts) => jobs'[j].status = "PENDING"
  <2>1. j \in Jobs /\ jobs[j] \in JobRow /\ delay[j] \in Nat
    BY <1>3, BackoffAssumption DEF TypeInv, TypeOK
  <2>2. jobs[j].status = "RUNNING" /\ jobs[j].lease_expires_in < 0
    BY DEF Expired
  <2>3. jobs'[j] = TimedOutRow(j, delay[j])
    BY <1>2, <2>1
  <2> QED
    BY <2>1, <2>2, <2>3, TimedOut DEF RowEnded
<1> QED
  BY <1>1, <1>3, <1>4, <1>5

-----------------------------------------------------------------------------
(* Row locks                                                                *)

\* Every step keeps the locked candidates pending and the locks exclusive.
LEMMA CandidatesStep ==
  TypeInv /\ CandidatesInv /\ [Next]_vars => CandidatesInv'
<1> SUFFICES ASSUME TypeInv, CandidatesInv, [Next]_vars PROVE CandidatesInv'
  OBVIOUS
<1>t. worker \in [Workers -> WorkerMemory]
  BY DEF TypeInv, TypeOK
<1>f. ASSUME NEW w \in Workers, NEW memory \in {Idle, Down},
             worker' = [worker EXCEPT ![w] = memory], UNCHANGED jobs
      PROVE  CandidatesInv'
  BY <1>f, <1>t, IdleMemory DEF CandidatesInv
<1>1. ASSUME NEW j \in Jobs, SubmitJob(j) PROVE CandidatesInv'
  BY <1>1, SubmitRows DEF SubmitJob, CandidatesInv
<1>2. ASSUME NEW w \in Workers, SelectCandidates(w) PROVE CandidatesInv'
  <2>1. PICK S \in SUBSET Claimable :
          worker' = [worker EXCEPT ![w] =
            [Idle EXCEPT !.state = "claiming", !.candidates = S,
                         !.new_lease_in = LeaseSeconds]]
    BY <1>2 DEF SelectCandidates
  <2>2. [Idle EXCEPT !.state = "claiming", !.candidates = S,
                     !.new_lease_in = LeaseSeconds].candidates = S
    BY DEF Idle
  <2>3. worker'[w].candidates = S /\ \A v \in Workers \ {w} : worker'[v] = worker[v]
    BY <1>t, <2>1, <2>2
  <2>4. \A j \in S : /\ jobs[j].status = "PENDING" /\ jobs[j].run_after_in = 0
                     /\ \A v \in Workers : j \notin worker[v].candidates
    BY DEF Claimable, Locked
  <2> QED
    BY <1>2, <2>3, <2>4 DEF SelectCandidates, CandidatesInv
<1>3. ASSUME NEW w \in Workers, NEW j \in Jobs, ReservationFails(w, j)
      PROVE  CandidatesInv'
  <2>1. CASE worker[w].candidates = {j}
    BY <1>3, <1>f, <2>1 DEF ReservationFails
  <2>2. CASE worker[w].candidates # {j}
    <3>1. worker' = [worker EXCEPT ![w] =
                       [worker[w] EXCEPT !.candidates = worker[w].candidates \ {j}]]
      BY <1>3, <2>2 DEF ReservationFails
    <3>2. /\ worker'[w].candidates = worker[w].candidates \ {j}
          /\ \A v \in Workers \ {w} : worker'[v] = worker[v]
      BY <1>t, <3>1 DEF WorkerMemory
    <3> QED
      BY <1>3, <3>2 DEF ReservationFails, CandidatesInv
  <2> QED
    BY <2>1, <2>2
<1>4. ASSUME NEW w \in Workers, NEW j \in Jobs, ClaimJob(w, j) PROVE CandidatesInv'
  <2>1. \A k \in Jobs \ {j} : jobs'[k] = jobs[k]
    BY <1>4, ClaimRows
  <2>2. worker'[w].candidates = {} /\ \A v \in Workers \ {w} : worker'[v] = worker[v]
    BY <1>4, <1>t DEF ClaimJob, Idle
  <2>3. j \in worker[w].candidates
    BY <1>4 DEF ClaimJob, NextCandidate
  <2> QED
    BY <2>1, <2>2, <2>3 DEF CandidatesInv
<1>5. ASSUME NEW w \in Workers, HandlerReturns(w) PROVE CandidatesInv'
  <2>1. /\ worker'[w].candidates = worker[w].candidates
        /\ \A v \in Workers \ {w} : worker'[v] = worker[v]
        /\ jobs' = jobs
    BY <1>5, <1>t DEF HandlerReturns, WorkerMemory
  <2> QED
    BY <2>1 DEF CandidatesInv
<1>6. ASSUME NEW w \in Workers,
             MarkJobSucceeded(w) \/ ScheduleJobRetry(w) \/ MoveOwnedJobToDlq(w)
      PROVE  CandidatesInv'
  <2>1. /\ worker[w].job \in Jobs /\ jobs[worker[w].job].status = "RUNNING"
        /\ \A k \in Jobs \ {worker[w].job} : jobs'[k] = jobs[k]
        /\ worker' = [worker EXCEPT ![w] = Idle]
    BY <1>6, AcknowledgeRows DEF RowEnded
  <2> QED
    BY <1>t, <2>1, IdleMemory DEF CandidatesInv
<1>7. ASSUME RecoverExpiredLeases PROVE CandidatesInv'
  BY <1>7, RecoverRows DEF RowEnded, CandidatesInv
<1>8. ASSUME Tick PROVE CandidatesInv'
  <2>1. \A w \in Workers : worker'[w].candidates = worker[w].candidates
    BY <1>8, <1>t DEF Tick, WorkerMemory
  <2> QED
    BY <1>8, <2>1, TickRows DEF RowKept, CandidatesInv
<1>9. ASSUME NEW w \in Workers,
             AckRejected(w) \/ StopWorker(w) \/ CrashWorker(w) \/ StartWorker(w)
      PROVE  CandidatesInv'
  BY <1>9, <1>f DEF AckRejected, StopWorker, CrashWorker, StartWorker
<1>10. ASSUME NEW w \in Workers, SignalShutdown(w) PROVE CandidatesInv'
  BY <1>10 DEF SignalShutdown, CandidatesInv
<1>11. CASE UNCHANGED vars
  BY <1>11 DEF vars, CandidatesInv
<1> QED
  BY <1>1, <1>2, <1>3, <1>4, <1>5, <1>6, <1>7, <1>8, <1>9, <1>10, <1>11
     DEF Next, Claim, SettleAttempt

-----------------------------------------------------------------------------
(* The quota                                                                *)

\* The running jobs of a tenant are finitely many.
LEMMA RunningFinite ==
  ASSUME NEW t \in Tenants
  PROVE  IsFiniteSet(RunningJobsOf(t)) /\ Cardinality(RunningJobsOf(t)) \in Nat
<1>1. IsFiniteSet(RunningJobsOf(t))
  BY FS_Subset, JobQueueAssumption DEF RunningJobsOf
<1> QED
  BY <1>1, FS_CardinalityType

\* A step that changes no status keeps the running jobs.
LEMMA SameRunning ==
  ASSUME NEW t \in Tenants, \A j \in Jobs : jobs'[j].status = jobs[j].status
  PROVE  RunningJobsOf(t)' = RunningJobsOf(t)
BY DEF RunningJobsOf

\* Releasing the slot of a set of running jobs takes their number off the counter.
LEMMA SlotsReleased ==
  ASSUME NEW t \in Tenants, NEW S \in SUBSET RunningJobsOf(t),
         running_jobs[t] = Cardinality(RunningJobsOf(t))
  PROVE  /\ ReleaseSlots(running_jobs[t], Cardinality(S)) =
              Cardinality(RunningJobsOf(t) \ S)
         /\ Cardinality(RunningJobsOf(t) \ S) <= running_jobs[t]
<1>1. IsFiniteSet(RunningJobsOf(t)) /\ Cardinality(RunningJobsOf(t)) \in Nat
  BY RunningFinite
<1>2. IsFiniteSet(S) /\ Cardinality(S) <= Cardinality(RunningJobsOf(t))
  BY <1>1, FS_Subset
<1>3. Cardinality(S) \in Nat
  BY <1>2, FS_CardinalityType
<1>4. Cardinality(RunningJobsOf(t) \ S) =
        Cardinality(RunningJobsOf(t)) - Cardinality(RunningJobsOf(t) \cap S)
  BY <1>1, FS_Difference
<1>5. RunningJobsOf(t) \cap S = S
  OBVIOUS
<1> QED
  BY <1>1, <1>2, <1>3, <1>4, <1>5 DEF ReleaseSlots

\* QuotaExact of one tenant.
QuotaExactOf(t) ==
  /\ running_jobs[t] = Cardinality(RunningJobsOf(t))
  /\ running_jobs[t] <= MaxRunningJobs[t]

\* Every step keeps the quota counters exact and within the limits.
LEMMA QuotaStep ==
  TypeInv /\ CandidatesInv /\ QuotaExact /\ [Next]_vars => QuotaExact'
<1> SUFFICES ASSUME TypeInv, CandidatesInv, QuotaExact, [Next]_vars,
                    NEW t \in Tenants
             PROVE  QuotaExactOf(t)'
  BY DEF QuotaExact, QuotaExactOf
<1>t. /\ running_jobs \in [Tenants -> Nat]
      /\ MaxRunningJobs[t] \in Nat
      /\ \A j \in Jobs : TenantOf[j] \in Tenants
  BY JobQueueAssumption DEF TypeInv, TypeOK
<1>q. /\ running_jobs[t] = Cardinality(RunningJobsOf(t))
      /\ running_jobs[t] <= MaxRunningJobs[t]
  BY DEF QuotaExact
<1>s. ASSUME \A j \in Jobs : jobs'[j].status = jobs[j].status, UNCHANGED running_jobs
      PROVE  QuotaExactOf(t)'
  BY <1>s, <1>q, SameRunning DEF QuotaExactOf
<1>1. ASSUME NEW j \in Jobs, SubmitJob(j) PROVE QuotaExactOf(t)'
  <2>1. RunningJobsOf(t)' = RunningJobsOf(t)
    BY <1>1, SubmitRows DEF RunningJobsOf
  <2> QED
    BY <1>1, <1>q, <2>1 DEF SubmitJob, QuotaExactOf
<1>2. ASSUME NEW w \in Workers, NEW j \in Jobs, ClaimJob(w, j) PROVE QuotaExactOf(t)'
  <2>1. /\ jobs[j].status = "PENDING" /\ jobs'[j].status = "RUNNING"
        /\ \A k \in Jobs \ {j} : jobs'[k] = jobs[k]
    BY <1>2, ClaimRows
  <2>2. running_jobs' = [running_jobs EXCEPT ![TenantOf[j]] = running_jobs[TenantOf[j]] + 1]
    BY <1>2 DEF ClaimJob
  <2>3. CASE t = TenantOf[j]
    <3>1. RunningJobsOf(t)' = RunningJobsOf(t) \cup {j} /\ j \notin RunningJobsOf(t)
      BY <2>1, <2>3 DEF RunningJobsOf
    <3>2. Cardinality(RunningJobsOf(t)') = running_jobs[t] + 1
      BY <1>q, <3>1, RunningFinite, FS_AddElement
    <3>3. running_jobs[t] < MaxRunningJobs[t]
      BY <1>2, <2>3 DEF ClaimJob, HasRoom
    <3> QED
      BY <1>t, <2>2, <2>3, <3>2, <3>3 DEF QuotaExactOf
  <2>4. CASE t # TenantOf[j]
    <3>1. RunningJobsOf(t)' = RunningJobsOf(t)
      BY <2>1, <2>4 DEF RunningJobsOf
    <3> QED
      BY <1>t, <1>q, <2>2, <2>4, <3>1 DEF QuotaExactOf
  <2> QED
    BY <2>3, <2>4
<1>3. ASSUME NEW w \in Workers,
             MarkJobSucceeded(w) \/ ScheduleJobRetry(w) \/ MoveOwnedJobToDlq(w)
      PROVE  QuotaExactOf(t)'
  <2> DEFINE j == worker[w].job
  <2>1. /\ j \in Jobs
        /\ jobs[j].status = "RUNNING" /\ jobs'[j].status # "RUNNING"
        /\ \A k \in Jobs \ {j} : jobs'[k] = jobs[k]
        /\ running_jobs' = [running_jobs EXCEPT
              ![TenantOf[j]] = ReleaseSlots(running_jobs[TenantOf[j]], 1)]
    BY <1>3, AcknowledgeRows DEF RowEnded
  <2> HIDE DEF j
  <2>2. CASE t = TenantOf[j]
    <3>1. RunningJobsOf(t)' = RunningJobsOf(t) \ {j} /\ {j} \in SUBSET RunningJobsOf(t)
      BY <2>1, <2>2 DEF RunningJobsOf
    <3>2. /\ ReleaseSlots(running_jobs[t], Cardinality({j})) = Cardinality(RunningJobsOf(t)')
          /\ Cardinality(RunningJobsOf(t)') <= running_jobs[t]
      BY <1>q, <3>1, SlotsReleased
    <3>3. Cardinality({j}) = 1
      BY FS_Singleton
    <3>4. Cardinality(RunningJobsOf(t)') \in Nat
      BY <3>1, RunningFinite, FS_RemoveElement, FS_CardinalityType
    <3>5. running_jobs'[t] = ReleaseSlots(running_jobs[t], 1)
      BY <1>t, <2>1, <2>2
    <3> QED
      BY <1>t, <1>q, <3>2, <3>3, <3>4, <3>5 DEF QuotaExactOf
  <2>3. CASE t # TenantOf[j]
    <3>1. RunningJobsOf(t)' = RunningJobsOf(t)
      BY <2>1, <2>3 DEF RunningJobsOf
    <3> QED
      BY <1>t, <1>q, <2>1, <2>3, <3>1 DEF QuotaExactOf
  <2> QED
    BY <2>2, <2>3
<1>4. ASSUME RecoverExpiredLeases PROVE QuotaExactOf(t)'
  <2>1. PICK S \in SUBSET Jobs :
           /\ \A j \in S : RowEnded(j)
           /\ \A k \in Jobs \ S : jobs'[k] = jobs[k]
           /\ running_jobs' = [u \in Tenants |->
                ReleaseSlots(running_jobs[u], Cardinality({j \in S : TenantOf[j] = u}))]
    BY <1>4, RecoverRows
  <2> DEFINE mine == {j \in S : TenantOf[j] = t}
  <2>2. RunningJobsOf(t)' = RunningJobsOf(t) \ mine /\ mine \in SUBSET RunningJobsOf(t)
    BY <2>1 DEF RunningJobsOf, RowEnded
  <2>3. running_jobs'[t] = ReleaseSlots(running_jobs[t], Cardinality(mine))
    BY <2>1
  <2> HIDE DEF mine
  <2>4. /\ ReleaseSlots(running_jobs[t], Cardinality(mine)) = Cardinality(RunningJobsOf(t)')
        /\ Cardinality(RunningJobsOf(t)') <= running_jobs[t]
    BY <1>q, <2>2, SlotsReleased
  <2>5. Cardinality(RunningJobsOf(t)') \in Nat
    <3>1. IsFiniteSet(RunningJobsOf(t)')
      BY <2>2, RunningFinite, FS_Subset
    <3> QED
      BY <3>1, FS_CardinalityType
  <2> QED
    BY <1>t, <1>q, <2>3, <2>4, <2>5 DEF QuotaExactOf
<1>5. ASSUME Tick PROVE QuotaExactOf(t)'
  BY <1>5, <1>s, TickRows DEF Tick, RowKept
<1>6. ASSUME NEW w \in Workers,
             \/ SelectCandidates(w) \/ HandlerReturns(w) \/ AckRejected(w)
             \/ SignalShutdown(w) \/ StopWorker(w) \/ CrashWorker(w) \/ StartWorker(w)
      PROVE  QuotaExactOf(t)'
  BY <1>6, <1>s DEF SelectCandidates, HandlerReturns, AckRejected,
                    SignalShutdown, StopWorker, CrashWorker, StartWorker
<1>7. ASSUME NEW w \in Workers, NEW j \in Jobs, ReservationFails(w, j) PROVE QuotaExactOf(t)'
  BY <1>7, <1>s DEF ReservationFails
<1>8. CASE UNCHANGED vars
  BY <1>8, <1>s DEF vars
<1> QED
  BY <1>1, <1>2, <1>3, <1>4, <1>5, <1>6, <1>7, <1>8 DEF Next, Claim, SettleAttempt

\* Initially nothing runs and nothing is locked.
LEMMA QuotaInit == Init => CandidatesInv /\ QuotaExact
<1> SUFFICES ASSUME Init PROVE CandidatesInv /\ QuotaExact
  OBVIOUS
<1>1. CandidatesInv
  BY IdleMemory DEF Init, CandidatesInv
<1>2. ASSUME NEW t \in Tenants
      PROVE  running_jobs[t] = Cardinality(RunningJobsOf(t)) /\ running_jobs[t] <= MaxRunningJobs[t]
  <2>1. RunningJobsOf(t) = {}
    BY DEF Init, RunningJobsOf, AbsentRow
  <2>2. running_jobs[t] = 0 /\ MaxRunningJobs[t] \in Nat
    BY JobQueueAssumption DEF Init
  <2> QED
    BY <2>1, <2>2, FS_EmptySet
<1> QED
  BY <1>1, <1>2 DEF QuotaExact

\* In every reachable state the quota counter of a tenant is the number of its running
\* jobs and at most its limit.
THEOREM QuotaCorrect == Spec => []QuotaExact
<1>1. Init => CandidatesInv /\ QuotaExact
  BY QuotaInit
<1>2. TypeInv /\ CandidatesInv /\ QuotaExact /\ [Next]_vars => (CandidatesInv /\ QuotaExact)'
  BY CandidatesStep, QuotaStep
<1> QED
  BY <1>1, <1>2, TypeInvariance, PTL DEF Spec

-----------------------------------------------------------------------------
(* Leases                                                                   *)

\* w works on an attempt, or believes it does.
Active(w) == worker[w].state \in {"executing", "acking"}

\* The attempt v works on is the one it worked on before.
ClaimKept(v) ==
  /\ Active(v)
  /\ worker'[v].job = worker[v].job
  /\ worker'[v].lease_id = worker[v].lease_id
  /\ worker'[v].attempts = worker[v].attempts

\* Only a claim starts an attempt: any other step leaves every worker with the attempt
\* it had or with none, and every job that runs after it under the lease it had.
LEMMA OnlyClaimsStart ==
  ASSUME TypeInv, [Next]_vars, ~\E w \in Workers, j \in Jobs : ClaimJob(w, j)
  PROVE  /\ leases_issued' = leases_issued
         /\ \A v \in Workers : Active(v)' => ClaimKept(v)
         /\ \A j \in Jobs : jobs'[j].status = "RUNNING" => RowKept(j)
<1> DEFINE Shape == /\ leases_issued' = leases_issued
                    /\ \A v \in Workers : Active(v)' => ClaimKept(v)
                    /\ \A j \in Jobs : jobs'[j].status = "RUNNING" => RowKept(j)
<1>t. worker \in [Workers -> WorkerMemory]
  BY DEF TypeInv, TypeOK
<1>f. ASSUME NEW w \in Workers, NEW memory, memory.state \notin {"executing", "acking"},
             worker' = [worker EXCEPT ![w] = memory]
      PROVE  \A v \in Workers : Active(v)' => ClaimKept(v)
  BY <1>f, <1>t DEF Active, ClaimKept
<1>1. ASSUME NEW j \in Jobs, SubmitJob(j) PROVE Shape
  BY <1>1, SubmitRows DEF SubmitJob, Active, ClaimKept, RowKept
<1>2. ASSUME NEW w \in Workers, SelectCandidates(w) PROVE Shape
  <2>1. PICK S \in SUBSET Claimable :
          worker' = [worker EXCEPT ![w] =
            [Idle EXCEPT !.state = "claiming", !.candidates = S,
                         !.new_lease_in = LeaseSeconds]]
    BY <1>2 DEF SelectCandidates
  <2>2. [Idle EXCEPT !.state = "claiming", !.candidates = S,
                     !.new_lease_in = LeaseSeconds].state = "claiming"
    BY DEF Idle
  <2>3. \A v \in Workers : Active(v)' => ClaimKept(v)
    BY <1>f, <2>1, <2>2
  <2> QED
    BY <1>2, <2>3 DEF SelectCandidates, RowKept
<1>3. ASSUME NEW w \in Workers, NEW j \in Jobs, ReservationFails(w, j) PROVE Shape
  <2>1. worker'[w].state \in {"idle", "claiming"} /\ \A v \in Workers \ {w} : worker'[v] = worker[v]
    <3>1. CASE worker[w].candidates = {j}
      BY <1>3, <1>t, <3>1, IdleMemory DEF ReservationFails
    <3>2. CASE worker[w].candidates # {j}
      <4>1. worker' = [worker EXCEPT ![w] =
                         [worker[w] EXCEPT !.candidates = worker[w].candidates \ {j}]]
        BY <1>3, <3>2 DEF ReservationFails
      <4>2. worker[w].state = "claiming"
        BY <1>3 DEF ReservationFails, NextCandidate
      <4> QED
        BY <1>t, <4>1, <4>2 DEF WorkerMemory
    <3> QED
      BY <3>1, <3>2
  <2> QED
    BY <1>3, <2>1 DEF ReservationFails, Active, ClaimKept, RowKept
<1>4. ASSUME NEW w \in Workers, HandlerReturns(w) PROVE Shape
  <2>1. /\ worker[w].state = "executing"
        /\ worker'[w].job = worker[w].job
        /\ worker'[w].lease_id = worker[w].lease_id
        /\ worker'[w].attempts = worker[w].attempts
        /\ \A v \in Workers \ {w} : worker'[v] = worker[v]
        /\ UNCHANGED <<jobs, leases_issued>>
    BY <1>4, <1>t DEF HandlerReturns, WorkerMemory
  <2> QED
    BY <2>1 DEF Active, ClaimKept, RowKept
<1>5. ASSUME NEW w \in Workers,
             MarkJobSucceeded(w) \/ ScheduleJobRetry(w) \/ MoveOwnedJobToDlq(w)
      PROVE  Shape
  <2>1. /\ jobs'[worker[w].job].status # "RUNNING"
        /\ \A k \in Jobs \ {worker[w].job} : jobs'[k] = jobs[k]
        /\ worker' = [worker EXCEPT ![w] = Idle]
        /\ UNCHANGED leases_issued
    BY <1>5, AcknowledgeRows DEF RowEnded
  <2>2. \A v \in Workers : Active(v)' => ClaimKept(v)
    BY <1>f, <2>1, IdleMemory
  <2> QED
    BY <2>1, <2>2 DEF RowKept
<1>6. ASSUME RecoverExpiredLeases PROVE Shape
  BY <1>6, RecoverRows DEF RowEnded, RowKept, Active, ClaimKept
<1>7. ASSUME Tick PROVE Shape
  <2>1. \A v \in Workers : /\ worker'[v].state = worker[v].state
                           /\ worker'[v].job = worker[v].job
                           /\ worker'[v].lease_id = worker[v].lease_id
                           /\ worker'[v].attempts = worker[v].attempts
    BY <1>7, <1>t DEF Tick, WorkerMemory
  <2> QED
    BY <1>7, <2>1, TickRows DEF Tick, Active, ClaimKept
<1>8. ASSUME NEW w \in Workers,
             AckRejected(w) \/ StopWorker(w) \/ CrashWorker(w) \/ StartWorker(w)
      PROVE  Shape
  <2>1. PICK memory \in {Idle, Down} : worker' = [worker EXCEPT ![w] = memory]
    BY <1>8 DEF AckRejected, StopWorker, CrashWorker, StartWorker
  <2>2. \A v \in Workers : Active(v)' => ClaimKept(v)
    BY <1>f, <2>1, IdleMemory
  <2> QED
    BY <1>8, <2>2 DEF AckRejected, StopWorker, CrashWorker, StartWorker, RowKept
<1>9. ASSUME NEW w \in Workers, SignalShutdown(w) PROVE Shape
  BY <1>9 DEF SignalShutdown, Active, ClaimKept, RowKept
<1>10. CASE UNCHANGED vars
  BY <1>10 DEF vars, Active, ClaimKept, RowKept
<1>11. Shape
  BY <1>1, <1>2, <1>3, <1>4, <1>5, <1>6, <1>7, <1>8, <1>9, <1>10
     DEF Next, Claim, SettleAttempt
<1> QED
  BY <1>11

\* Lease ids are drawn once: no running job and no worker has one larger than the last
\* drawn, and no two workers were given the same.
LeaseInv ==
  /\ \A j \in Jobs : jobs[j].status = "RUNNING" => jobs[j].lease_id <= leases_issued
  /\ \A w \in Workers : Active(w) => worker[w].lease_id <= leases_issued
  /\ \A v, w \in Workers :
       Active(v) /\ Active(w) /\ worker[v].lease_id = worker[w].lease_id => v = w

\* The attempt count a lease holder copied is the row's.
CopyInv ==
  \A j \in Jobs, w \in Workers :
    HoldsLease(w, j) => worker[w].attempts = jobs[j].attempts

\* A claim gives w a lease nobody had.
LEMMA ClaimMemory ==
  ASSUME TypeInv, NEW w \in Workers, NEW j \in Jobs, ClaimJob(w, j)
  PROVE  /\ leases_issued' = leases_issued + 1
         /\ worker'[w].job = j
         /\ worker'[w].lease_id = leases_issued + 1
         /\ worker'[w].attempts = jobs[j].attempts + 1
         /\ \A v \in Workers \ {w} : worker'[v] = worker[v]
BY DEF ClaimJob, NewLease, Idle, TypeInv, TypeOK

\* A claim keeps leases fresh and copies true; every other step keeps them because it
\* starts no attempt.
LEMMA LeaseStep ==
  TypeInv /\ CandidatesInv /\ LeaseInv /\ CopyInv /\ [Next]_vars => LeaseInv' /\ CopyInv'
<1> SUFFICES ASSUME TypeInv, CandidatesInv, LeaseInv, CopyInv, [Next]_vars
             PROVE  LeaseInv' /\ CopyInv'
  OBVIOUS
<1>t. /\ leases_issued \in Nat
      /\ \A w \in Workers : worker[w].lease_id \in Nat
      /\ \A j \in Jobs : jobs[j].lease_id \in Nat
  BY DEF TypeInv, TypeOK, WorkerMemory, JobRow
<1>1. ASSUME NEW w \in Workers, NEW j \in Jobs, ClaimJob(w, j)
      PROVE  LeaseInv' /\ CopyInv'
  <2>1. /\ jobs'[j].attempts = jobs[j].attempts + 1
        /\ jobs'[j].lease_id = leases_issued + 1
        /\ \A k \in Jobs \ {j} : jobs'[k] = jobs[k]
    BY <1>1, ClaimRows
  <2>2. /\ leases_issued' = leases_issued + 1
        /\ worker'[w].job = j
        /\ worker'[w].lease_id = leases_issued + 1
        /\ worker'[w].attempts = jobs[j].attempts + 1
        /\ \A v \in Workers \ {w} : worker'[v] = worker[v]
    BY <1>1, ClaimMemory
  <2>3. \A v \in Workers \ {w} :
          Active(v)' => Active(v) /\ worker'[v].lease_id <= leases_issued
    BY <2>2 DEF Active, LeaseInv
  <2>4. LeaseInv'
    BY <1>t, <2>1, <2>2, <2>3 DEF LeaseInv, Active
  <2>5. ASSUME NEW k \in Jobs, NEW v \in Workers, HoldsLease(v, k)'
        PROVE  worker'[v].attempts = jobs'[k].attempts
    <3>1. CASE v = w
      BY <2>1, <2>2, <2>5, <3>1 DEF HoldsLease
    <3>2. CASE v # w
      <4>1. worker'[v] = worker[v] /\ worker'[v].lease_id <= leases_issued
        BY <2>2, <2>3, <2>5, <3>2 DEF HoldsLease, Active
      <4>2. k # j
        BY <1>t, <2>1, <2>5, <4>1 DEF HoldsLease
      <4> QED
        BY <2>1, <2>5, <4>1, <4>2 DEF HoldsLease, CopyInv
    <3> QED
      BY <3>1, <3>2
  <2> QED
    BY <2>4, <2>5 DEF CopyInv
<1>2. ASSUME ~\E w \in Workers, j \in Jobs : ClaimJob(w, j)
      PROVE  LeaseInv' /\ CopyInv'
  <2>1. /\ leases_issued' = leases_issued
        /\ \A v \in Workers : Active(v)' => ClaimKept(v)
        /\ \A j \in Jobs : jobs'[j].status = "RUNNING" => RowKept(j)
    BY <1>2, OnlyClaimsStart
  <2>2. LeaseInv'
    BY <2>1 DEF LeaseInv, ClaimKept, RowKept
  <2>3. ASSUME NEW j \in Jobs, NEW w \in Workers, HoldsLease(w, j)'
        PROVE  HoldsLease(w, j) /\ worker'[w].attempts = jobs'[j].attempts
    BY <2>1, <2>3 DEF HoldsLease, Active, ClaimKept, RowKept, CopyInv
  <2> QED
    BY <2>2, <2>3 DEF CopyInv
<1> QED
  BY <1>1, <1>2

\* Initially there is no lease.
LEMMA LeaseInit == Init => LeaseInv /\ CopyInv
BY DEF Init, LeaseInv, CopyInv, HoldsLease, Active, Idle, AbsentRow

\* In every reachable state at most one worker, among all that ever claimed a job, holds
\* its lease, and the attempt count it copied when it claimed is the row's.
THEOREM LeaseHolderUnique == Spec => []OneLeaseHolder
<1>1. Init => CandidatesInv /\ LeaseInv /\ CopyInv
  BY QuotaInit, LeaseInit
<1>2. TypeInv /\ CandidatesInv /\ LeaseInv /\ CopyInv /\ [Next]_vars
        => (CandidatesInv /\ LeaseInv /\ CopyInv)'
  BY CandidatesStep, LeaseStep
<1>3. LeaseInv /\ CopyInv => OneLeaseHolder
  BY DEF LeaseInv, CopyInv, OneLeaseHolder, HoldsLease, Active
<1> QED
  BY <1>1, <1>2, <1>3, TypeInvariance, PTL DEF Spec

-----------------------------------------------------------------------------
(* What a step can do to one job                                            *)

\* Nothing but time passes for j.
JobKept(j) ==
  /\ RowKept(j)
  /\ dead_letter_jobs'[j] = dead_letter_jobs[j]
  /\ job_events'[j] = job_events[j]

\* w acknowledges its attempt of j.
AttemptAcknowledged(w, j) ==
  /\ worker[w].job = j
  /\ MarkJobSucceeded(w) \/ ScheduleJobRetry(w) \/ MoveOwnedJobToDlq(w)

\* The reaper ends the attempt of j.
AttemptTimedOut(j) ==
  /\ RowEnded(j)
  /\ jobs[j].lease_expires_in < 0
  /\ job_events'[j] = Append(job_events[j], TimeoutEvents(j))
  /\ jobs[j].attempts >= MaxAttempts =>
       /\ jobs'[j].status = "DEAD_LETTERED"
       /\ jobs'[j].last_error = "lease_expired"
       /\ dead_letter_jobs'[j] = InsertDeadLetter(j, "lease_expired")
  /\ ~(jobs[j].attempts >= MaxAttempts) =>
       /\ jobs'[j].status = "PENDING"
       /\ dead_letter_jobs'[j] = dead_letter_jobs[j]

\* A step keeps a job, submits it, claims it, acknowledges it or times it out.
LEMMA JobSteps ==
  ASSUME TypeInv, CandidatesInv, [Next]_vars, NEW j \in Jobs
  PROVE  \/ JobKept(j)
         \/ SubmitJob(j)
         \/ \E w \in Workers : ClaimJob(w, j)
         \/ \E w \in Workers : AttemptAcknowledged(w, j)
         \/ AttemptTimedOut(j)
<1> DEFINE Shape == \/ JobKept(j)
                    \/ SubmitJob(j)
                    \/ \E w \in Workers : ClaimJob(w, j)
                    \/ \E w \in Workers : AttemptAcknowledged(w, j)
                    \/ AttemptTimedOut(j)
<1>t. /\ dead_letter_jobs \in [Jobs -> DeadLetterRow]
      /\ DOMAIN job_events = Jobs
  BY DEF TypeInv, TypeOK
<1>s. ASSUME jobs'[j] = jobs[j], dead_letter_jobs'[j] = dead_letter_jobs[j],
             job_events'[j] = job_events[j]
      PROVE  Shape
  BY <1>s DEF JobKept, RowKept
<1>1. ASSUME NEW k \in Jobs, SubmitJob(k) PROVE Shape
  BY <1>1, <1>s, <1>t, SubmitRows DEF SubmitJob
<1>2. ASSUME NEW w \in Workers, NEW k \in Jobs, ClaimJob(w, k) PROVE Shape
  <2>1. CASE k = j
    BY <1>2, <2>1
  <2>2. CASE k # j
    <3>1. jobs'[j] = jobs[j]
      BY <1>2, <2>2, ClaimRows
    <3>2. job_events'[j] = job_events[j] /\ dead_letter_jobs'[j] = dead_letter_jobs[j]
      BY <1>2, <1>t, <2>2 DEF ClaimJob
    <3> QED
      BY <1>s, <3>1, <3>2
  <2> QED
    BY <2>1, <2>2
<1>3. ASSUME NEW w \in Workers,
             MarkJobSucceeded(w) \/ ScheduleJobRetry(w) \/ MoveOwnedJobToDlq(w)
      PROVE  Shape
  <2>1. CASE worker[w].job = j
    BY <1>3, <2>1 DEF AttemptAcknowledged
  <2>2. CASE worker[w].job # j
    <3>1. jobs'[j] = jobs[j]
      BY <1>3, <2>2, AcknowledgeRows
    <3>2. job_events'[j] = job_events[j]
      BY <1>3, <1>t, <2>2 DEF MarkJobSucceeded, ScheduleJobRetry, MoveOwnedJobToDlq,
                              Acknowledge
    <3>3. dead_letter_jobs'[j] = dead_letter_jobs[j]
      BY <1>3, <1>t, <2>2 DEF MarkJobSucceeded, ScheduleJobRetry, MoveOwnedJobToDlq
    <3> QED
      BY <1>s, <3>1, <3>2, <3>3
  <2> QED
    BY <2>1, <2>2
<1>4. ASSUME RecoverExpiredLeases PROVE Shape
  <2>1. PICK S \in SUBSET Jobs :
           /\ \A k \in S : /\ RowEnded(k)
                           /\ jobs[k].lease_expires_in < 0
                           /\ jobs[k].attempts >= MaxAttempts =>
                                /\ jobs'[k].status = "DEAD_LETTERED"
                                /\ jobs'[k].last_error = "lease_expired"
                           /\ ~(jobs[k].attempts >= MaxAttempts) =>
                                jobs'[k].status = "PENDING"
           /\ \A k \in Jobs \ S : jobs'[k] = jobs[k]
           /\ dead_letter_jobs' = [k \in Jobs |->
                IF k \in S /\ jobs[k].attempts >= MaxAttempts
                  THEN InsertDeadLetter(k, "lease_expired") ELSE dead_letter_jobs[k]]
           /\ job_events' = [k \in Jobs |->
                IF k \in S THEN Append(job_events[k], TimeoutEvents(k)) ELSE job_events[k]]
    BY <1>4, RecoverRows
  <2>2. CASE j \in S
    BY <2>1, <2>2 DEF AttemptTimedOut
  <2>3. CASE j \notin S
    BY <1>s, <2>1, <2>3
  <2> QED
    BY <2>2, <2>3
<1>5. ASSUME Tick PROVE Shape
  BY <1>5, TickRows DEF Tick, JobKept
<1>6. ASSUME NEW w \in Workers,
             \/ SelectCandidates(w) \/ HandlerReturns(w) \/ AckRejected(w)
             \/ SignalShutdown(w) \/ StopWorker(w) \/ CrashWorker(w) \/ StartWorker(w)
      PROVE  Shape
  BY <1>6, <1>s DEF SelectCandidates, HandlerReturns, AckRejected,
                    SignalShutdown, StopWorker, CrashWorker, StartWorker
<1>7. ASSUME NEW w \in Workers, NEW k \in Jobs, ReservationFails(w, k) PROVE Shape
  BY <1>7, <1>s DEF ReservationFails
<1>8. CASE UNCHANGED vars
  BY <1>8, <1>s DEF vars
<1>9. Shape
  BY <1>1, <1>2, <1>3, <1>4, <1>5, <1>6, <1>7, <1>8 DEF Next, Claim, SettleAttempt
<1> QED
  BY <1>9

-----------------------------------------------------------------------------
(* Attempts and dead letters                                                *)

\* What a row's attempts, dead letter and run_after are in each status.
RowOK(j) ==
  /\ jobs[j].attempts <= MaxAttempts
  /\ jobs[j].status = "ABSENT" => jobs[j].attempts = 0
  /\ jobs[j].status = "PENDING" => jobs[j].attempts < MaxAttempts
  /\ jobs[j].status \in {"RUNNING", "DEAD_LETTERED"} => jobs[j].attempts > 0
  /\ jobs[j].status # "PENDING" => jobs[j].run_after_in = 0
  /\ jobs[j].status = "DEAD_LETTERED" =>
       dead_letter_jobs[j] = [attempts    |-> jobs[j].attempts,
                              final_error |-> jobs[j].last_error]
  /\ jobs[j].status # "DEAD_LETTERED" => dead_letter_jobs[j] = NoDeadLetter

RowInv == \A j \in Jobs : RowOK(j)

\* What an acknowledgement does to the job, whose attempt count is the worker's copy:
\* it requeues only with an attempt left, and it writes the dead letter exactly when it
\* dead-letters.
LEMMA AcknowledgedAttempt ==
  ASSUME TypeInv, CopyInv, RowInv, NEW j \in Jobs, NEW w \in Workers,
         AttemptAcknowledged(w, j)
  PROVE  /\ RowEnded(j)
         /\ jobs'[j].status = "PENDING" => jobs[j].attempts < MaxAttempts
         /\ jobs'[j].status = "DEAD_LETTERED" =>
              dead_letter_jobs'[j] = [attempts    |-> jobs[j].attempts,
                                      final_error |-> jobs'[j].last_error]
         /\ jobs'[j].status # "DEAD_LETTERED" => dead_letter_jobs'[j] = dead_letter_jobs[j]
<1>1. /\ worker[w].job = j /\ HoldsLease(w, j) /\ RowEnded(j)
      /\ MarkJobSucceeded(w) => jobs'[j].status = "SUCCEEDED"
      /\ ScheduleJobRetry(w) => jobs'[j].status = "PENDING"
      /\ MoveOwnedJobToDlq(w) => /\ jobs'[j].status = "DEAD_LETTERED"
                                 /\ jobs'[j].last_error = "handler_error"
      /\ MarkJobSucceeded(w) \/ ScheduleJobRetry(w) \/ MoveOwnedJobToDlq(w)
  BY AcknowledgeRows DEF AttemptAcknowledged
<1>2. worker[w].attempts = jobs[j].attempts
      /\ jobs[j].attempts \in Nat /\ MaxAttempts \in Nat
  BY <1>1, JobQueueAssumption DEF CopyInv, TypeInv, TypeOK, JobRow
<1>3. ScheduleJobRetry(w) => jobs[j].attempts < MaxAttempts
  BY <1>2 DEF ScheduleJobRetry, AttemptsExhausted
<1>4. jobs[j].status = "RUNNING" /\ dead_letter_jobs[j] = NoDeadLetter
  BY <1>1 DEF RowEnded, RowInv, RowOK
<1>5. MoveOwnedJobToDlq(w) =>
        dead_letter_jobs'[j] = [attempts    |-> jobs[j].attempts,
                                final_error |-> "handler_error"]
  BY <1>1, <1>4 DEF MoveOwnedJobToDlq, InsertDeadLetter, TypeInv, TypeOK
<1>6. MarkJobSucceeded(w) \/ ScheduleJobRetry(w) => dead_letter_jobs' = dead_letter_jobs
  BY DEF MarkJobSucceeded, ScheduleJobRetry
<1> QED
  BY <1>1, <1>3, <1>5, <1>6

\* Every step keeps RowInv.
LEMMA RowStep ==
  TypeInv /\ CandidatesInv /\ CopyInv /\ RowInv /\ [Next]_vars => RowInv'
<1> SUFFICES ASSUME TypeInv, CandidatesInv, CopyInv, RowInv, [Next]_vars, NEW j \in Jobs
             PROVE  RowOK(j)'
  BY DEF RowInv
<1>t. /\ jobs[j].attempts \in Nat /\ MaxAttempts \in Nat /\ MaxAttempts > 0
      /\ RowOK(j)
  BY JobQueueAssumption DEF TypeInv, TypeOK, JobRow, RowInv
<1>1. CASE JobKept(j)
  BY <1>1, <1>t DEF JobKept, RowKept, RowOK
<1>2. CASE SubmitJob(j)
  <2>1. dead_letter_jobs' = dead_letter_jobs
    BY <1>2 DEF SubmitJob
  <2> QED
    BY <1>2, <1>t, <2>1, SubmitRows DEF RowOK
<1>3. ASSUME NEW w \in Workers, ClaimJob(w, j) PROVE RowOK(j)'
  <2>1. dead_letter_jobs' = dead_letter_jobs
    BY <1>3 DEF ClaimJob
  <2>2. /\ jobs[j].status = "PENDING" /\ jobs'[j].status = "RUNNING"
        /\ jobs'[j].attempts = jobs[j].attempts + 1
        /\ jobs'[j].run_after_in = 0
    BY <1>3, ClaimRows
  <2> QED
    BY <1>t, <2>1, <2>2 DEF RowOK
<1>4. ASSUME NEW w \in Workers, AttemptAcknowledged(w, j) PROVE RowOK(j)'
  <2>1. /\ RowEnded(j)
        /\ jobs'[j].status = "PENDING" => jobs[j].attempts < MaxAttempts
        /\ jobs'[j].status = "DEAD_LETTERED" =>
             dead_letter_jobs'[j] = [attempts    |-> jobs[j].attempts,
                                     final_error |-> jobs'[j].last_error]
        /\ jobs'[j].status # "DEAD_LETTERED" => dead_letter_jobs'[j] = dead_letter_jobs[j]
    BY <1>4, AcknowledgedAttempt
  <2> QED
    BY <1>t, <2>1 DEF RowOK, RowEnded
<1>5. ASSUME AttemptTimedOut(j) PROVE RowOK(j)'
  <2>1. /\ RowEnded(j) /\ dead_letter_jobs[j] = NoDeadLetter
    BY <1>5, <1>t DEF AttemptTimedOut, RowEnded, RowOK
  <2>2. CASE jobs[j].attempts >= MaxAttempts
    <3>1. /\ jobs'[j].status = "DEAD_LETTERED"
          /\ jobs'[j].last_error = "lease_expired"
          /\ dead_letter_jobs'[j] = [attempts    |-> jobs[j].attempts,
                                     final_error |-> "lease_expired"]
      BY <1>5, <2>1, <2>2 DEF AttemptTimedOut, InsertDeadLetter
    <3> QED
      BY <1>t, <2>1, <3>1 DEF RowOK, RowEnded
  <2>3. CASE ~(jobs[j].attempts >= MaxAttempts)
    <3>1. /\ jobs'[j].status = "PENDING"
          /\ dead_letter_jobs'[j] = dead_letter_jobs[j]
      BY <1>5, <2>3 DEF AttemptTimedOut
    <3> QED
      BY <1>t, <2>1, <2>3, <3>1 DEF RowOK, RowEnded
  <2> QED
    BY <2>2, <2>3
<1> QED
  BY <1>1, <1>2, <1>3, <1>4, <1>5, JobSteps

\* Initially every row is absent.
LEMMA RowInit == Init => RowInv
BY JobQueueAssumption DEF Init, RowInv, RowOK, AbsentRow

\* The inductive invariant of the queue.
QueueInv == TypeInv /\ CandidatesInv /\ LeaseInv /\ CopyInv /\ RowInv

LEMMA QueueInvariance == Spec => []QueueInv
<1>1. Init => QueueInv
  BY TypeInit, QuotaInit, LeaseInit, RowInit DEF QueueInv
<1>2. QueueInv /\ [Next]_vars => QueueInv'
  BY TypeStep, CandidatesStep, LeaseStep, RowStep DEF QueueInv
<1> QED
  BY <1>1, <1>2, PTL DEF Spec

\* In every reachable state no job was attempted more than MaxAttempts times and a
\* pending one has an attempt left.
THEOREM AttemptsBounded == Spec => []AttemptsBudget
<1>1. QueueInv => AttemptsBudget
  BY DEF QueueInv, RowInv, RowOK, AttemptsBudget
<1> QED
  BY <1>1, QueueInvariance, PTL

\* In every reachable state the dead-letter table has a row for exactly the dead-lettered
\* jobs, and it agrees with the job.
THEOREM DeadLettersCorrect == Spec => []DeadLettersMatchJobs
<1>1. QueueInv => DeadLettersMatchJobs
  <2> SUFFICES ASSUME QueueInv, NEW j \in Jobs
               PROVE  /\ (jobs[j].status = "DEAD_LETTERED") <=>
                           (dead_letter_jobs[j] # NoDeadLetter)
                      /\ jobs[j].status = "DEAD_LETTERED" =>
                           /\ dead_letter_jobs[j].attempts = jobs[j].attempts
                           /\ dead_letter_jobs[j].final_error = jobs[j].last_error
    BY DEF DeadLettersMatchJobs
  <2>1. CASE jobs[j].status = "DEAD_LETTERED"
    <3>1. jobs[j].attempts \in Nat /\ jobs[j].attempts > 0
      BY <2>1 DEF QueueInv, TypeInv, TypeOK, JobRow, RowInv, RowOK
    <3>2. dead_letter_jobs[j] = [attempts    |-> jobs[j].attempts,
                                 final_error |-> jobs[j].last_error]
      BY <2>1 DEF QueueInv, RowInv, RowOK
    <3>3. dead_letter_jobs[j].attempts # NoDeadLetter.attempts
      BY <3>1, <3>2 DEF NoDeadLetter
    <3> QED
      BY <2>1, <3>2, <3>3
  <2>2. CASE jobs[j].status # "DEAD_LETTERED"
    BY <2>2 DEF QueueInv, RowInv, RowOK
  <2> QED
    BY <2>1, <2>2
<1> QED
  BY <1>1, QueueInvariance, PTL

\* No step changes the row, the dead letter or the history of a settled job.
THEOREM SettledStays == Spec => SettledForever
<1>1. QueueInv /\ [Next]_vars =>
        \A j \in Jobs : jobs[j].status \in Terminal =>
          /\ jobs'[j] = jobs[j]
          /\ dead_letter_jobs'[j] = dead_letter_jobs[j]
          /\ job_events'[j] = job_events[j]
  <2> SUFFICES ASSUME QueueInv, [Next]_vars, NEW j \in Jobs, jobs[j].status \in Terminal
               PROVE  /\ jobs'[j] = jobs[j]
                      /\ dead_letter_jobs'[j] = dead_letter_jobs[j]
                      /\ job_events'[j] = job_events[j]
    OBVIOUS
  <2>1. jobs[j].status \notin {"ABSENT", "PENDING", "RUNNING"} /\ jobs[j].run_after_in = 0
    BY DEF QueueInv, RowInv, RowOK, Terminal
  <2>2. ~SubmitJob(j) /\ ~AttemptTimedOut(j)
    BY <2>1 DEF SubmitJob, AttemptTimedOut, RowEnded
  <2>3. \A w \in Workers : ~ClaimJob(w, j)
    BY <2>1, ClaimRows DEF QueueInv
  <2>4. \A w \in Workers : ~AttemptAcknowledged(w, j)
    BY <2>1, AcknowledgedAttempt DEF QueueInv, RowEnded
  <2>5. JobKept(j)
    BY <2>2, <2>3, <2>4, JobSteps DEF QueueInv
  <2> QED
    BY <2>1, <2>5 DEF JobKept, RowKept
<1>2. QueueInv /\ [Next]_vars =>
        [\A j \in Jobs : jobs[j].status \in Terminal =>
          /\ jobs'[j] = jobs[j]
          /\ dead_letter_jobs'[j] = dead_letter_jobs[j]
          /\ job_events'[j] = job_events[j]]_vars
  BY <1>1
<1> QED
  BY <1>2, QueueInvariance, PTL DEF Spec, SettledForever

-----------------------------------------------------------------------------
(* The history of a job                                                     *)

\* The transactions of a history with an event of these types for this attempt.
Matching(h, types, k) ==
  {i \in DOMAIN h : \E e \in h[i] : e.event_type \in types /\ e.attempt = k}

\* The transitions chain from the submission to the status.
Chained(h, status) ==
  /\ status = "ABSENT" <=> h = <<>>
  /\ \A i \in DOMAIN h :
       StartsFrom(h[i]) = IF i = 1 THEN {"ABSENT"} ELSE LeadsTo(h[i - 1])
  /\ h # <<>> => LeadsTo(h[Len(h)]) = {status}

\* What HistoryExplainsJob says of one job.
Explains(h, status, attempts) ==
  /\ Chained(h, status)
  /\ \A k \in 1..attempts :
       /\ Cardinality(Matching(h, {"CLAIMED"}, k)) = 1
       /\ Cardinality(Matching(h, EndOfAttempt, k)) =
            IF status = "RUNNING" /\ k = attempts THEN 0 ELSE 1
  /\ \A i \in DOMAIN h : \A e \in h[i] : e.attempt <= attempts

HistoryInv == \A j \in Jobs : Explains(job_events[j], jobs[j].status, jobs[j].attempts)

\* One transaction's events E lead from one status to another, whatever their order.
Leads(E, from, to) ==
  /\ StartsFrom(E) = {from}
  /\ LeadsTo(E) = {to}

\* A single event leads from its one status to the other.
LEMMA OneEventLeads ==
  ASSUME NEW e \in JobEvent, e.from_status # e.to_status
  PROVE  Leads({e}, e.from_status, e.to_status)
BY DEF Leads, StartsFrom, LeadsTo

\* An added transaction chains if it starts at the status the history ended in.
LEMMA ChainGrows ==
  ASSUME NEW h \in Seq(SUBSET JobEvent), NEW status, Chained(h, status),
         NEW E \in SUBSET JobEvent, NEW to, Leads(E, status, to), to # "ABSENT"
  PROVE  Chained(Append(h, E), to)
<1>1. /\ Len(h) \in Nat /\ DOMAIN h = 1..Len(h)
      /\ Len(Append(h, E)) = Len(h) + 1
      /\ DOMAIN Append(h, E) = 1..(Len(h) + 1)
      /\ \A i \in 1..Len(h) : Append(h, E)[i] = h[i]
      /\ Append(h, E)[Len(h) + 1] = E
  OBVIOUS
<1>2. Append(h, E) # <<>>
  BY <1>1
<1>3. h = <<>> <=> Len(h) = 0
  OBVIOUS
<1>4. ASSUME NEW i \in 1..(Len(h) + 1)
      PROVE  StartsFrom(Append(h, E)[i]) =
               IF i = 1 THEN {"ABSENT"} ELSE LeadsTo(Append(h, E)[i - 1])
  <2>1. CASE i \in 1..Len(h)
    <3>1. Append(h, E)[i] = h[i] /\ (i # 1 => i - 1 \in 1..Len(h))
      BY <1>1, <2>1
    <3> QED
      BY <1>1, <2>1, <3>1 DEF Chained
  <2>2. CASE i = Len(h) + 1
    <3>1. CASE i = 1
      <4>1. Len(h) = 0
        BY <1>1, <2>2, <3>1
      <4>2. status = "ABSENT"
        BY <1>3, <4>1 DEF Chained
      <4> QED
        BY <1>1, <2>2, <3>1, <4>2 DEF Leads
    <3>2. CASE i # 1
      <4>1. Len(h) \in 1..Len(h) /\ i - 1 = Len(h) /\ h # <<>>
        BY <1>1, <1>3, <2>2, <3>2
      <4>2. Append(h, E)[i - 1] = h[Len(h)] /\ Append(h, E)[i] = E
        BY <1>1, <2>2, <4>1
      <4> QED
        BY <3>2, <4>1, <4>2 DEF Chained, Leads
    <3> QED
      BY <3>1, <3>2
  <2> QED
    BY <1>1, <2>1, <2>2
<1> QED
  BY <1>1, <1>2, <1>4 DEF Chained, Leads

\* It adds one to the counts of its events' types and attempts, and nothing to the others.
LEMMA CountGrows ==
  ASSUME NEW h \in Seq(SUBSET JobEvent), NEW E \in SUBSET JobEvent, NEW types, NEW k
  PROVE  /\ Cardinality(Matching(h, types, k)) \in Nat
         /\ (\E e \in E : e.event_type \in types /\ e.attempt = k) =>
              Cardinality(Matching(Append(h, E), types, k)) =
                Cardinality(Matching(h, types, k)) + 1
         /\ (\A e \in E : ~(e.event_type \in types /\ e.attempt = k)) =>
              Cardinality(Matching(Append(h, E), types, k)) =
                Cardinality(Matching(h, types, k))
<1> DEFINE M == Matching(h, types, k)
           M2 == Matching(Append(h, E), types, k)
           Adds == \E e \in E : e.event_type \in types /\ e.attempt = k
<1>1. /\ Len(h) \in Nat /\ DOMAIN h = 1..Len(h)
      /\ DOMAIN Append(h, E) = 1..(Len(h) + 1)
      /\ \A i \in 1..Len(h) : Append(h, E)[i] = h[i]
      /\ Append(h, E)[Len(h) + 1] = E
  OBVIOUS
<1>2. M \subseteq 1..Len(h) /\ Len(h) + 1 \notin M
  BY <1>1 DEF Matching
<1>3. IsFiniteSet(1..Len(h))
  BY <1>1, FS_Interval
<1>4. IsFiniteSet(M)
  BY <1>2, <1>3, FS_Subset
<1>5. Cardinality(M) \in Nat
  BY <1>4, FS_CardinalityType
<1>6. CASE Adds
  <2>1. M2 = M \cup {Len(h) + 1}
    BY <1>1, <1>6 DEF Matching
  <2> HIDE DEF M, M2
  <2>2. Cardinality(M2) = Cardinality(M) + 1
    BY <1>2, <1>4, <2>1, FS_AddElement
  <2> QED
    BY <1>5, <1>6, <2>2 DEF M, M2
<1>7. CASE ~Adds
  <2>1. M2 = M
    BY <1>1, <1>7 DEF Matching
  <2> QED
    BY <1>5, <1>7, <2>1
<1> QED
  BY <1>6, <1>7

LEMMA CountRises ==
  ASSUME NEW h \in Seq(SUBSET JobEvent), NEW E \in SUBSET JobEvent, NEW types, NEW k,
         \E e \in E : e.event_type \in types /\ e.attempt = k
  PROVE  Cardinality(Matching(Append(h, E), types, k)) =
           Cardinality(Matching(h, types, k)) + 1
BY CountGrows

LEMMA CountStays ==
  ASSUME NEW h \in Seq(SUBSET JobEvent), NEW E \in SUBSET JobEvent, NEW types, NEW k,
         \A e \in E : ~(e.event_type \in types /\ e.attempt = k)
  PROVE  Cardinality(Matching(Append(h, E), types, k)) =
           Cardinality(Matching(h, types, k))
BY CountGrows

\* No event is for an attempt that has not begun.
LEMMA NothingForLater ==
  ASSUME NEW h \in Seq(SUBSET JobEvent), NEW types, NEW a \in Nat,
         \A i \in DOMAIN h : \A e \in h[i] : e.attempt <= a
  PROVE  Cardinality(Matching(h, types, a + 1)) = 0
<1>1. \A i \in DOMAIN h : \A e \in h[i] : e.attempt \in Nat
  <2>1. \A i \in DOMAIN h : h[i] \in SUBSET JobEvent
    OBVIOUS
  <2> QED
    BY <2>1 DEF JobEvent
<1>2. Matching(h, types, a + 1) = {}
  BY <1>1 DEF Matching
<1> QED
  BY <1>2, FS_EmptySet

LEMMA AttemptsGrow ==
  ASSUME NEW h \in Seq(SUBSET JobEvent), NEW E \in SUBSET JobEvent, NEW a \in Nat, NEW b \in Nat,
         \A i \in DOMAIN h : \A e \in h[i] : e.attempt <= a, a <= b,
         \A e \in E : e.attempt <= b
  PROVE  \A i \in DOMAIN Append(h, E) : \A e \in Append(h, E)[i] : e.attempt <= b
<1>1. /\ Len(h) \in Nat /\ DOMAIN h = 1..Len(h)
      /\ DOMAIN Append(h, E) = 1..(Len(h) + 1)
      /\ \A i \in 1..Len(h) : Append(h, E)[i] = h[i]
      /\ Append(h, E)[Len(h) + 1] = E
  OBVIOUS
<1>2. \A i \in DOMAIN h : \A e \in h[i] : e.attempt \in Nat
  <2>1. \A i \in DOMAIN h : h[i] \in SUBSET JobEvent
    OBVIOUS
  <2> QED
    BY <2>1 DEF JobEvent
<1>3. ASSUME NEW i \in DOMAIN h, NEW e \in h[i] PROVE e.attempt <= b
  BY <1>2, <1>3
<1> QED
  BY <1>1, <1>3

\* A claim begins the next attempt.
LEMMA ClaimExplained ==
  ASSUME NEW h \in Seq(SUBSET JobEvent), NEW a \in Nat, Explains(h, "PENDING", a),
         NEW e \in JobEvent, e.event_type = "CLAIMED", e.from_status = "PENDING",
         e.to_status = "RUNNING", e.attempt = a + 1
  PROVE  Explains(Append(h, {e}), "RUNNING", a + 1)
<1>1. Chained(Append(h, {e}), "RUNNING")
  BY ChainGrows, OneEventLeads DEF Explains
<1>2. \A i \in DOMAIN Append(h, {e}) : \A f \in Append(h, {e})[i] : f.attempt <= a + 1
  <2>1. \A f \in {e} : f.attempt <= a + 1
    OBVIOUS
  <2>2. {e} \in SUBSET JobEvent /\ a + 1 \in Nat /\ a <= a + 1
    OBVIOUS
  <2>3. \A i \in DOMAIN h : \A f \in h[i] : f.attempt <= a
    BY DEF Explains
  <2> QED
    BY <2>1, <2>2, <2>3, AttemptsGrow
<1>3. ASSUME NEW k \in 1..(a + 1)
      PROVE  /\ Cardinality(Matching(Append(h, {e}), {"CLAIMED"}, k)) = 1
             /\ Cardinality(Matching(Append(h, {e}), EndOfAttempt, k)) =
                  IF k = a + 1 THEN 0 ELSE 1
  <2>1. "CLAIMED" \notin EndOfAttempt
    BY DEF EndOfAttempt
  <2>c. Cardinality(Matching(Append(h, {e}), EndOfAttempt, k)) =
          Cardinality(Matching(h, EndOfAttempt, k))
    <3>1. {e} \in SUBSET JobEvent
      OBVIOUS
    <3>2. \A f \in {e} : ~(f.event_type \in EndOfAttempt /\ f.attempt = k)
      BY <2>1
    <3> QED
      BY <3>1, <3>2, CountGrows
  <2>2. CASE k = a + 1
    <3>1. /\ Cardinality(Matching(h, {"CLAIMED"}, k)) = 0
          /\ Cardinality(Matching(h, EndOfAttempt, k)) = 0
      BY <2>2, NothingForLater DEF Explains
    <3>2. Cardinality(Matching(Append(h, {e}), {"CLAIMED"}, k)) = 0 + 1
      <4>1. {e} \in SUBSET JobEvent
        OBVIOUS
      <4>2. \E f \in {e} : f.event_type \in {"CLAIMED"} /\ f.attempt = k
        BY <2>2
      <4>3. Cardinality(Matching(Append(h, {e}), {"CLAIMED"}, k)) =
              Cardinality(Matching(h, {"CLAIMED"}, k)) + 1
        BY <4>1, <4>2, CountGrows
      <4> QED
        BY <3>1, <4>3
    <3> QED
      BY <2>2, <2>c, <3>1, <3>2
  <2>3. CASE k # a + 1
    <3>1. /\ Cardinality(Matching(h, {"CLAIMED"}, k)) = 1
          /\ Cardinality(Matching(h, EndOfAttempt, k)) = 1
      BY <2>3 DEF Explains
    <3>2. Cardinality(Matching(Append(h, {e}), {"CLAIMED"}, k)) =
            Cardinality(Matching(h, {"CLAIMED"}, k))
      <4>1. {e} \in SUBSET JobEvent
        OBVIOUS
      <4>2. \A f \in {e} : ~(f.event_type \in {"CLAIMED"} /\ f.attempt = k)
        BY <2>3
      <4> QED
        BY <4>1, <4>2, CountGrows
    <3> QED
      BY <2>3, <2>c, <3>1, <3>2
  <2> QED
    BY <2>2, <2>3
<1> QED
  BY <1>1, <1>2, <1>3 DEF Explains

\* Events that end attempt a, and no other, add to the count of its ends only.
LEMMA EndCounted ==
  ASSUME NEW h \in Seq(SUBSET JobEvent), NEW E \in SUBSET JobEvent, NEW a \in Nat, NEW k \in 1..a,
         \E e \in E : e.event_type \in EndOfAttempt,
         \A e \in E : e.event_type # "CLAIMED" /\ e.attempt = a
  PROVE  /\ Cardinality(Matching(Append(h, E), {"CLAIMED"}, k)) =
              Cardinality(Matching(h, {"CLAIMED"}, k))
         /\ k = a => Cardinality(Matching(Append(h, E), EndOfAttempt, k)) =
                       Cardinality(Matching(h, EndOfAttempt, k)) + 1
         /\ k # a => Cardinality(Matching(Append(h, E), EndOfAttempt, k)) =
                       Cardinality(Matching(h, EndOfAttempt, k))
<1>1. \A e \in E : ~(e.event_type \in {"CLAIMED"} /\ e.attempt = k)
  OBVIOUS
<1>2. k = a => \E e \in E : e.event_type \in EndOfAttempt /\ e.attempt = k
  OBVIOUS
<1>3. k # a => \A e \in E : ~(e.event_type \in EndOfAttempt /\ e.attempt = k)
  OBVIOUS
<1>4. Cardinality(Matching(Append(h, E), {"CLAIMED"}, k)) =
        Cardinality(Matching(h, {"CLAIMED"}, k))
  BY <1>1, CountStays
<1>5. ASSUME k = a
      PROVE  Cardinality(Matching(Append(h, E), EndOfAttempt, k)) =
               Cardinality(Matching(h, EndOfAttempt, k)) + 1
  BY <1>2, <1>5, CountRises
<1>6. ASSUME k # a
      PROVE  Cardinality(Matching(Append(h, E), EndOfAttempt, k)) =
               Cardinality(Matching(h, EndOfAttempt, k))
  BY <1>3, <1>6, CountStays
<1> QED
  BY <1>4, <1>5, <1>6

\* An acknowledgement or a timeout ends the running attempt: one of its events is an end
\* of the attempt, none is a claim.
LEMMA EndExplained ==
  ASSUME NEW h \in Seq(SUBSET JobEvent), NEW a \in Nat, Explains(h, "RUNNING", a),
         NEW E \in SUBSET JobEvent, NEW to, Leads(E, "RUNNING", to),
         to \notin {"ABSENT", "RUNNING"},
         \E e \in E : e.event_type \in EndOfAttempt,
         \A e \in E : e.event_type # "CLAIMED" /\ e.attempt = a
  PROVE  Explains(Append(h, E), to, a)
<1>1. Chained(Append(h, E), to)
  BY ChainGrows DEF Explains
<1>2. \A i \in DOMAIN Append(h, E) : \A e \in Append(h, E)[i] : e.attempt <= a
  <2>1. \A e \in E : e.attempt <= a
    OBVIOUS
  <2>2. \A i \in DOMAIN h : \A e \in h[i] : e.attempt <= a
    BY DEF Explains
  <2>3. a <= a
    OBVIOUS
  <2> QED
    BY <2>1, <2>2, <2>3, AttemptsGrow
<1>3. ASSUME NEW k \in 1..a
      PROVE  /\ Cardinality(Matching(Append(h, E), {"CLAIMED"}, k)) = 1
             /\ Cardinality(Matching(Append(h, E), EndOfAttempt, k)) = 1
  <2>1. /\ Cardinality(Matching(h, {"CLAIMED"}, k)) = 1
        /\ Cardinality(Matching(h, EndOfAttempt, k)) = IF k = a THEN 0 ELSE 1
    BY DEF Explains
  <2> QED
    BY <2>1, EndCounted
<1> QED
  BY <1>1, <1>2, <1>3 DEF Explains

LEMMA HistoryInit == Init => HistoryInv
BY DEF Init, HistoryInv, Explains, Chained, AbsentRow

\* Every step keeps HistoryInv.
LEMMA HistoryStep == QueueInv /\ HistoryInv /\ [Next]_vars => HistoryInv'
<1> SUFFICES ASSUME QueueInv, HistoryInv, [Next]_vars, NEW j \in Jobs
             PROVE  Explains(job_events'[j], jobs'[j].status, jobs'[j].attempts)
  BY DEF HistoryInv
<1> DEFINE h == job_events[j]
           row == jobs[j]
<1>t. /\ TypeInv /\ CandidatesInv /\ CopyInv /\ RowInv
      /\ h \in Seq(SUBSET JobEvent) /\ row.attempts \in Nat /\ row.status \in JobStatus
      /\ job_events \in [Jobs -> Seq(SUBSET JobEvent)] /\ MaxAttempts \in Nat
  BY JobQueueAssumption DEF QueueInv, TypeInv, TypeOK, JobRow
<1>h. Explains(h, row.status, row.attempts)
  BY DEF HistoryInv
<1>1. CASE JobKept(j)
  BY <1>1, <1>h DEF JobKept, RowKept
<1>2. CASE SubmitJob(j)
  <2> DEFINE e == Event("SUBMITTED", "ABSENT", "PENDING", 0)
  <2>1. job_events'[j] = Append(h, {e})
    BY <1>2, <1>t DEF SubmitJob
  <2>2. /\ row.status = "ABSENT" /\ jobs'[j].status = "PENDING" /\ jobs'[j].attempts = row.attempts
        /\ row.attempts = 0
    BY <1>2, <1>t, SubmitRows DEF RowInv, RowOK
  <2>3. /\ e \in JobEvent /\ e.from_status = "ABSENT" /\ e.to_status = "PENDING"
        /\ e.attempt = 0
    BY DEF Event, JobEvent, EventTypes, JobStatus
  <2> HIDE DEF e, h
  <2>4. Chained(Append(h, {e}), "PENDING")
    BY <1>t, <1>h, <2>2, <2>3, ChainGrows, OneEventLeads DEF Explains
  <2>5. \A i \in DOMAIN Append(h, {e}) : \A f \in Append(h, {e})[i] : f.attempt <= 0
    <3>1. {e} \in SUBSET JobEvent /\ \A f \in {e} : f.attempt <= 0
      BY <2>3
    <3>2. \A i \in DOMAIN h : \A f \in h[i] : f.attempt <= 0
      BY <1>h, <2>2 DEF Explains
    <3>3. 0 \in Nat /\ 0 <= 0
      OBVIOUS
    <3> QED
      BY <1>t, <3>1, <3>2, <3>3, AttemptsGrow
  <2> QED
    BY <2>1, <2>2, <2>4, <2>5 DEF Explains
<1>3. ASSUME NEW w \in Workers, ClaimJob(w, j)
      PROVE  Explains(job_events'[j], jobs'[j].status, jobs'[j].attempts)
  <2> DEFINE e == Event("CLAIMED", "PENDING", "RUNNING", row.attempts + 1)
  <2>1. job_events'[j] = Append(h, {e})
    BY <1>3, <1>t DEF ClaimJob
  <2>2. /\ row.status = "PENDING" /\ jobs'[j].status = "RUNNING"
        /\ jobs'[j].attempts = row.attempts + 1
    BY <1>3, <1>t, ClaimRows
  <2>3. /\ e \in JobEvent /\ e.event_type = "CLAIMED" /\ e.from_status = "PENDING"
        /\ e.to_status = "RUNNING" /\ e.attempt = row.attempts + 1
    BY <1>t DEF Event, JobEvent, EventTypes, JobStatus
  <2> HIDE DEF e, h
  <2> QED
    BY <1>t, <1>h, <2>1, <2>2, <2>3, ClaimExplained
<1>4. ASSUME NEW w \in Workers, AttemptAcknowledged(w, j)
      PROVE  Explains(job_events'[j], jobs'[j].status, jobs'[j].attempts)
  <2>0. PICK type \in {"SUCCEEDED", "FAILED_RETRY_SCHEDULED", "DEAD_LETTERED"} :
          \E settled :
            /\ jobs' = [jobs EXCEPT ![j] = settled]
            /\ job_events' = [job_events EXCEPT ![j] =
                 Append(@, {Event(type, "RUNNING", settled.status, row.attempts)})]
    BY <1>4 DEF AttemptAcknowledged, MarkJobSucceeded, ScheduleJobRetry, MoveOwnedJobToDlq,
                Acknowledge
  <2>1. PICK settled :
          /\ jobs' = [jobs EXCEPT ![j] = settled]
          /\ job_events' = [job_events EXCEPT ![j] =
               Append(@, {Event(type, "RUNNING", settled.status, row.attempts)})]
    BY <2>0
  <2>2. /\ row.status = "RUNNING" /\ jobs'[j].attempts = row.attempts
        /\ jobs'[j].status \in {"PENDING", "SUCCEEDED", "DEAD_LETTERED"}
    BY <1>4, <1>t, AcknowledgedAttempt DEF RowEnded
  <2> DEFINE e == Event(type, "RUNNING", settled.status, row.attempts)
  <2>3. jobs'[j] = settled /\ job_events'[j] = Append(h, {e})
    BY <1>t, <2>1 DEF TypeInv, TypeOK
  <2>4. /\ e \in JobEvent /\ e.event_type = type /\ e.from_status = "RUNNING"
        /\ e.to_status = settled.status /\ e.attempt = row.attempts
    BY <1>t, <2>0, <2>2, <2>3 DEF Event, JobEvent, EventTypes, JobStatus
  <2>5. type \in EndOfAttempt /\ type # "CLAIMED"
    BY <2>0 DEF EndOfAttempt
  <2> HIDE DEF e, h
  <2>6. Leads({e}, "RUNNING", settled.status)
    BY <2>2, <2>3, <2>4, OneEventLeads
  <2>7. /\ \E f \in {e} : f.event_type \in EndOfAttempt
        /\ \A f \in {e} : f.event_type # "CLAIMED" /\ f.attempt = row.attempts
        /\ settled.status \notin {"ABSENT", "RUNNING"}
        /\ {e} \in SUBSET JobEvent
    BY <2>2, <2>3, <2>4, <2>5
  <2>8. Explains(Append(h, {e}), settled.status, row.attempts)
    BY <1>t, <1>h, <2>2, <2>6, <2>7, EndExplained
  <2> QED
    BY <2>2, <2>3, <2>8
<1>5. CASE AttemptTimedOut(j)
  <2> DEFINE a == row.attempts
             e1 == Event("LEASE_EXPIRED", "RUNNING", "RUNNING", a)
             e2 == IF a >= MaxAttempts
                   THEN Event("DEAD_LETTERED", "RUNNING", "DEAD_LETTERED", a)
                   ELSE Event("REQUEUED_FROM_TIMEOUT", "RUNNING", "PENDING", a)
  <2>1. job_events'[j] = Append(h, {e1, e2})
    BY <1>5 DEF AttemptTimedOut, TimeoutEvents
  <2>2. /\ row.status = "RUNNING" /\ jobs'[j].attempts = a
        /\ a >= MaxAttempts => jobs'[j].status = "DEAD_LETTERED"
        /\ ~(a >= MaxAttempts) => jobs'[j].status = "PENDING"
    BY <1>5 DEF AttemptTimedOut, RowEnded
  <2>3. /\ e1 \in JobEvent /\ e1.event_type = "LEASE_EXPIRED" /\ e1.from_status = "RUNNING"
        /\ e1.to_status = "RUNNING" /\ e1.attempt = a
    BY <1>t DEF Event, JobEvent, EventTypes, JobStatus
  <2>4. /\ e2 \in JobEvent /\ e2.event_type \in EndOfAttempt /\ e2.from_status = "RUNNING"
        /\ e2.to_status = jobs'[j].status /\ e2.attempt = a /\ e2.event_type # "CLAIMED"
        /\ jobs'[j].status \notin {"ABSENT", "RUNNING"}
    <3>1. CASE a >= MaxAttempts
      BY <1>t, <2>2, <3>1 DEF Event, JobEvent, EventTypes, JobStatus, EndOfAttempt
    <3>2. CASE ~(a >= MaxAttempts)
      BY <1>t, <2>2, <3>2 DEF Event, JobEvent, EventTypes, JobStatus, EndOfAttempt
    <3> QED
      BY <3>1, <3>2
  <2> HIDE DEF e1, e2, h
  <2>5. Leads({e1, e2}, "RUNNING", jobs'[j].status)
    <3>1. StartsFrom({e1, e2}) = {"RUNNING"}
      BY <2>3, <2>4 DEF StartsFrom
    <3>2. {e.to_status : e \in {e1, e2}} = {"RUNNING", jobs'[j].status}
      BY <2>3, <2>4
    <3> QED
      BY <2>4, <3>1, <3>2 DEF Leads, LeadsTo
  <2>6. /\ \E e \in {e1, e2} : e.event_type \in EndOfAttempt
        /\ \A e \in {e1, e2} : e.event_type # "CLAIMED" /\ e.attempt = a
        /\ {e1, e2} \in SUBSET JobEvent
    BY <2>3, <2>4
  <2>7. Explains(Append(h, {e1, e2}), jobs'[j].status, a)
    BY <1>t, <1>h, <2>2, <2>4, <2>5, <2>6, EndExplained
  <2> QED
    BY <2>1, <2>2, <2>7
<1> QED
  BY <1>1, <1>2, <1>3, <1>4, <1>5, <1>t, JobSteps

\* In every reachable state the history alone explains the row, in whatever order the
\* events of one transaction are read: its transactions chain from the submission to the
\* status, and every attempt was claimed once and ended once.
THEOREM HistoryExplains == Spec => []HistoryExplainsJob
<1>1. Init => HistoryInv
  BY HistoryInit
<1>2. QueueInv /\ HistoryInv /\ [Next]_vars => HistoryInv'
  BY HistoryStep
<1>3. HistoryInv => HistoryExplainsJob
  BY DEF HistoryInv, HistoryExplainsJob, Explains, Chained, Matching, TransactionsFor
<1> QED
  BY <1>1, <1>2, <1>3, QueueInvariance, PTL DEF Spec
=============================================================================
