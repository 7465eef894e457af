------------------------- MODULE JobQueueRefinement -------------------------
(***************************************************************************)
(* The action properties of JobQueue that relate a job to the workers, and *)
(* that JobQueue implements JobLifecycle, proved from the inductive        *)
(* invariant QueueInv and QuotaExact.                                      *)
(***************************************************************************)
EXTENDS JobQueueSafety

\* An acknowledgement is that of the lease holder and follows its handler's outcome.
LEMMA AcknowledgedByHolder ==
  ASSUME QueueInv, NEW j \in Jobs, NEW w \in Workers, AttemptAcknowledged(w, j)
  PROVE  EndedByHolder(w, j)
<1>1. /\ worker[w].job = j /\ HoldsLease(w, j) /\ worker[w].state = "acking"
      /\ MarkJobSucceeded(w) => jobs'[j].status = "SUCCEEDED"
      /\ ScheduleJobRetry(w) => jobs'[j].status = "PENDING"
      /\ MoveOwnedJobToDlq(w) => jobs'[j].status = "DEAD_LETTERED"
      /\ MarkJobSucceeded(w) \/ ScheduleJobRetry(w) \/ MoveOwnedJobToDlq(w)
      /\ worker' = [worker EXCEPT ![w] = Idle]
  BY AcknowledgeRows DEF AttemptAcknowledged, QueueInv
<1>2. worker'[w].state = "idle"
  BY <1>1, IdleMemory DEF QueueInv, TypeInv, TypeOK
<1>3. /\ worker[w].attempts = jobs[j].attempts /\ jobs[j].attempts \in Nat
      /\ jobs[j].attempts <= MaxAttempts /\ MaxAttempts \in Nat
  BY <1>1, JobQueueAssumption
     DEF QueueInv, CopyInv, RowInv, RowOK, TypeInv, TypeOK, JobRow
<1>4. CASE MarkJobSucceeded(w)
  <2>1. jobs'[j].status = "SUCCEEDED" /\ worker[w].outcome = "ok"
    BY <1>1, <1>4 DEF MarkJobSucceeded
  <2> QED
    BY <1>1, <1>2, <2>1 DEF EndedByHolder
<1>5. CASE ScheduleJobRetry(w)
  <2>1. jobs'[j].status = "PENDING" /\ worker[w].outcome = "retryable"
    BY <1>1, <1>5 DEF ScheduleJobRetry
  <2> QED
    BY <1>1, <1>2, <2>1 DEF EndedByHolder
<1>6. CASE MoveOwnedJobToDlq(w)
  <2>1. /\ jobs'[j].status = "DEAD_LETTERED"
        /\ \/ worker[w].outcome = "non_retryable"
           \/ worker[w].outcome = "retryable" /\ jobs[j].attempts = MaxAttempts
    BY <1>1, <1>3, <1>6 DEF MoveOwnedJobToDlq, AttemptsExhausted
  <2> QED
    BY <1>1, <1>2, <2>1 DEF EndedByHolder
<1> QED
  BY <1>1, <1>4, <1>5, <1>6

\* A running job leaves RUNNING, or loses its lease, only by the acknowledgement of its
\* lease holder or after the lease ran out.
THEOREM OwnersEndAttempts == Spec => AttemptEndedByOwnerOrTimeout
<1>1. ASSUME QueueInv, [Next]_vars, NEW j \in Jobs,
             jobs[j].status = "RUNNING",
             jobs'[j].status # "RUNNING" \/ jobs'[j].lease_id # jobs[j].lease_id
      PROVE  \/ \E w \in Workers : EndedByHolder(w, j)
             \/ /\ jobs[j].lease_expires_in < 0
                /\ jobs'[j].status \in {"PENDING", "DEAD_LETTERED"}
  <2>1. ~JobKept(j) /\ ~SubmitJob(j)
    BY <1>1 DEF JobKept, RowKept, SubmitJob
  <2>2. \A w \in Workers : ~ClaimJob(w, j)
    BY <1>1, ClaimRows DEF QueueInv
  <2>3. (\E w \in Workers : AttemptAcknowledged(w, j)) \/ AttemptTimedOut(j)
    BY <1>1, <2>1, <2>2, JobSteps DEF QueueInv
  <2>4. CASE AttemptTimedOut(j)
    BY <2>4 DEF AttemptTimedOut
  <2>5. CASE \E w \in Workers : AttemptAcknowledged(w, j)
    BY <1>1, <2>5, AcknowledgedByHolder
  <2> QED
    BY <2>3, <2>4, <2>5
<1>2. QueueInv /\ [Next]_vars =>
        [\A j \in Jobs :
           /\ jobs[j].status = "RUNNING"
           /\ jobs'[j].status # "RUNNING" \/ jobs'[j].lease_id # jobs[j].lease_id
           => \/ \E w \in Workers : EndedByHolder(w, j)
              \/ /\ jobs[j].lease_expires_in < 0
                 /\ jobs'[j].status \in {"PENDING", "DEAD_LETTERED"}]_vars
  BY <1>1
<1> QED
  BY <1>2, QueueInvariance, PTL DEF Spec, AttemptEndedByOwnerOrTimeout

-----------------------------------------------------------------------------
(* The refinement                                                           *)

\* The columns JobLifecycle reads.
Statuses == [j \in Jobs |-> jobs[j].status]
Attempts == [j \in Jobs |-> jobs[j].attempts]

\* A step that keeps every row's status and attempts is a stutter of the lifecycle.
LEMMA Stutter ==
  ASSUME \A j \in Jobs : /\ jobs'[j].status = jobs[j].status
                         /\ jobs'[j].attempts = jobs[j].attempts
  PROVE  Statuses' = Statuses /\ Attempts' = Attempts
BY DEF Statuses, Attempts

\* The lifecycle counts the running jobs the quota counts.
LEMMA SameRunningOf ==
  ASSUME NEW t \in Tenants
  PROVE  Lifecycle!RunningOf(t) = RunningJobsOf(t)
BY DEF Lifecycle!RunningOf, RunningJobsOf

\* Cardinality means the same in both modules.
LEMMA SameCardinality ==
  ASSUME NEW S
  PROVE  Lifecycle!Cardinality(S) = Cardinality(S)
BY DEF Lifecycle!Cardinality, Cardinality

\* A submission is a submission of the lifecycle.
LEMMA SubmitRefines ==
  ASSUME QueueInv, NEW j \in Jobs, SubmitJob(j)
  PROVE  Lifecycle!Submit(j)
<1>1. /\ jobs[j].status = "ABSENT" /\ jobs'[j].status = "PENDING"
      /\ jobs'[j].attempts = jobs[j].attempts
      /\ \A k \in Jobs \ {j} : jobs'[k] = jobs[k]
  BY SubmitRows DEF QueueInv
<1>2. Statuses[j] = "ABSENT" /\ Statuses' = [Statuses EXCEPT ![j] = "PENDING"]
  BY <1>1 DEF Statuses
<1>3. Attempts' = Attempts
  BY <1>1 DEF Attempts
<1> QED
  BY <1>2, <1>3 DEF Lifecycle!Submit, Statuses, Attempts

\* A claim starts an attempt of a job that has one left, of a tenant that has room.
LEMMA ClaimRefines ==
  ASSUME QueueInv, QuotaExact, NEW w \in Workers, NEW j \in Jobs, ClaimJob(w, j)
  PROVE  Lifecycle!Start(j)
<1>1. /\ jobs[j].status = "PENDING" /\ jobs'[j].status = "RUNNING"
      /\ jobs'[j].attempts = jobs[j].attempts + 1
      /\ \A k \in Jobs \ {j} : jobs'[k] = jobs[k]
  BY ClaimRows DEF QueueInv
<1>2. Statuses[j] = "PENDING" /\ Statuses' = [Statuses EXCEPT ![j] = "RUNNING"]
  BY <1>1 DEF Statuses
<1>3. /\ Attempts[j] < MaxAttempts
      /\ Attempts' = [Attempts EXCEPT ![j] = Attempts[j] + 1]
  BY <1>1 DEF Attempts, QueueInv, RowInv, RowOK
<1>4. TenantOf[j] \in Tenants
  BY JobQueueAssumption
<1>5. Lifecycle!Cardinality(Lifecycle!RunningOf(TenantOf[j])) <
        MaxRunningJobs[TenantOf[j]]
  BY <1>4, SameRunningOf, SameCardinality DEF ClaimJob, HasRoom, QuotaExact
<1> QED
  BY <1>2, <1>3, <1>5 DEF Lifecycle!Start, Statuses, Attempts

\* A step that ends the attempts of a set of running jobs, requeueing only those with an
\* attempt left, is a step of the lifecycle or a stutter.
LEMMA EndRefines ==
  ASSUME NEW S \in SUBSET Jobs,
         \A j \in S : RowEnded(j) /\ (jobs'[j].status = "PENDING" =>
                                        jobs[j].attempts < MaxAttempts),
         \A k \in Jobs \ S : jobs'[k] = jobs[k]
  PROVE  Lifecycle!End(S) \/ (Statuses' = Statuses /\ Attempts' = Attempts)
<1>1. Attempts' = Attempts
  BY DEF Attempts, RowEnded
<1>2. Statuses' = [j \in Jobs |-> IF j \in S THEN Statuses'[j] ELSE Statuses[j]]
  BY DEF Statuses
<1>3. \A j \in S : Statuses[j] = "RUNNING" /\ Statuses'[j] \in Lifecycle!Outcome(j)
  BY DEF Statuses, RowEnded, Lifecycle!Outcome
<1>4. CASE S = {}
  BY <1>4, Stutter
<1>5. CASE S # {}
  BY <1>1, <1>2, <1>3, <1>5 DEF Lifecycle!End, Statuses, Attempts
<1> QED
  BY <1>4, <1>5

\* Every step of the queue is a step of the lifecycle or a stutter.
LEMMA StepRefines ==
  QueueInv /\ QuotaExact /\ [Next]_vars => [Lifecycle!Next]_(Lifecycle!lifecycle)
<1> SUFFICES ASSUME QueueInv, QuotaExact, [Next]_vars
             PROVE  Lifecycle!Next \/ (Statuses' = Statuses /\ Attempts' = Attempts)
  BY DEF Lifecycle!lifecycle, Statuses, Attempts
<1> DEFINE Shape == Lifecycle!Next \/ (Statuses' = Statuses /\ Attempts' = Attempts)
<1>s. ASSUME jobs' = jobs PROVE Shape
  BY <1>s, Stutter
<1>1. ASSUME NEW j \in Jobs, SubmitJob(j) PROVE Shape
  BY <1>1, SubmitRefines DEF Lifecycle!Next
<1>2. ASSUME NEW w \in Workers, NEW j \in Jobs, ClaimJob(w, j) PROVE Shape
  BY <1>2, ClaimRefines DEF Lifecycle!Next
<1>3. ASSUME NEW w \in Workers,
             MarkJobSucceeded(w) \/ ScheduleJobRetry(w) \/ MoveOwnedJobToDlq(w)
      PROVE  Shape
  <2>1. /\ worker[w].job \in Jobs
        /\ \A k \in Jobs \ {worker[w].job} : jobs'[k] = jobs[k]
    BY <1>3, AcknowledgeRows DEF QueueInv
  <2>2. /\ RowEnded(worker[w].job)
        /\ jobs'[worker[w].job].status = "PENDING" =>
             jobs[worker[w].job].attempts < MaxAttempts
    BY <1>3, <2>1, AcknowledgedAttempt DEF QueueInv, AttemptAcknowledged
  <2>3. PICK S \in SUBSET Jobs : S = {worker[w].job}
    BY <2>1
  <2>4. /\ \A j \in S : RowEnded(j) /\ (jobs'[j].status = "PENDING" =>
                                          jobs[j].attempts < MaxAttempts)
        /\ \A k \in Jobs \ S : jobs'[k] = jobs[k]
    BY <2>1, <2>2, <2>3
  <2> QED
    BY <2>4, EndRefines DEF Lifecycle!Next
<1>4. ASSUME RecoverExpiredLeases PROVE Shape
  <2>1. PICK S \in SUBSET Jobs :
          /\ \A j \in S : /\ RowEnded(j)
                          /\ jobs[j].attempts >= MaxAttempts =>
                               jobs'[j].status = "DEAD_LETTERED"
          /\ \A k \in Jobs \ S : jobs'[k] = jobs[k]
    BY <1>4, RecoverRows DEF QueueInv
  <2>2. ASSUME NEW j \in S, jobs'[j].status = "PENDING"
        PROVE  jobs[j].attempts < MaxAttempts
    <3>1. /\ jobs[j].attempts \in Nat /\ MaxAttempts \in Nat
          /\ ~(jobs[j].attempts >= MaxAttempts)
      BY <2>1, <2>2, JobQueueAssumption DEF QueueInv, TypeInv, TypeOK, JobRow
    <3> QED
      BY <3>1
  <2> QED
    BY <2>1, <2>2, EndRefines DEF Lifecycle!Next
<1>5. ASSUME Tick PROVE Shape
  BY <1>5, TickRows, Stutter DEF RowKept, QueueInv
<1>6. ASSUME NEW w \in Workers,
             \/ SelectCandidates(w) \/ HandlerReturns(w) \/ AckRejected(w)
             \/ SignalShutdown(w) \/ StopWorker(w) \/ CrashWorker(w) \/ StartWorker(w)
      PROVE  Shape
  BY <1>6, <1>s DEF SelectCandidates, HandlerReturns, AckRejected,
                    SignalShutdown, StopWorker, CrashWorker, StartWorker
<1>7. ASSUME NEW w \in Workers, NEW j \in Jobs, ReservationFails(w, j) PROVE Shape
  BY <1>7, <1>s DEF ReservationFails
<1>8. CASE UNCHANGED vars
  BY <1>8, <1>s DEF vars
<1> QED
  BY <1>1, <1>2, <1>3, <1>4, <1>5, <1>6, <1>7, <1>8 DEF Next, Claim, SettleAttempt

\* An empty jobs table is the lifecycle's beginning.
LEMMA InitRefines == Init => Lifecycle!Init
BY DEF Init, Lifecycle!Init, AbsentRow

\* Every behaviour of the queue, seen through status and attempts, is one JobLifecycle
\* allows.
THEOREM QueueImplementsLifecycle == Spec => ImplementsLifecycle
<1>1. QueueInv /\ QuotaExact /\ [Next]_vars => [Lifecycle!Next]_(Lifecycle!lifecycle)
  BY StepRefines
<1> QED
  BY <1>1, InitRefines, QueueInvariance, QuotaCorrect, PTL
     DEF Spec, ImplementsLifecycle, Lifecycle!Spec
=============================================================================
