--------------------------- MODULE JobQueueProofs ---------------------------
(***************************************************************************)
(* Proofs about JobQueue for every number of jobs, tenants and workers and *)
(* every limit.                                                            *)
(***************************************************************************)
EXTENDS JobQueue, FiniteSetTheorems, TLAPS

-----------------------------------------------------------------------------
(* What the row operators return                                            *)

\* A row whose lease columns are cleared is a row and keeps everything else.
LEMMA UnleasedRow ==
  ASSUME NEW row \in JobRow
  PROVE  /\ Unleased(row) \in JobRow
         /\ Unleased(row).status = row.status
         /\ Unleased(row).attempts = row.attempts
         /\ Unleased(row).lease_id = 0
<1>1. 0 \in Int /\ 0 \in Nat /\ Null \in WorkerIds \cup {Null}
  OBVIOUS
<1>2. Unleased(row) \in JobRow
  BY <1>1, Zenon DEF JobRow, Unleased
<1> QED
  BY <1>2 DEF JobRow, Unleased

\* A succeeded row keeps its attempts and has no lease.
LEMMA SucceededRow ==
  ASSUME NEW row \in JobRow
  PROVE  /\ Succeeded(row) \in JobRow
         /\ Succeeded(row).status = "SUCCEEDED"
         /\ Succeeded(row).attempts = row.attempts
         /\ Succeeded(row).lease_id = 0
         /\ Succeeded(row).run_after_in = row.run_after_in
<1>1. "SUCCEEDED" \in JobStatus
  BY DEF JobStatus
<1>2. Succeeded(row) \in JobRow
  BY <1>1, UnleasedRow, Zenon DEF JobRow, Succeeded
<1> QED
  BY <1>2 DEF JobRow, Succeeded, Unleased

\* A requeued row keeps its attempts and has no lease.
LEMMA RequeuedRow ==
  ASSUME NEW row \in JobRow, NEW delay \in Nat, NEW error \in JobErrors
  PROVE  /\ Requeued(row, delay, error) \in JobRow
         /\ Requeued(row, delay, error).status = "PENDING"
         /\ Requeued(row, delay, error).attempts = row.attempts
         /\ Requeued(row, delay, error).lease_id = 0
<1>1. "PENDING" \in JobStatus
  BY DEF JobStatus
<1>2. Requeued(row, delay, error) \in JobRow
  BY <1>1, UnleasedRow, Zenon DEF JobRow, Requeued
<1> QED
  BY <1>2 DEF JobRow, Requeued, Unleased

\* A dead-lettered row keeps its attempts, has no lease and carries the error.
LEMMA DeadLetteredRow ==
  ASSUME NEW row \in JobRow, NEW error \in JobErrors
  PROVE  /\ DeadLettered(row, error) \in JobRow
         /\ DeadLettered(row, error).status = "DEAD_LETTERED"
         /\ DeadLettered(row, error).attempts = row.attempts
         /\ DeadLettered(row, error).lease_id = 0
         /\ DeadLettered(row, error).last_error = error
         /\ DeadLettered(row, error).run_after_in = row.run_after_in
<1>1. "DEAD_LETTERED" \in JobStatus
  BY DEF JobStatus
<1>2. DeadLettered(row, error) \in JobRow
  BY <1>1, UnleasedRow, Zenon DEF JobRow, DeadLettered
<1> QED
  BY <1>2 DEF JobRow, DeadLettered, Unleased

\* The row of an expired lease keeps its attempts, and is pending only if it has an
\* attempt left.
LEMMA TimedOut ==
  ASSUME NEW j \in Jobs, jobs[j] \in JobRow, NEW delay \in Nat
  PROVE  /\ TimedOutRow(j, delay) \in JobRow
         /\ TimedOutRow(j, delay).attempts = jobs[j].attempts
         /\ TimedOutRow(j, delay).lease_id = 0
         /\ jobs[j].attempts >= MaxAttempts =>
              /\ TimedOutRow(j, delay).status = "DEAD_LETTERED"
              /\ TimedOutRow(j, delay).last_error = "lease_expired"
              /\ TimedOutRow(j, delay).run_after_in = jobs[j].run_after_in
         /\ ~(jobs[j].attempts >= MaxAttempts) =>
              TimedOutRow(j, delay).status = "PENDING"
<1>1. "lease_expired" \in JobErrors
  BY DEF JobErrors
<1>2. CASE jobs[j].attempts >= MaxAttempts
  BY <1>1, <1>2, DeadLetteredRow DEF TimedOutRow
<1>3. CASE ~(jobs[j].attempts >= MaxAttempts)
  BY <1>1, <1>3, RequeuedRow DEF TimedOutRow
<1> QED
  BY <1>2, <1>3

\* The memory of an idle and of a stopped process.
LEMMA IdleMemory ==
  /\ Idle \in WorkerMemory
  /\ Down \in WorkerMemory
  /\ Idle.state = "idle" /\ Down.state = "down"
  /\ Idle.candidates = {} /\ Down.candidates = {}
  /\ Idle.lease_id = 0 /\ Down.lease_id = 0
<1>1. 0 \in Int /\ 0 \in Nat
  OBVIOUS
<1>2. Idle \in WorkerMemory
  BY <1>1 DEF Idle, WorkerMemory
<1>3. Down \in WorkerMemory
  BY <1>2 DEF Down, WorkerMemory
<1> QED
  BY <1>2, <1>3 DEF Idle, Down

\* Every delay calculate_backoff_seconds returns is a natural number.
LEMMA BackoffIsNat ==
  ASSUME NEW n \in Nat, NEW d \in BackoffDelays(n)
  PROVE  d \in Nat
BY BackoffAssumption DEF BackoffDelays

\* An event of the types the code writes is an event.
LEMMA EventType ==
  ASSUME NEW type \in EventTypes, NEW from \in JobStatus, NEW to \in JobStatus,
         NEW attempt \in Nat
  PROVE  Event(type, from, to, attempt) \in JobEvent
BY DEF Event, JobEvent

-----------------------------------------------------------------------------
(* Types                                                                    *)

\* What a worker remembers fits its state: it has a job while it executes or
\* acknowledges one, and holds row locks only while its claim is open.
WorkerOK ==
  \A w \in Workers :
    /\ worker[w].state \in {"executing", "acking"} => worker[w].job \in Jobs
    /\ worker[w].state # "claiming" => worker[w].candidates = {}

TypeInv == TypeOK /\ WorkerOK

\* The initial tables and processes have their types.
LEMMA TypeInit == Init => TypeInv
<1> SUFFICES ASSUME Init PROVE TypeInv
  OBVIOUS
<1>1. AbsentRow \in JobRow /\ NoDeadLetter \in DeadLetterRow
  <2>1. 0 \in Int /\ 0 \in Nat /\ "ABSENT" \in JobStatus /\ "none" \in JobErrors
    BY DEF JobStatus, JobErrors
  <2> QED
    BY <2>1 DEF AbsentRow, JobRow, NoDeadLetter, DeadLetterRow
<1>2. TypeOK
  BY <1>1, IdleMemory DEF Init, TypeOK
<1>3. WorkerOK
  BY IdleMemory DEF Init, WorkerOK
<1> QED
  BY <1>2, <1>3 DEF TypeInv

\* A step in which one worker process forgets everything keeps the types.
LEMMA ForgetType ==
  ASSUME TypeInv, NEW w \in Workers, NEW memory \in {Idle, Down},
         worker' = [worker EXCEPT ![w] = memory]
  PROVE  worker' \in [Workers -> WorkerMemory] /\ WorkerOK'
BY IdleMemory DEF TypeInv, TypeOK, WorkerOK

\* An acknowledgement keeps the types, whatever row it writes.
LEMMA AcknowledgeType ==
  ASSUME TypeInv, NEW w \in Workers,
         NEW row \in JobRow, NEW type \in EventTypes, Acknowledge(w, row, type)
  PROVE  /\ jobs' \in [Jobs -> JobRow]
         /\ running_jobs' \in [Tenants -> Nat]
         /\ job_events' \in [Jobs -> Seq(SUBSET JobEvent)]
         /\ worker' \in [Workers -> WorkerMemory]
         /\ WorkerOK'
         /\ UNCHANGED <<leases_issued, shutdown, interruptions>>
<1> DEFINE j == worker[w].job
<1>1. j \in Jobs
  BY DEF Acknowledge, TypeInv, WorkerOK
<1>2. jobs' \in [Jobs -> JobRow]
  BY <1>1 DEF Acknowledge, TypeInv, TypeOK
<1>3. running_jobs' \in [Tenants -> Nat]
  <2>1. running_jobs \in [Tenants -> Nat]
    BY DEF TypeInv, TypeOK
  <2>2. \A t \in Tenants : ReleaseSlots(running_jobs[t], 1) \in Nat
    BY <2>1 DEF ReleaseSlots
  <2>3. running_jobs' = [running_jobs EXCEPT
                           ![TenantOf[j]] = ReleaseSlots(running_jobs[TenantOf[j]], 1)]
    BY DEF Acknowledge
  <2> HIDE DEF j
  <2> QED
    BY <2>1, <2>2, <2>3
<1>4. job_events' \in [Jobs -> Seq(SUBSET JobEvent)]
  <2>1. {Event(type, "RUNNING", row.status, jobs[j].attempts)} \in SUBSET JobEvent
    <3>1. "RUNNING" \in JobStatus /\ row.status \in JobStatus /\ jobs[j].attempts \in Nat
      BY <1>1 DEF JobStatus, JobRow, TypeInv, TypeOK
    <3> QED
      BY <3>1, EventType
  <2> QED
    BY <1>1, <2>1 DEF Acknowledge, TypeInv, TypeOK
<1>5. worker' = [worker EXCEPT ![w] = Idle]
  BY DEF Acknowledge
<1>6. UNCHANGED <<leases_issued, shutdown, interruptions>>
  BY DEF Acknowledge
<1> HIDE DEF j
<1> QED
  BY <1>2, <1>3, <1>4, <1>5, <1>6, ForgetType

\* Writing a dead letter keeps the type of the table.
LEMMA DeadLetterType ==
  ASSUME TypeInv, NEW j \in Jobs, NEW error \in JobErrors
  PROVE  InsertDeadLetter(j, error) \in DeadLetterRow
BY DEF TypeInv, TypeOK, InsertDeadLetter, DeadLetterRow, JobRow

\* Every step keeps the types.
LEMMA TypeStep == TypeInv /\ [Next]_vars => TypeInv'
<1> SUFFICES ASSUME TypeInv, [Next]_vars PROVE TypeInv'
  OBVIOUS
<1> USE DEF TypeInv
<1>1. ASSUME NEW j \in Jobs, SubmitJob(j) PROVE TypeInv'
  <2>1. "PENDING" \in JobStatus /\ "ABSENT" \in JobStatus /\ "SUBMITTED" \in EventTypes
    BY DEF JobStatus, EventTypes
  <2>2. jobs' \in [Jobs -> JobRow]
    BY <1>1, <2>1, Zenon DEF SubmitJob, TypeOK, JobRow
  <2>3. job_events' \in [Jobs -> Seq(SUBSET JobEvent)]
    <3>1. {Event("SUBMITTED", "ABSENT", "PENDING", 0)} \in SUBSET JobEvent
      BY <2>1, EventType
    <3> QED
      BY <1>1, <3>1 DEF SubmitJob, TypeOK
  <2> QED
    BY <1>1, <2>2, <2>3 DEF SubmitJob, TypeOK, WorkerOK
<1>2. ASSUME NEW w \in Workers, SelectCandidates(w) PROVE TypeInv'
  <2>1. PICK S \in SUBSET Claimable :
          worker' = [worker EXCEPT ![w] =
            [Idle EXCEPT !.state = "claiming", !.candidates = S,
                         !.new_lease_in = LeaseSeconds]]
    BY <1>2 DEF SelectCandidates
  <2>2. S \in SUBSET Jobs /\ LeaseSeconds \in Int
    BY JobQueueAssumption DEF Claimable
  <2>3. [Idle EXCEPT !.state = "claiming", !.candidates = S,
                     !.new_lease_in = LeaseSeconds] \in WorkerMemory
    <3>1. "claiming" \in {"idle", "claiming", "executing", "acking", "down"}
      OBVIOUS
    <3> QED
      BY <2>2, <3>1, IdleMemory, Zenon DEF WorkerMemory
  <2>4. [Idle EXCEPT !.state = "claiming", !.candidates = S,
                     !.new_lease_in = LeaseSeconds].state = "claiming"
    BY DEF Idle
  <2> QED
    BY <1>2, <2>1, <2>3, <2>4 DEF SelectCandidates, TypeOK, WorkerOK
<1>3. ASSUME NEW w \in Workers, NEW j \in Jobs, ReservationFails(w, j) PROVE TypeInv'
  <2>1. CASE worker[w].candidates = {j}
    BY <1>3, <2>1, ForgetType DEF ReservationFails, TypeOK
  <2>2. CASE worker[w].candidates # {j}
    <3>1. worker' = [worker EXCEPT ![w] =
                       [worker[w] EXCEPT !.candidates = worker[w].candidates \ {j}]]
      BY <1>3, <2>2 DEF ReservationFails
    <3>2. [worker[w] EXCEPT !.candidates = worker[w].candidates \ {j}] \in WorkerMemory
      BY DEF TypeOK, WorkerMemory
    <3>3. [worker[w] EXCEPT !.candidates = worker[w].candidates \ {j}].state = "claiming"
      BY <1>3 DEF ReservationFails, NextCandidate, TypeOK, WorkerMemory
    <3> QED
      BY <1>3, <3>1, <3>2, <3>3 DEF ReservationFails, TypeOK, WorkerOK
  <2> QED
    BY <2>1, <2>2
<1>4. ASSUME NEW w \in Workers, NEW j \in Jobs, ClaimJob(w, j) PROVE TypeInv'
  <2>1. jobs' \in [Jobs -> JobRow]
    <3> DEFINE row == [jobs[j] EXCEPT !.status = "RUNNING", !.attempts = jobs[j].attempts + 1,
                         !.locked_by = WorkerId[w], !.lease_id = leases_issued + 1,
                         !.lease_expires_in = worker[w].new_lease_in]
    <3>1. /\ "RUNNING" \in JobStatus
          /\ jobs[j].attempts + 1 \in Nat
          /\ WorkerId[w] \in WorkerIds \cup {Null}
          /\ leases_issued + 1 \in Nat
          /\ worker[w].new_lease_in \in Int
      BY JobQueueAssumption DEF JobStatus, TypeOK, JobRow, WorkerMemory
    <3>2. jobs[j] \in JobRow
      BY DEF TypeOK
    <3>3. row \in JobRow
      BY <3>1, <3>2, Zenon DEF JobRow
    <3>4. jobs' = [jobs EXCEPT ![j] = row]
      BY <1>4 DEF ClaimJob, NewLease
    <3> HIDE DEF row
    <3> QED
      BY <3>3, <3>4 DEF TypeOK
  <2>2. running_jobs' \in [Tenants -> Nat]
    <3>1. running_jobs \in [Tenants -> Nat] /\ TenantOf[j] \in Tenants
      BY JobQueueAssumption DEF TypeOK
    <3>2. running_jobs' = [running_jobs EXCEPT ![TenantOf[j]] = running_jobs[TenantOf[j]] + 1]
      BY <1>4 DEF ClaimJob
    <3> QED
      BY <3>1, <3>2
  <2>3. job_events' \in [Jobs -> Seq(SUBSET JobEvent)]
    <3>1. {Event("CLAIMED", "PENDING", "RUNNING", jobs[j].attempts + 1)} \in SUBSET JobEvent
      <4>1. "CLAIMED" \in EventTypes /\ "PENDING" \in JobStatus /\ "RUNNING" \in JobStatus
        BY DEF EventTypes, JobStatus
      <4>2. jobs[j].attempts + 1 \in Nat
        BY DEF TypeOK, JobRow
      <4> QED
        BY <4>1, <4>2, EventType
    <3> QED
      BY <1>4, <3>1 DEF ClaimJob, TypeOK
  <2>4. worker' \in [Workers -> WorkerMemory] /\ WorkerOK'
    <3> DEFINE memory == [Idle EXCEPT !.state = "executing", !.job = j,
                            !.lease_id = leases_issued + 1,
                            !.attempts = jobs[j].attempts + 1]
    <3>1. /\ "executing" \in {"idle", "claiming", "executing", "acking", "down"}
          /\ j \in Jobs \cup {Null}
          /\ leases_issued + 1 \in Nat
          /\ jobs[j].attempts + 1 \in Nat
      BY DEF TypeOK, JobRow
    <3>2. memory \in WorkerMemory
      BY <3>1, IdleMemory, Zenon DEF WorkerMemory
    <3>3. memory.state = "executing" /\ memory.job = j /\ memory.candidates = {}
      BY DEF Idle
    <3>4. worker' = [worker EXCEPT ![w] = memory]
      BY <1>4 DEF ClaimJob, NewLease
    <3> HIDE DEF memory
    <3> QED
      BY <3>2, <3>3, <3>4 DEF TypeOK, WorkerOK
  <2> QED
    BY <1>4, <2>1, <2>2, <2>3, <2>4 DEF ClaimJob, TypeOK
<1>5. ASSUME NEW w \in Workers, HandlerReturns(w) PROVE TypeInv'
  <2>1. PICK result \in HandlerOutcomes(JobType[worker[w].job],
                          PayloadComplete[worker[w].job], worker[w].attempts) :
          worker' = [worker EXCEPT ![w] =
             [worker[w] EXCEPT !.state = "acking", !.outcome = result,
                       !.lease_live = /\ jobs[worker[w].job].lease_id = worker[w].lease_id
                                      /\ jobs[worker[w].job].lease_expires_in > 0]]
    BY <1>5 DEF HandlerReturns
  <2>2. result \in Outcomes \cup {"none"}
    BY <2>1 DEF HandlerOutcomes, Outcomes
  <2> DEFINE live == /\ jobs[worker[w].job].lease_id = worker[w].lease_id
                     /\ jobs[worker[w].job].lease_expires_in > 0
             memory == [worker[w] EXCEPT !.state = "acking", !.outcome = result,
                                         !.lease_live = live]
  <2>3. worker[w].state = "executing" /\ worker[w].job \in Jobs
    BY <1>5 DEF HandlerReturns, WorkerOK
  <2>4. memory \in WorkerMemory
    <3>1. "acking" \in {"idle", "claiming", "executing", "acking", "down"}
      OBVIOUS
    <3>2. live \in BOOLEAN /\ worker[w] \in WorkerMemory
      BY DEF TypeOK
    <3> HIDE DEF live
    <3> QED
      BY <2>2, <3>1, <3>2, Zenon DEF WorkerMemory
  <2>5. memory.state = "acking" /\ memory.job = worker[w].job /\ memory.candidates = {}
    <3>1. worker[w] \in WorkerMemory /\ worker[w].candidates = {}
      BY <2>3 DEF TypeOK, WorkerOK
    <3> HIDE DEF live
    <3> QED
      BY <3>1 DEF WorkerMemory
  <2>6. worker' = [worker EXCEPT ![w] = memory]
    BY <2>1
  <2> HIDE DEF memory, live
  <2> QED
    BY <1>5, <2>3, <2>4, <2>5, <2>6 DEF HandlerReturns, TypeOK, WorkerOK
<1>6. ASSUME NEW w \in Workers, MarkJobSucceeded(w) PROVE TypeInv'
  <2>1. worker[w].job \in Jobs
    BY <1>6 DEF MarkJobSucceeded, Acknowledge, WorkerOK
  <2>2. Succeeded(jobs[worker[w].job]) \in JobRow /\ "SUCCEEDED" \in EventTypes
    BY <2>1, SucceededRow DEF TypeOK, EventTypes
  <2> QED
    BY <1>6, <2>2, AcknowledgeType DEF MarkJobSucceeded, TypeOK
<1>7. ASSUME NEW w \in Workers, ScheduleJobRetry(w) PROVE TypeInv'
  <2>1. PICK delay \in BackoffDelays(worker[w].attempts) :
          Acknowledge(w, Requeued(jobs[worker[w].job], delay, "handler_error"),
                      "FAILED_RETRY_SCHEDULED")
    BY <1>7 DEF ScheduleJobRetry
  <2>2. worker[w].job \in Jobs
    BY <2>1 DEF Acknowledge, WorkerOK
  <2>3. delay \in Nat
    BY BackoffIsNat DEF TypeOK, WorkerMemory
  <2>4. /\ Requeued(jobs[worker[w].job], delay, "handler_error") \in JobRow
        /\ "FAILED_RETRY_SCHEDULED" \in EventTypes
    BY <2>2, <2>3, RequeuedRow DEF TypeOK, EventTypes, JobErrors
  <2> QED
    BY <1>7, <2>1, <2>4, AcknowledgeType DEF ScheduleJobRetry, TypeOK
<1>8. ASSUME NEW w \in Workers, MoveOwnedJobToDlq(w) PROVE TypeInv'
  <2> DEFINE j == worker[w].job
  <2>1. j \in Jobs
    BY <1>8 DEF MoveOwnedJobToDlq, Acknowledge, WorkerOK
  <2>2. "handler_error" \in JobErrors /\ "DEAD_LETTERED" \in EventTypes
    BY DEF JobErrors, EventTypes
  <2>3. DeadLettered(jobs[j], "handler_error") \in JobRow
    BY <2>1, <2>2, DeadLetteredRow DEF TypeOK
  <2>4. dead_letter_jobs' \in [Jobs -> DeadLetterRow]
    BY <1>8, <2>1, <2>2, DeadLetterType DEF MoveOwnedJobToDlq, TypeOK
  <2>5. Acknowledge(w, DeadLettered(jobs[j], "handler_error"), "DEAD_LETTERED")
    BY <1>8 DEF MoveOwnedJobToDlq
  <2> HIDE DEF j
  <2> QED
    BY <2>2, <2>3, <2>4, <2>5, AcknowledgeType DEF TypeOK
<1>9. ASSUME NEW w \in Workers, AckRejected(w) PROVE TypeInv'
  BY <1>9, ForgetType DEF AckRejected, TypeOK
<1>10. ASSUME RecoverExpiredLeases PROVE TypeInv'
  <2>1. PICK S \in (SUBSET {j \in Jobs : Expired(j)}) \ {{}} :
    /\ \E delay \in [S -> 0..MaxBackoff] :
         /\ \A j \in S : delay[j] \in BackoffDelays(jobs[j].attempts)
         /\ jobs' = [j \in Jobs |->
              IF j \in S THEN TimedOutRow(j, delay[j]) ELSE jobs[j]]
    /\ running_jobs' = [t \in Tenants |->
         ReleaseSlots(running_jobs[t], Cardinality({j \in S : TenantOf[j] = t}))]
    /\ dead_letter_jobs' = [j \in Jobs |->
         IF j \in S /\ jobs[j].attempts >= MaxAttempts
           THEN InsertDeadLetter(j, "lease_expired") ELSE dead_letter_jobs[j]]
    /\ job_events' = [j \in Jobs |->
         IF j \in S THEN Append(job_events[j], TimeoutEvents(j)) ELSE job_events[j]]
    /\ UNCHANGED <<leases_issued, worker, shutdown, interruptions>>
    BY <1>10 DEF RecoverExpiredLeases
  <2>2. S \subseteq Jobs
    OBVIOUS
  <2>3. jobs' \in [Jobs -> JobRow]
    <3>1. PICK delay \in [S -> 0..MaxBackoff] :
            jobs' = [j \in Jobs |-> IF j \in S THEN TimedOutRow(j, delay[j]) ELSE jobs[j]]
      BY <2>1
    <3>2. ASSUME NEW j \in S PROVE TimedOutRow(j, delay[j]) \in JobRow
      <4>1. delay[j] \in Nat /\ j \in Jobs /\ jobs[j] \in JobRow
        BY <2>2, BackoffAssumption DEF TypeOK
      <4> QED
        BY <4>1, TimedOut
    <3> QED
      BY <2>2, <3>1, <3>2 DEF TypeOK
  <2>4. running_jobs' \in [Tenants -> Nat]
    <3>1. ASSUME NEW t \in Tenants
          PROVE  ReleaseSlots(running_jobs[t], Cardinality({j \in S : TenantOf[j] = t})) \in Nat
      <4>1. IsFiniteSet({j \in S : TenantOf[j] = t})
        BY <2>2, FS_Subset, JobQueueAssumption
      <4>2. Cardinality({j \in S : TenantOf[j] = t}) \in Nat
        BY <4>1, FS_CardinalityType
      <4> QED
        BY <4>2 DEF ReleaseSlots, TypeOK
    <3> QED
      BY <2>1, <3>1
  <2>5. dead_letter_jobs' \in [Jobs -> DeadLetterRow]
    BY <2>1, DeadLetterType DEF TypeOK, JobErrors
  <2>6. job_events' \in [Jobs -> Seq(SUBSET JobEvent)]
    <3>1. ASSUME NEW j \in Jobs PROVE TimeoutEvents(j) \in SUBSET JobEvent
      <4>1. jobs[j].attempts \in Nat
        BY DEF TypeOK, JobRow
      <4>2. /\ "RUNNING" \in JobStatus /\ "PENDING" \in JobStatus /\ "DEAD_LETTERED" \in JobStatus
            /\ {"LEASE_EXPIRED", "DEAD_LETTERED", "REQUEUED_FROM_TIMEOUT"} \subseteq EventTypes
        BY DEF JobStatus, EventTypes
      <4>3. /\ Event("LEASE_EXPIRED", "RUNNING", "RUNNING", jobs[j].attempts) \in JobEvent
            /\ Event("DEAD_LETTERED", "RUNNING", "DEAD_LETTERED", jobs[j].attempts) \in JobEvent
            /\ Event("REQUEUED_FROM_TIMEOUT", "RUNNING", "PENDING", jobs[j].attempts) \in JobEvent
        BY <4>1, <4>2, EventType
      <4> QED
        BY <4>3 DEF TimeoutEvents
    <3> QED
      BY <2>1, <3>1 DEF TypeOK
  <2> QED
    BY <2>1, <2>3, <2>4, <2>5, <2>6 DEF TypeOK, WorkerOK
<1>11. ASSUME Tick PROVE TypeInv'
  <2>1. jobs' \in [Jobs -> JobRow]
    <3>1. ASSUME NEW j \in Jobs
          PROVE  [jobs[j] EXCEPT
                    !.lease_expires_in = IF jobs[j].status = "RUNNING" /\ @ > -1 THEN @ - 1 ELSE @,
                    !.run_after_in = IF @ > 0 THEN @ - 1 ELSE @] \in JobRow
      <4>1. /\ jobs[j] \in JobRow
            /\ (IF jobs[j].status = "RUNNING" /\ jobs[j].lease_expires_in > -1
                THEN jobs[j].lease_expires_in - 1 ELSE jobs[j].lease_expires_in) \in Int
            /\ (IF jobs[j].run_after_in > 0
                THEN jobs[j].run_after_in - 1 ELSE jobs[j].run_after_in) \in Nat
        BY DEF TypeOK, JobRow
      <4> QED
        BY <4>1, Zenon DEF JobRow
    <3> QED
      BY <1>11, <3>1 DEF Tick
  <2>2. worker' \in [Workers -> WorkerMemory] /\ WorkerOK'
    <3> DEFINE left(w) == IF worker[w].state = "claiming" /\ worker[w].new_lease_in > -1
                            THEN worker[w].new_lease_in - 1 ELSE worker[w].new_lease_in
    <3>1. \A w \in Workers : left(w) \in Int /\ worker[w] \in WorkerMemory
      BY DEF TypeOK, WorkerMemory
    <3>2. worker' = [w \in Workers |-> [worker[w] EXCEPT !.new_lease_in = left(w)]]
      BY <1>11 DEF Tick
    <3> HIDE DEF left
    <3>3. ASSUME NEW w \in Workers
          PROVE  /\ [worker[w] EXCEPT !.new_lease_in = left(w)] \in WorkerMemory
                 /\ [worker[w] EXCEPT !.new_lease_in = left(w)].state = worker[w].state
                 /\ [worker[w] EXCEPT !.new_lease_in = left(w)].job = worker[w].job
                 /\ [worker[w] EXCEPT !.new_lease_in = left(w)].candidates = worker[w].candidates
      BY <3>1 DEF WorkerMemory
    <3> QED
      BY <3>2, <3>3 DEF WorkerOK
  <2> QED
    BY <1>11, <2>1, <2>2 DEF Tick, TypeOK
<1>12. ASSUME NEW w \in Workers, SignalShutdown(w) PROVE TypeInv'
  BY <1>12 DEF SignalShutdown, TypeOK, WorkerOK
<1>13. ASSUME NEW w \in Workers, StopWorker(w) PROVE TypeInv'
  BY <1>13, ForgetType DEF StopWorker, TypeOK
<1>14. ASSUME NEW w \in Workers, CrashWorker(w) PROVE TypeInv'
  <2>1. worker' \in [Workers -> WorkerMemory] /\ WorkerOK'
    BY <1>14, ForgetType DEF CrashWorker
  <2> QED
    BY <1>14, <2>1 DEF CrashWorker, TypeOK
<1>15. ASSUME NEW w \in Workers, StartWorker(w) PROVE TypeInv'
  BY <1>15, ForgetType DEF StartWorker, TypeOK
<1>16. CASE UNCHANGED vars
  BY <1>16 DEF vars, TypeOK, WorkerOK
<1> QED
  BY <1>1, <1>2, <1>3, <1>4, <1>5, <1>6, <1>7, <1>8, <1>9, <1>10, <1>11, <1>12,
     <1>13, <1>14, <1>15, <1>16 DEF Next, Claim, SettleAttempt

\* Every state of every behaviour has the types, and so satisfies TypeOK.
LEMMA TypeInvariance == Spec => []TypeInv
BY TypeInit, TypeStep, PTL DEF Spec

THEOREM TypeCorrect == Spec => []TypeOK
<1>1. TypeInv => TypeOK
  BY DEF TypeInv
<1> QED
  BY TypeInvariance, <1>1, PTL
=============================================================================
