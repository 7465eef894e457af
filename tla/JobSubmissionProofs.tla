------------------------ MODULE JobSubmissionProofs -------------------------
(***************************************************************************)
(* The safety properties of JobSubmission, proved from one inductive       *)
(* invariant: TypeOK, WindowsExact, OneAnswerPerKey, RejectedOnlyWhenFull  *)
(* and the implementation of SubmissionLedger.                             *)
(***************************************************************************)
EXTENDS JobSubmission, FiniteSetTheorems, TLAPS

-----------------------------------------------------------------------------
(* The inductive invariant                                                  *)

\* r's transaction has inserted its row and not yet ended.
Inserted(r) == pc[r] = "responded" /\ answer[r] = r

\* What each request knows at each step.  A response names a job only if that job is
\* committed, or is the request's own, not committed yet or lost.
RequestInv ==
  \A r \in Requests :
    /\ pc[r] # "new" => began[r] > 0
    /\ pc[r] = "responded" => answer[r] \in Requests
    /\ pc[r] = "done" => answer[r] # Null
    /\ pc[r] \notin {"responded", "done", "aborted"} => answer[r] = Null
    /\ answer[r] \in Requests =>
         \/ answer[r] \in jobs /\ SameSubmission(answer[r], r)
         \/ answer[r] = r /\ pc[r] \in {"responded", "aborted"}

\* A committed job is its own request's answer and was counted in a window that the
\* tenant's row has reached.
JobsInv ==
  \A r \in jobs :
    /\ pc[r] = "done" /\ answer[r] = r
    /\ reserved[r].window_start > 0
    /\ reserved[r].window_start <= rate[TenantOf[r]].window_start

\* At most one open transaction wrote a tenant's rate-limit row.
LockInv ==
  \A q, r \in Requests :
    HoldsRateRow(q) /\ HoldsRateRow(r) /\ TenantOf[q] = TenantOf[r] => q = r

\* The row an open transaction wrote continues the committed one.
WriteInv ==
  \A r \in Requests : HoldsRateRow(r) =>
    LET row == rate[TenantOf[r]]
    IN  /\ reserved[r].window_start > 0
        /\ \/ /\ row.window_start < reserved[r].window_start
              /\ reserved[r].submitted_count = 1
           \/ /\ row.window_start = reserved[r].window_start
              /\ row.submitted_count < SubmitRateLimit[TenantOf[r]]
              /\ reserved[r].submitted_count = row.submitted_count + 1

\* One row for each tenant and key, also among the rows that are not committed yet.
UniqueInv ==
  /\ \A q, r \in jobs : SameSubmission(q, r) => q = r
  /\ \A r \in Requests : Inserted(r) => Existing(r) = {}

\* The counter counts, and no window has more jobs than the limit.
CountInv ==
  \A t \in Tenants :
    /\ rate[t].submitted_count = Cardinality(CountedIn(t, rate[t].window_start))
    /\ \A m \in Nat : Cardinality(CountedIn(t, m)) <= SubmitRateLimit[t]

SubmissionInv ==
  /\ TypeOK /\ RequestInv /\ JobsInv /\ LockInv /\ WriteInv /\ UniqueInv /\ CountInv

-----------------------------------------------------------------------------
(* Initial states and types                                                 *)

\* No job and no rate-limit row: nothing to count, nothing to hold.
LEMMA InitSubmission == Init => SubmissionInv
<1> SUFFICES ASSUME Init PROVE SubmissionInv
  OBVIOUS
<1>1. TypeOK
  BY SubmissionAssumption DEF Init, TypeOK, RateRow, NoRateRow, Steps
<1>2. RequestInv /\ JobsInv
  BY SubmissionAssumption DEF Init, RequestInv, JobsInv
<1>3. LockInv /\ WriteInv /\ UniqueInv
  BY SubmissionAssumption
     DEF Init, LockInv, WriteInv, UniqueInv, HoldsRateRow, Inserted, Existing
<1>4. \A t \in Tenants, m \in Nat : Cardinality(CountedIn(t, m)) = 0
  <2>1. \A t \in Tenants, m \in Nat : CountedIn(t, m) = {}
    BY DEF Init, CountedIn
  <2> QED
    BY <2>1, FS_EmptySet
<1>5. CountInv
  BY <1>4, SubmissionAssumption DEF Init, CountInv, NoRateRow
<1> QED
  BY <1>1, <1>2, <1>3, <1>5 DEF SubmissionInv

\* The row an upsert writes is of its type.
LEMMA CountedType ==
  ASSUME TypeOK, NEW r \in Requests
  PROVE  Counted(r) \in RateRow
<1>1. /\ rate[TenantOf[r]] \in [window_start : 0..minute, submitted_count : Nat]
      /\ began[r] \in 0..minute
  BY SubmissionAssumption DEF TypeOK, RateRow
<1> QED
  BY <1>1 DEF Counted, RateRow

\* Every step keeps the types.
LEMMA TypeStep == TypeOK /\ [Next]_vars => TypeOK'
<1> SUFFICES ASSUME TypeOK, [Next]_vars PROVE TypeOK'
  OBVIOUS
<1> USE DEF TypeOK, Goto, Steps
<1>1. ASSUME NEW r \in Requests, Begin(r) PROVE TypeOK'
  BY <1>1 DEF Begin, RateRow
<1>2. ASSUME NEW r \in Requests, Authenticate(r) PROVE TypeOK'
  BY <1>2 DEF Authenticate, RateRow
<1>3. ASSUME NEW r \in Requests, Replay(r) PROVE TypeOK'
  BY <1>3 DEF Replay, Existing, RateRow
<1>4. ASSUME NEW r \in Requests, Miss(r) PROVE TypeOK'
  BY <1>4 DEF Miss, RateRow
<1>5. ASSUME NEW r \in Requests, Reserve(r) PROVE TypeOK'
  BY <1>5, CountedType DEF Reserve, RateRow
<1>6. ASSUME NEW r \in Requests, Reject(r) PROVE TypeOK'
  BY <1>6 DEF Reject, RateRow
<1>7. ASSUME NEW r \in Requests, InsertJob(r) PROVE TypeOK'
  BY <1>7 DEF InsertJob, RateRow
<1>8. ASSUME NEW r \in Requests, InsertConflicts(r) PROVE TypeOK'
  BY <1>8 DEF InsertConflicts, NoRateRow, RateRow
<1>9. ASSUME NEW r \in Requests, ReplayAfterConflict(r) PROVE TypeOK'
  BY <1>9 DEF ReplayAfterConflict, Existing, RateRow
<1>10. ASSUME NEW r \in Requests, Commit(r) PROVE TypeOK'
  BY <1>10, SubmissionAssumption DEF Commit, RateRow
<1>11. ASSUME NEW r \in Requests, AbortRequest(r) PROVE TypeOK'
  BY <1>11, SubmissionAssumption DEF AbortRequest, NoRateRow, RateRow
<1>12. CASE NextMinute
  BY <1>12, SubmissionAssumption DEF NextMinute, RateRow
<1>13. CASE UNCHANGED vars
  BY <1>13 DEF vars, RateRow
<1> QED
  BY <1>1, <1>2, <1>3, <1>4, <1>5, <1>6, <1>7, <1>8, <1>9, <1>10, <1>11, <1>12, <1>13 DEF Next, CreateJob

-----------------------------------------------------------------------------
(* The steps                                                                *)

\* A request that has not ended has no committed job, so it can only be answered with
\* the job of another.
LEMMA OthersJob ==
  ASSUME JobsInv, NEW r \in Requests, pc[r] # "done"
  PROVE  r \notin jobs /\ r \notin Existing(r)
BY DEF JobsInv, Existing

\* A commit moves the tenant's window to the one its request was counted in, which is
\* not an earlier one.
LEMMA CommitMovesWindow ==
  ASSUME SubmissionInv, NEW r \in Requests, Commit(r), answer[r] = r
  PROVE  /\ jobs' = jobs \cup {r}
         /\ rate' = [rate EXCEPT ![TenantOf[r]] = reserved[r]]
         /\ rate'[TenantOf[r]] = reserved[r]
         /\ reserved[r].window_start > 0
         /\ rate[TenantOf[r]].window_start <= reserved[r].window_start
<1>1. HoldsRateRow(r)
  BY DEF Commit, HoldsRateRow
<1>2. rate[TenantOf[r]] \in RateRow /\ reserved[r] \in RateRow
  BY SubmissionAssumption DEF SubmissionInv, TypeOK
<1> QED
  BY <1>1, <1>2, SubmissionAssumption DEF SubmissionInv, TypeOK, WriteInv, RateRow, Commit

\* Responses name the jobs they should.
LEMMA RequestStep == SubmissionInv /\ [Next]_vars => RequestInv'
<1> SUFFICES ASSUME SubmissionInv, [Next]_vars PROVE RequestInv'
  OBVIOUS
<1> USE SubmissionAssumption DEF SubmissionInv, TypeOK, RequestInv, Goto, Steps, Existing, SameSubmission, JobsInv
<1>1. ASSUME NEW r \in Requests, Begin(r) PROVE RequestInv'
  BY <1>1 DEF Begin
<1>2. ASSUME NEW r \in Requests, Authenticate(r) PROVE RequestInv'
  BY <1>2 DEF Authenticate
<1>3. ASSUME NEW r \in Requests, Replay(r) PROVE RequestInv'
  BY <1>3 DEF Replay
<1>4. ASSUME NEW r \in Requests, Miss(r) PROVE RequestInv'
  BY <1>4 DEF Miss
<1>5. ASSUME NEW r \in Requests, Reserve(r) PROVE RequestInv'
  BY <1>5 DEF Reserve
<1>6. ASSUME NEW r \in Requests, Reject(r) PROVE RequestInv'
  BY <1>6 DEF Reject
<1>7. ASSUME NEW r \in Requests, InsertJob(r) PROVE RequestInv'
  BY <1>7 DEF InsertJob
<1>8. ASSUME NEW r \in Requests, InsertConflicts(r) PROVE RequestInv'
  BY <1>8 DEF InsertConflicts
<1>9. ASSUME NEW r \in Requests, ReplayAfterConflict(r) PROVE RequestInv'
  BY <1>9 DEF ReplayAfterConflict
<1>10. ASSUME NEW r \in Requests, Commit(r) PROVE RequestInv'
  BY <1>10 DEF Commit
<1>11. ASSUME NEW r \in Requests, AbortRequest(r) PROVE RequestInv'
  BY <1>11 DEF AbortRequest, Open
<1>12. CASE NextMinute
  BY <1>12 DEF NextMinute
<1>13. CASE UNCHANGED vars
  BY <1>13 DEF vars
<1> QED
  BY <1>1, <1>2, <1>3, <1>4, <1>5, <1>6, <1>7, <1>8, <1>9, <1>10, <1>11, <1>12, <1>13 DEF Next, CreateJob

\* A holder of the rate-limit row excludes every other of the tenant.
LEMMA LockStep == SubmissionInv /\ [Next]_vars => LockInv'
<1> SUFFICES ASSUME SubmissionInv, [Next]_vars PROVE LockInv'
  OBVIOUS
<1> USE SubmissionAssumption DEF SubmissionInv, TypeOK, LockInv, Goto, HoldsRateRow, RateRowFree, RequestInv, JobsInv
<1>1. ASSUME NEW r \in Requests, Begin(r) PROVE LockInv'
  BY <1>1 DEF Begin
<1>2. ASSUME NEW r \in Requests, Authenticate(r) PROVE LockInv'
  BY <1>2 DEF Authenticate
<1>3. ASSUME NEW r \in Requests, Replay(r) PROVE LockInv'
  BY <1>3, OthersJob DEF Replay
<1>4. ASSUME NEW r \in Requests, Miss(r) PROVE LockInv'
  BY <1>4 DEF Miss
<1>5. ASSUME NEW r \in Requests, Reserve(r) PROVE LockInv'
  BY <1>5 DEF Reserve
<1>6. ASSUME NEW r \in Requests, Reject(r) PROVE LockInv'
  BY <1>6 DEF Reject
<1>7. ASSUME NEW r \in Requests, InsertJob(r) PROVE LockInv'
  BY <1>7 DEF InsertJob
<1>8. ASSUME NEW r \in Requests, InsertConflicts(r) PROVE LockInv'
  BY <1>8 DEF InsertConflicts, NoRateRow
<1>9. ASSUME NEW r \in Requests, ReplayAfterConflict(r) PROVE LockInv'
  BY <1>9 DEF ReplayAfterConflict
<1>10. ASSUME NEW r \in Requests, Commit(r) PROVE LockInv'
  BY <1>10 DEF Commit
<1>11. ASSUME NEW r \in Requests, AbortRequest(r) PROVE LockInv'
  BY <1>11 DEF AbortRequest
<1>12. CASE NextMinute
  BY <1>12 DEF NextMinute
<1>13. CASE UNCHANGED vars
  BY <1>13 DEF vars
<1> QED
  BY <1>1, <1>2, <1>3, <1>4, <1>5, <1>6, <1>7, <1>8, <1>9, <1>10, <1>11, <1>12, <1>13 DEF Next, CreateJob

\* Only its holder changes a rate-limit row.
LEMMA WriteStep == SubmissionInv /\ [Next]_vars => WriteInv'
<1> SUFFICES ASSUME SubmissionInv, [Next]_vars PROVE WriteInv'
  OBVIOUS
<1> USE SubmissionAssumption DEF SubmissionInv, TypeOK, WriteInv, Goto, HoldsRateRow, RateRowFree, LockInv, RequestInv, RateRow, JobsInv
<1>1. ASSUME NEW r \in Requests, Begin(r) PROVE WriteInv'
  BY <1>1 DEF Begin
<1>2. ASSUME NEW r \in Requests, Authenticate(r) PROVE WriteInv'
  BY <1>2 DEF Authenticate
<1>3. ASSUME NEW r \in Requests, Replay(r) PROVE WriteInv'
  BY <1>3, OthersJob DEF Replay
<1>4. ASSUME NEW r \in Requests, Miss(r) PROVE WriteInv'
  BY <1>4 DEF Miss
<1>5. ASSUME NEW r \in Requests, Reserve(r) PROVE WriteInv'
  BY <1>5 DEF Reserve, Counted, HasQuota
<1>6. ASSUME NEW r \in Requests, Reject(r) PROVE WriteInv'
  BY <1>6 DEF Reject
<1>7. ASSUME NEW r \in Requests, InsertJob(r) PROVE WriteInv'
  BY <1>7 DEF InsertJob
<1>8. ASSUME NEW r \in Requests, InsertConflicts(r) PROVE WriteInv'
  BY <1>8 DEF InsertConflicts, NoRateRow
<1>9. ASSUME NEW r \in Requests, ReplayAfterConflict(r) PROVE WriteInv'
  BY <1>9 DEF ReplayAfterConflict
<1>10. ASSUME NEW r \in Requests, Commit(r) PROVE WriteInv'
  BY <1>10 DEF Commit
<1>11. ASSUME NEW r \in Requests, AbortRequest(r) PROVE WriteInv'
  BY <1>11 DEF AbortRequest, NoRateRow
<1>12. CASE NextMinute
  BY <1>12 DEF NextMinute
<1>13. CASE UNCHANGED vars
  BY <1>13 DEF vars
<1> QED
  BY <1>1, <1>2, <1>3, <1>4, <1>5, <1>6, <1>7, <1>8, <1>9, <1>10, <1>11, <1>12, <1>13 DEF Next, CreateJob

\* Windows only move forward, and a committed job stays where it was counted.
LEMMA JobsStep == SubmissionInv /\ [Next]_vars => JobsInv'
<1> SUFFICES ASSUME SubmissionInv, [Next]_vars PROVE JobsInv'
  OBVIOUS
<1> USE SubmissionAssumption DEF SubmissionInv, TypeOK, JobsInv, Goto, HoldsRateRow, WriteInv, RequestInv, RateRow
<1>1. ASSUME NEW r \in Requests, Begin(r) PROVE JobsInv'
  BY <1>1 DEF Begin
<1>2. ASSUME NEW r \in Requests, Authenticate(r) PROVE JobsInv'
  BY <1>2 DEF Authenticate
<1>3. ASSUME NEW r \in Requests, Replay(r) PROVE JobsInv'
  BY <1>3 DEF Replay
<1>4. ASSUME NEW r \in Requests, Miss(r) PROVE JobsInv'
  BY <1>4 DEF Miss
<1>5. ASSUME NEW r \in Requests, Reserve(r) PROVE JobsInv'
  BY <1>5 DEF Reserve
<1>6. ASSUME NEW r \in Requests, Reject(r) PROVE JobsInv'
  BY <1>6 DEF Reject
<1>7. ASSUME NEW r \in Requests, InsertJob(r) PROVE JobsInv'
  BY <1>7 DEF InsertJob
<1>8. ASSUME NEW r \in Requests, InsertConflicts(r) PROVE JobsInv'
  BY <1>8 DEF InsertConflicts
<1>9. ASSUME NEW r \in Requests, ReplayAfterConflict(r) PROVE JobsInv'
  BY <1>9 DEF ReplayAfterConflict
<1>10. ASSUME NEW r \in Requests, Commit(r) PROVE JobsInv'
  <2>1. CASE answer[r] = r
    <3>1. ASSUME NEW q \in jobs'
          PROVE  /\ pc'[q] = "done" /\ answer'[q] = q
                 /\ reserved'[q].window_start > 0
                 /\ reserved'[q].window_start <= rate'[TenantOf[q]].window_start
      <4>1. /\ reserved[q] \in RateRow /\ rate[TenantOf[q]] \in RateRow
            /\ reserved[r] \in RateRow /\ rate[TenantOf[r]] \in RateRow
        BY <2>1, <1>10, <3>1, CommitMovesWindow
      <4>2. CASE q = r
        BY <4>1, <4>2, <2>1, <1>10, CommitMovesWindow DEF Commit, RateRow
      <4>3. CASE q # r
        <5>1. q \in jobs /\ pc'[q] = "done" /\ answer'[q] = q /\ reserved'[q] = reserved[q]
          BY <4>3, <3>1, <2>1, <1>10, CommitMovesWindow DEF Commit
        <5>2. rate[TenantOf[q]].window_start <= rate'[TenantOf[q]].window_start
          BY <4>1, <2>1, <1>10, CommitMovesWindow DEF RateRow
        <5>3. rate'[TenantOf[q]] \in RateRow
          BY <4>1, <2>1, <1>10, CommitMovesWindow
        <5> QED
          BY <4>1, <5>1, <5>2, <5>3 DEF RateRow
      <4> QED
        BY <4>2, <4>3
    <3> QED
      BY <3>1
  <2>2. CASE answer[r] # r
    BY <2>2, <1>10 DEF Commit
  <2> QED
    BY <2>1, <2>2
<1>11. ASSUME NEW r \in Requests, AbortRequest(r) PROVE JobsInv'
  BY <1>11 DEF AbortRequest, Open
<1>12. CASE NextMinute
  BY <1>12 DEF NextMinute
<1>13. CASE UNCHANGED vars
  BY <1>13 DEF vars
<1> QED
  BY <1>1, <1>2, <1>3, <1>4, <1>5, <1>6, <1>7, <1>8, <1>9, <1>10, <1>11, <1>12, <1>13 DEF Next, CreateJob

\* No second row with a tenant and key is inserted.
LEMMA UniqueStep == SubmissionInv /\ [Next]_vars => UniqueInv'
<1> SUFFICES ASSUME SubmissionInv, [Next]_vars PROVE UniqueInv'
  OBVIOUS
<1> USE SubmissionAssumption DEF SubmissionInv, TypeOK, UniqueInv, Goto, HoldsRateRow, LockInv, RequestInv, Existing, SameSubmission, Inserted, JobsInv
<1>1. ASSUME NEW r \in Requests, Begin(r) PROVE UniqueInv'
  BY <1>1 DEF Begin
<1>2. ASSUME NEW r \in Requests, Authenticate(r) PROVE UniqueInv'
  BY <1>2 DEF Authenticate
<1>3. ASSUME NEW r \in Requests, Replay(r) PROVE UniqueInv'
  BY <1>3, OthersJob DEF Replay
<1>4. ASSUME NEW r \in Requests, Miss(r) PROVE UniqueInv'
  BY <1>4 DEF Miss
<1>5. ASSUME NEW r \in Requests, Reserve(r) PROVE UniqueInv'
  BY <1>5 DEF Reserve
<1>6. ASSUME NEW r \in Requests, Reject(r) PROVE UniqueInv'
  BY <1>6 DEF Reject
<1>7. ASSUME NEW r \in Requests, InsertJob(r) PROVE UniqueInv'
  BY <1>7 DEF InsertJob, Conflicts
<1>8. ASSUME NEW r \in Requests, InsertConflicts(r) PROVE UniqueInv'
  BY <1>8 DEF InsertConflicts
<1>9. ASSUME NEW r \in Requests, ReplayAfterConflict(r) PROVE UniqueInv'
  BY <1>9 DEF ReplayAfterConflict
<1>10. ASSUME NEW r \in Requests, Commit(r) PROVE UniqueInv'
  BY <1>10 DEF Commit
<1>11. ASSUME NEW r \in Requests, AbortRequest(r) PROVE UniqueInv'
  BY <1>11 DEF AbortRequest
<1>12. CASE NextMinute
  BY <1>12 DEF NextMinute
<1>13. CASE UNCHANGED vars
  BY <1>13 DEF vars
<1> QED
  BY <1>1, <1>2, <1>3, <1>4, <1>5, <1>6, <1>7, <1>8, <1>9, <1>10, <1>11, <1>12, <1>13 DEF Next, CreateJob

-----------------------------------------------------------------------------
(* Counting                                                                 *)

\* The tables, and the windows of the committed jobs, stay as they are.
Quiet ==
  /\ jobs' = jobs
  /\ rate' = rate
  /\ \A q \in jobs : reserved'[q] = reserved[q]

\* Only the commit of an accepted submission changes the tables.
LEMMA OnlyCommitsCount ==
  ASSUME SubmissionInv, [Next]_vars
  PROVE  Quiet \/ \E r \in Requests : Commit(r) /\ answer[r] = r
<1> USE DEF SubmissionInv, TypeOK, Quiet
<1>1. ASSUME NEW r \in Requests,
             \/ Begin(r) \/ Authenticate(r) \/ Replay(r) \/ Miss(r) \/ Reject(r)
             \/ InsertJob(r) \/ ReplayAfterConflict(r)
      PROVE  Quiet
  BY <1>1 DEF Begin, Authenticate, Replay, Miss, Reject, InsertJob, ReplayAfterConflict
<1>2. ASSUME NEW r \in Requests, Reserve(r) \/ InsertConflicts(r) \/ AbortRequest(r)
      PROVE  Quiet
  <2>1. pc[r] # "done" /\ jobs' = jobs /\ rate' = rate
    BY <1>2 DEF Reserve, InsertConflicts, AbortRequest, Open
  <2>2. \A q \in jobs : q # r
    BY <2>1, OthersJob
  <2>3. \A q \in jobs : reserved'[q] = reserved[q]
    BY <1>2, <2>2 DEF Reserve, InsertConflicts, AbortRequest
  <2> QED
    BY <2>1, <2>3
<1>3. ASSUME NEW r \in Requests, Commit(r), answer[r] # r PROVE Quiet
  BY <1>3 DEF Commit
<1>4. CASE NextMinute \/ UNCHANGED vars
  BY <1>4 DEF NextMinute, vars
<1> QED
  BY <1>1, <1>2, <1>3, <1>4 DEF Next, CreateJob

\* The jobs counted in a window are finitely many.
LEMMA CountedFinite ==
  ASSUME TypeOK, NEW t, NEW m
  PROVE  IsFiniteSet(CountedIn(t, m)) /\ Cardinality(CountedIn(t, m)) \in Nat
<1>1. CountedIn(t, m) \subseteq Requests
  BY DEF CountedIn, TypeOK
<1> QED
  BY <1>1, FS_Subset, FS_CardinalityType, SubmissionAssumption

\* No job is counted in a window that the tenant's row has not reached.
LEMMA NothingAhead ==
  ASSUME TypeOK, JobsInv, NEW t \in Tenants, NEW m \in Nat, rate[t].window_start < m
  PROVE  CountedIn(t, m) = {} /\ Cardinality(CountedIn(t, m)) = 0
<1>1. ASSUME NEW q \in CountedIn(t, m) PROVE FALSE
  <2>1. q \in jobs /\ TenantOf[q] = t /\ reserved[q].window_start = m
    BY <1>1 DEF CountedIn
  <2>2. rate[t] \in RateRow /\ reserved[q].window_start <= rate[t].window_start
    BY <2>1 DEF TypeOK, JobsInv
  <2> QED
    BY <2>1, <2>2 DEF RateRow, TypeOK
<1>2. CountedIn(t, m) = {}
  BY <1>1
<1> QED
  BY <1>2, FS_EmptySet

\* A request that wrote the rate-limit row found room in its window.
LEMMA RoomInWindow ==
  ASSUME SubmissionInv, NEW r \in Requests, HoldsRateRow(r)
  PROVE  LET room == Cardinality(CountedIn(TenantOf[r], reserved[r].window_start))
         IN  /\ room < SubmitRateLimit[TenantOf[r]]
             /\ reserved[r].submitted_count = room + 1
<1> DEFINE t == TenantOf[r]
<1>1. /\ t \in Tenants /\ SubmitRateLimit[t] \in Nat \ {0}
      /\ rate[t] \in RateRow /\ reserved[r] \in RateRow
  BY SubmissionAssumption DEF SubmissionInv, TypeOK
<1>2. CASE /\ rate[t].window_start < reserved[r].window_start
           /\ reserved[r].submitted_count = 1
  <2>1. Cardinality(CountedIn(t, reserved[r].window_start)) = 0
    BY <1>1, <1>2, NothingAhead DEF SubmissionInv, RateRow
  <2> QED
    BY <1>1, <1>2, <2>1
<1>3. CASE /\ rate[t].window_start = reserved[r].window_start
           /\ rate[t].submitted_count < SubmitRateLimit[t]
           /\ reserved[r].submitted_count = rate[t].submitted_count + 1
  BY <1>1, <1>3 DEF SubmissionInv, CountInv
<1> QED
  BY <1>2, <1>3 DEF SubmissionInv, WriteInv

\* The counter keeps counting and no window gets more jobs than its limit.
LEMMA CountStep == SubmissionInv /\ [Next]_vars => CountInv'
<1> SUFFICES ASSUME SubmissionInv, [Next]_vars PROVE CountInv'
  OBVIOUS
<1>1. CASE Quiet
  <2>1. \A t, m : CountedIn(t, m)' = CountedIn(t, m)
    BY <1>1 DEF Quiet, CountedIn
  <2> QED
    BY <1>1, <2>1 DEF Quiet, CountInv, SubmissionInv
<1>2. ASSUME NEW r \in Requests, Commit(r), answer[r] = r
      PROVE  CountInv'
  <2>1. /\ jobs' = jobs \cup {r} /\ reserved' = reserved
        /\ rate' = [rate EXCEPT ![TenantOf[r]] = reserved[r]]
        /\ HoldsRateRow(r) /\ r \notin jobs
    BY <1>2, OthersJob DEF Commit, HoldsRateRow, SubmissionInv
  <2>2. reserved[r] \in RateRow /\ rate \in [Tenants -> RateRow]
    BY DEF SubmissionInv, TypeOK
  <2>3. PICK t \in Tenants : t = TenantOf[r]
    BY SubmissionAssumption
  <2>4. PICK m \in Nat : m = reserved[r].window_start
    BY <2>2 DEF RateRow, SubmissionInv, TypeOK
  <2>5. SubmitRateLimit[t] \in Nat /\ rate'[t] = reserved[r] /\ r \notin CountedIn(t, m)
    BY <2>1, <2>2, <2>3, SubmissionAssumption DEF CountedIn
  <2>6. CountedIn(t, m)' = CountedIn(t, m) \cup {r}
    BY <2>1, <2>3, <2>4 DEF CountedIn
  <2>7. /\ Cardinality(CountedIn(t, m)') = reserved[r].submitted_count
        /\ Cardinality(CountedIn(t, m)') <= SubmitRateLimit[t]
    <3>1. IsFiniteSet(CountedIn(t, m)) /\ Cardinality(CountedIn(t, m)) \in Nat
      BY CountedFinite DEF SubmissionInv
    <3>2. Cardinality(CountedIn(t, m)') = Cardinality(CountedIn(t, m)) + 1
      BY <2>5, <2>6, <3>1, FS_AddElement
    <3>3. /\ Cardinality(CountedIn(t, m)) < SubmitRateLimit[t]
          /\ reserved[r].submitted_count = Cardinality(CountedIn(t, m)) + 1
      BY <2>1, <2>3, <2>4, RoomInWindow
    <3> QED
      BY <2>5, <3>1, <3>2, <3>3
  <2>8. ASSUME NEW u \in Tenants, NEW n, u # t \/ n # m
        PROVE  CountedIn(u, n)' = CountedIn(u, n)
    BY <2>1, <2>3, <2>4, <2>8 DEF CountedIn
  <2>9. ASSUME NEW u \in Tenants
        PROVE  /\ rate'[u].submitted_count = Cardinality(CountedIn(u, rate[u].window_start)')
               /\ \A n \in Nat : Cardinality(CountedIn(u, n)') <= SubmitRateLimit[u]
    <3>1. /\ rate[u].submitted_count = Cardinality(CountedIn(u, rate[u].window_start))
          /\ \A n \in Nat : Cardinality(CountedIn(u, n)) <= SubmitRateLimit[u]
      BY DEF SubmissionInv, CountInv
    <3>2. \A n \in Nat : Cardinality(CountedIn(u, n)') <= SubmitRateLimit[u]
      BY <2>7, <2>8, <3>1
    <3>3. PICK n : n = rate'[u].window_start
      OBVIOUS
    <3>4. rate'[u].submitted_count = Cardinality(CountedIn(u, n)')
      <4>1. CASE u = t
        BY <2>4, <2>5, <2>7, <3>3, <4>1
      <4>2. CASE u # t
        BY <2>1, <2>2, <2>3, <2>8, <3>1, <3>3, <4>2
      <4> QED
        BY <4>1, <4>2
    <3> QED
      BY <3>2, <3>3, <3>4
  <2> QED
    BY <2>9 DEF CountInv
<1> QED
  BY <1>1, <1>2, OnlyCommitsCount

-----------------------------------------------------------------------------
(* The theorems                                                             *)

\* SubmissionInv is inductive.
THEOREM SubmissionInvariance == Spec => []SubmissionInv
<1>1. SubmissionInv /\ [Next]_vars => SubmissionInv'
  BY TypeStep, RequestStep, LockStep, WriteStep, JobsStep, UniqueStep, CountStep
     DEF SubmissionInv
<1> QED
  BY <1>1, InitSubmission, PTL DEF Spec

\* The tables and the requests always hold values of their types.
THEOREM SubmissionTypes == Spec => []TypeOK
<1>1. SubmissionInv => TypeOK
  BY DEF SubmissionInv
<1> QED
  BY <1>1, SubmissionInvariance, PTL

\* The window counter is exact and no window exceeds the tenant's limit.
THEOREM WindowsCorrect == Spec => []WindowsExact
<1>1. SubmissionInv => WindowsExact
  BY DEF SubmissionInv, CountInv, WindowsExact, TypeOK
<1> QED
  BY <1>1, SubmissionInvariance, PTL

\* All requests of a tenant with one key that are answered with a job are answered with
\* the same one.
THEOREM AnswersAgree == Spec => []OneAnswerPerKey
<1>1. SubmissionInv => OneAnswerPerKey
  <2> SUFFICES ASSUME SubmissionInv, NEW q \in Requests, NEW r \in Requests,
                      Answered(q), Answered(r), SameSubmission(q, r)
               PROVE  answer[q] = answer[r] /\ answer[r] \in Existing(r)
    BY DEF OneAnswerPerKey
  <2>1. ASSUME NEW p \in Requests, Answered(p)
        PROVE  answer[p] \in jobs /\ SameSubmission(answer[p], p)
    <3>1. answer[p] \in Requests /\ pc[p] = "done"
      BY <2>1 DEF Answered, SubmissionInv, TypeOK, RequestInv
    <3> QED
      BY <3>1 DEF SubmissionInv, RequestInv
  <2>2. SameSubmission(answer[q], answer[r])
    BY <2>1 DEF SameSubmission
  <2> QED
    BY <2>1, <2>2 DEF SubmissionInv, UniqueInv, Existing
<1> QED
  BY <1>1, SubmissionInvariance, PTL

\* A refused request met a window that was full of accepted jobs.
THEOREM RefusalsJustified == Spec => RejectedOnlyWhenFull
<1> DEFINE Justified ==
      \A r \in Requests :
        LET t == TenantOf[r]
        IN  answer'[r] = RateLimited /\ answer[r] # RateLimited =>
              /\ rate[t].window_start >= began[r]
              /\ Cardinality(CountedIn(t, rate[t].window_start)) >= SubmitRateLimit[t]
<1>1. SubmissionInv /\ [Next]_vars => Justified
  <2> SUFFICES ASSUME SubmissionInv, [Next]_vars, NEW r \in Requests,
                      answer'[r] = RateLimited, answer[r] # RateLimited
               PROVE  /\ rate[TenantOf[r]].window_start >= began[r]
                      /\ Cardinality(CountedIn(TenantOf[r], rate[TenantOf[r]].window_start))
                           >= SubmitRateLimit[TenantOf[r]]
    OBVIOUS
  <2>1. Reject(r)
    <3>1. ASSUME NEW q \in Requests, Reject(q) PROVE q = r
      BY <3>1 DEF Reject, SubmissionInv, TypeOK
    <3>2. ASSUME NEW q \in Requests,
                 \/ Begin(q) \/ Authenticate(q) \/ Replay(q) \/ Miss(q) \/ Reserve(q)
                 \/ InsertJob(q) \/ InsertConflicts(q) \/ ReplayAfterConflict(q)
                 \/ Commit(q) \/ AbortRequest(q)
          PROVE  FALSE
      BY <3>2, SubmissionAssumption
         DEF Begin, Authenticate, Replay, Miss, Reserve, InsertJob, InsertConflicts,
             ReplayAfterConflict, Commit, AbortRequest, SubmissionInv, TypeOK, Existing
    <3>3. ~NextMinute /\ ~UNCHANGED vars
      BY DEF NextMinute, vars
    <3> QED
      BY <3>1, <3>2, <3>3 DEF Next, CreateJob
  <2>2. /\ TenantOf[r] \in Tenants /\ SubmitRateLimit[TenantOf[r]] \in Nat
        /\ rate[TenantOf[r]] \in RateRow /\ began[r] \in Nat
    BY SubmissionAssumption DEF SubmissionInv, TypeOK
  <2>3. ~HasQuota(r)
    BY <2>1 DEF Reject
  <2>4. rate[TenantOf[r]].submitted_count =
          Cardinality(CountedIn(TenantOf[r], rate[TenantOf[r]].window_start))
    BY <2>2 DEF SubmissionInv, CountInv
  <2> QED
    BY <2>2, <2>3, <2>4 DEF HasQuota, RateRow, SubmissionInv, TypeOK
<1> QED
  BY <1>1, SubmissionInvariance, PTL DEF Spec, RejectedOnlyWhenFull

\* Cardinality means the same in both modules.
LEMMA LedgerCardinality ==
  ASSUME NEW S
  PROVE  Ledger!Cardinality(S) = Cardinality(S)
BY DEF Ledger!Cardinality, Cardinality

\* Every behaviour of the endpoint, seen through the committed jobs and the windows
\* they were counted in, is one SubmissionLedger allows.
THEOREM SubmissionImplementsLedger == Spec => ImplementsLedger
<1> DEFINE accepted == [r \in Requests |-> IF r \in jobs THEN reserved[r].window_start ELSE 0]
<1>1. Init => Ledger!Init
  BY DEF Init, Ledger!Init
<1>2. SubmissionInv /\ [Next]_vars => [Ledger!Next]_accepted
  <2> SUFFICES ASSUME SubmissionInv, [Next]_vars PROVE Ledger!Next \/ accepted' = accepted
    OBVIOUS
  <2>1. CASE Quiet
    BY <2>1 DEF Quiet
  <2>2. ASSUME NEW r \in Requests, Commit(r), answer[r] = r PROVE Ledger!Next
    <3> DEFINE m == reserved[r].window_start
               t == TenantOf[r]
    <3>1. /\ jobs' = jobs \cup {r} /\ reserved' = reserved
          /\ Inserted(r) /\ HoldsRateRow(r) /\ r \notin jobs
      BY <2>2, OthersJob DEF Commit, Inserted, HoldsRateRow, SubmissionInv
    <3>2. /\ accepted[r] = 0
          /\ accepted' = [accepted EXCEPT ![r] = m]
          /\ accepted'[r] = m
      BY <3>1 DEF SubmissionInv, TypeOK
    <3>3. m > 0
      BY <2>2, CommitMovesWindow
    <3>4. ASSUME NEW q \in Requests, TenantOf[q] = t, accepted[q] > 0
          PROVE  KeyOf[q] # KeyOf[r] /\ accepted[q] <= m
      <4>1. q \in jobs /\ accepted[q] = reserved[q].window_start
        BY <3>4
      <4>2. q \notin Existing(r)
        BY <3>1 DEF SubmissionInv, UniqueInv
      <4>3. /\ reserved[q] \in RateRow /\ reserved[r] \in RateRow /\ rate[t] \in RateRow
        BY SubmissionAssumption DEF SubmissionInv, TypeOK
      <4>4. reserved[q].window_start <= rate[t].window_start
        BY <3>4, <4>1 DEF SubmissionInv, JobsInv
      <4>5. rate[t].window_start <= m
        BY <2>2, CommitMovesWindow
      <4>6. accepted[q] <= m
        BY <4>1, <4>3, <4>4, <4>5 DEF RateRow, SubmissionInv, TypeOK
      <4> QED
        BY <3>4, <4>1, <4>2, <4>6 DEF Existing, SameSubmission
    <3>5. Ledger!Cardinality(Ledger!CountedIn(t, m)) < SubmitRateLimit[t]
      <4>1. Ledger!CountedIn(t, m) = CountedIn(t, m)
        BY <3>3 DEF Ledger!CountedIn, CountedIn, SubmissionInv, TypeOK
      <4> QED
        BY <3>1, <4>1, RoomInWindow, LedgerCardinality
    <3>6. Ledger!Accept(r, accepted'[r])
      BY <3>2, <3>3, <3>4, <3>5 DEF Ledger!Accept
    <3> QED
      BY <3>6 DEF Ledger!Next
  <2> QED
    BY <2>1, <2>2, OnlyCommitsCount
<1> QED
  BY <1>1, <1>2, SubmissionInvariance, PTL DEF Spec, ImplementsLedger, Ledger!Spec
=============================================================================
