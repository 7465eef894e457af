----------------------- MODULE LifecycleMetricsProofs -----------------------
(* Proofs about LifecycleMetrics, for any finite set of jobs, any number of   *)
(* overlapping scrapes, rollbacks and restarts.                               *)
EXTENDS LifecycleMetrics, FiniteSetTheorems, TLAPS

-----------------------------------------------------------------------------
(* The inductive invariant                                                  *)

Later == {"synced", "counts", "dead_letters", "set", "limits", "refreshed"}

\* What a scrape holds is not ahead of the committed events, and once it synchronised
\* the counters they have what was committed when it began.
SyncInv ==
  \A s \in Scrapes : \A x \in Series :
    /\ scrape[s].totals[x] <= events[x]
    /\ scrape[s].since[x] <= events[x]
    /\ scrape[s].step = "totals" => scrape[s].since[x] <= scrape[s].totals[x]
    /\ scrape[s].step \in Later => scrape[s].since[x] <= registry["api"].counter[x]

\* What the scrape s has seen, if it is alone: the present counts and those it read.
SeenInv(s) ==
  /\ scrape[s].step \in Open
  /\ \A q \in Scrapes \ {s} : scrape[q].step \notin Open
  /\ JobCounts(jobs) \in truths[s]
  /\ scrape[s].step \in {"counts", "dead_letters"} => scrape[s].counts \in truths[s]
  /\ scrape[s].step \in {"set", "limits", "refreshed"} => gauge.queue_depth \in truths[s]
  /\ scrape[s].step = "limits" => \E c \in truths[s] : scrape[s].slots = c["RUNNING"]
  /\ scrape[s].step = "refreshed" =>
       \E c \in truths[s] : gauge.runtime_slots_used = c["RUNNING"]

LoneInv ==
  /\ truths = [s \in Scrapes |-> truths[s]]
  /\ \A s \in Scrapes : scrape[s].alone = TRUE => SeenInv(s)

\* A pending job has an attempt left.
AttemptsInv ==
  \A j \in Jobs :
    /\ jobs[j].status \in {"ABSENT", "RECORDED"} => jobs[j].attempts = 0
    /\ jobs[j].status = "PENDING" => jobs[j].attempts < MaxAttempts

MetricsInv == TypeOK /\ AttemptsInv /\ NothingCountedTwice /\ SyncInv /\ LoneInv

-----------------------------------------------------------------------------
(* Counting                                                                 *)

LEMMA SeriesTypes ==
  /\ Zero \in [Series -> Nat]
  /\ \A S : Once(S) \in [Series -> Nat]
BY DEF Zero, Once

\* The API's counter and its snapshot rise together.
LEMMA IncrementFacts ==
  ASSUME NEW r \in Registry, NEW amount \in [Series -> Nat], r.snapshot = r.counter
  PROVE  /\ Increment(r, amount) \in Registry
         /\ Increment(r, amount).counter = [x \in Series |-> r.counter[x] + amount[x]]
         /\ Increment(r, amount).snapshot = Increment(r, amount).counter
<1> DEFINE sum == [x \in Series |-> r.counter[x] + amount[x]]
<1>1. r.counter \in [Series -> Nat]
  BY DEF Registry
<1>2. sum \in [Series -> Nat]
  BY <1>1
<1>3. Increment(r, amount) = [r EXCEPT !.counter = sum, !.snapshot = sum]
  BY DEF Increment
<1> HIDE DEF sum
<1>4. /\ [r EXCEPT !.counter = sum, !.snapshot = sum] \in Registry
      /\ [r EXCEPT !.counter = sum, !.snapshot = sum].counter = sum
      /\ [r EXCEPT !.counter = sum, !.snapshot = sum].snapshot = sum
  BY <1>2 DEF Registry
<1> QED
  BY <1>3, <1>4 DEF sum

LEMMA RecordFacts ==
  ASSUME NEW r \in Registry, NEW S, NEW h \in {"queue_wait", "execution_duration"},
         r.snapshot = r.counter
  PROVE  /\ Record(r, S, h) \in Registry
         /\ Record(r, S, h).snapshot = Record(r, S, h).counter
<1> DEFINE i == Increment(r, Once(S))
<1>1. i \in Registry /\ i.snapshot = i.counter
  BY SeriesTypes, IncrementFacts
<1>2. Record(r, S, h) = [i EXCEPT !.observed[h] = @ + 1]
  BY DEF Record
<1> HIDE DEF i
<1> QED
  BY <1>1, <1>2 DEF Registry

LEMMA EmptyRegistryFacts ==
  /\ EmptyRegistry \in Registry /\ EmptyRegistry.snapshot = EmptyRegistry.counter
  /\ \A x \in Series : EmptyRegistry.counter[x] = 0
BY DEF EmptyRegistry, Registry, Zero

Recorded == {j \in Jobs : jobs[j].status = "RECORDED"}

LEMMA RecordedFinite ==
  Recorded \subseteq Jobs /\ IsFiniteSet(Recorded) /\ Cardinality(Recorded) \in Nat
BY LifecycleMetricsAssumption, FS_Subset, FS_CardinalityType DEF Recorded

LEMMA CountsType ==
  ASSUME jobs \in [Jobs -> JobRow]
  PROVE  JobCounts(jobs) \in Counts
<1>1. \A x \in JobStatus : Cardinality({j \in Jobs : jobs[j].status = x}) \in 0..Cardinality(Jobs)
  <2> TAKE x \in JobStatus
  <2> DEFINE S == {j \in Jobs : jobs[j].status = x}
  <2>1. S \subseteq Jobs
    OBVIOUS
  <2>2. Cardinality(S) <= Cardinality(Jobs) /\ IsFiniteSet(S)
    BY <2>1, LifecycleMetricsAssumption, FS_Subset
  <2>3. Cardinality(S) \in Nat /\ Cardinality(Jobs) \in Nat
    BY <2>2, LifecycleMetricsAssumption, FS_CardinalityType
  <2> QED
    BY <2>2, <2>3
<1> QED
  BY <1>1 DEF JobCounts, Counts

\* The counts ignore what is not committed.
LEMMA SameCounts ==
  ASSUME NEW rows, NEW rows2,
         \A j \in Jobs, x \in JobStatus : rows[j].status = x <=> rows2[j].status = x
  PROVE  JobCounts(rows) = JobCounts(rows2)
<1>1. \A x \in JobStatus : {j \in Jobs : rows[j].status = x} = {j \in Jobs : rows2[j].status = x}
  OBVIOUS
<1> QED
  BY <1>1 DEF JobCounts

LEMMA UncommittedType == \A x \in Series : rolled_back \in Nat => Uncommitted(x) \in Nat
BY RecordedFinite DEF Uncommitted, Recorded


-----------------------------------------------------------------------------
(* The processes that change jobs                                          *)

\* A step that commits no worse than the invariant allows: rows, events, the API's
\* counters and what lone scrapes have seen.
LEMMA JobsKeepInv ==
  ASSUME MetricsInv,
         jobs' \in [Jobs -> JobRow], AttemptsInv',
         events' \in [Series -> Nat], \A x \in Series : events[x] <= events'[x],
         registry' \in [Processes -> Registry],
         \A p \in Processes : registry'[p].snapshot = registry'[p].counter,
         \A x \in Series : registry["api"].counter[x] <= registry'["api"].counter[x],
         NothingCountedTwice',
         rolled_back' \in 0..MaxRollbacks,
         UNCHANGED <<gauge, scrape, restarts>>,
         truths' = [s \in Scrapes |-> truths'[s]],
         \A s \in Scrapes : scrape[s].alone = TRUE =>
           truths[s] \subseteq truths'[s] /\ JobCounts(jobs') \in truths'[s]
  PROVE  MetricsInv'
<1>0. registry["api"].counter \in [Series -> Nat] /\ registry'["api"].counter \in [Series -> Nat]
  BY DEF MetricsInv, TypeOK, Registry, Processes
<1>t. /\ events \in [Series -> Nat]
      /\ \A s \in Scrapes : scrape[s].totals \in [Series -> Nat]
                            /\ scrape[s].since \in [Series -> Nat]
  BY DEF MetricsInv, TypeOK, Scrape
<1>1. TypeOK'
  BY DEF MetricsInv, TypeOK
<1>2. SyncInv'
  BY <1>0, <1>t DEF MetricsInv, SyncInv
<1>3. LoneInv'
  <2> SUFFICES ASSUME NEW s \in Scrapes, scrape[s].alone = TRUE PROVE SeenInv(s)'
    BY DEF LoneInv
  <2>1. SeenInv(s)
    BY DEF MetricsInv, LoneInv
  <2>2. truths[s] \subseteq truths'[s] /\ JobCounts(jobs') \in truths'[s]
    OBVIOUS
  <2>3. JobCounts(jobs)' = JobCounts(jobs')
    BY DEF JobCounts
  <2> QED
    BY <2>1, <2>2, <2>3 DEF SeenInv
<1> QED
  BY <1>1, <1>2, <1>3 DEF MetricsInv

\* What a transaction that commits leaves to show.
LEMMA CommitFacts ==
  ASSUME MetricsInv, NEW j \in Jobs, NEW row, NEW S, Commits(j, row, S)
  PROVE  /\ events' \in [Series -> Nat] /\ \A x \in Series : events[x] <= events'[x]
         /\ \A x \in S \cap Series : events'[x] = events[x] + 1
         /\ truths' = [s \in Scrapes |-> truths'[s]]
         /\ \A s \in Scrapes : scrape[s].alone = TRUE =>
              truths[s] \subseteq truths'[s] /\ JobCounts(jobs') \in truths'[s]
         /\ rolled_back' \in 0..MaxRollbacks
<1>1. events \in [Series -> Nat] /\ rolled_back \in 0..MaxRollbacks
  BY DEF MetricsInv, TypeOK
<1>2. \A x \in Series : Once(S)[x] \in {0, 1} /\ (x \in S => Once(S)[x] = 1)
  BY DEF Once
<1>3. events' = [x \in Series |-> events[x] + Once(S)[x]]
  BY DEF Commits
<1>4. truths' = [s \in Scrapes |-> truths'[s]]
  BY DEF Commits
<1>5. ASSUME NEW s \in Scrapes, scrape[s].alone = TRUE
      PROVE  truths'[s] = truths[s] \cup {JobCounts(jobs')}
  BY <1>5 DEF Commits
<1>6. rolled_back' = rolled_back
  BY DEF Commits
<1>7. /\ events' \in [Series -> Nat] /\ \A x \in Series : events[x] <= events'[x]
      /\ \A x \in S \cap Series : events'[x] = events[x] + 1
  BY <1>1, <1>2, <1>3
<1> QED
  BY <1>1, <1>4, <1>5, <1>6, <1>7

\* A worker or the reaper settles, claims or requeues a committed job.
LEMMA OthersKeepInv ==
  ASSUME MetricsInv, NEW j \in Jobs, jobs[j].status \in JobStatus,
         NEW row \in JobRow, row.status \in JobStatus,
         row.status = "PENDING" => row.attempts < MaxAttempts, NEW S, Commits(j, row, S),
         NEW p \in {"worker", "reaper"}, NEW r \in Registry, r.snapshot = r.counter,
         registry' = [registry EXCEPT ![p] = r]
  PROVE  MetricsInv'
<1>0. jobs \in [Jobs -> JobRow] /\ registry \in [Processes -> Registry]
  BY DEF MetricsInv, TypeOK
<1>1. jobs' = [jobs EXCEPT ![j] = row] /\ jobs' \in [Jobs -> JobRow]
  BY <1>0 DEF Commits
<1>2. /\ registry' \in [Processes -> Registry] /\ registry'["api"] = registry["api"]
      /\ \A q \in Processes : registry'[q].snapshot = registry'[q].counter
  BY <1>0 DEF Processes, MetricsInv, TypeOK
<1>3. Recorded' = Recorded
  <2>1. \A i \in Jobs : jobs'[i].status = "RECORDED" <=> jobs[i].status = "RECORDED"
    BY <1>0, <1>1 DEF JobStatus
  <2> QED
    BY <2>1 DEF Recorded
<1>4. \A x \in Series : Uncommitted(x)' = Uncommitted(x)
  BY <1>3 DEF Uncommitted, Recorded, Commits
<1>5. registry["api"].counter \in [Series -> Nat]
  BY <1>0 DEF Registry, Processes
<1>6. NothingCountedTwice'
  <2> SUFFICES ASSUME NEW x \in Series
               PROVE  registry'["api"].counter[x] <= events'[x] + Uncommitted(x)'
    BY DEF NothingCountedTwice
  <2>1. registry["api"].counter[x] <= events[x] + Uncommitted(x)
    BY DEF MetricsInv, NothingCountedTwice
  <2>2. Uncommitted(x) \in Nat
    BY UncommittedType DEF MetricsInv, TypeOK
  <2>3. events[x] <= events'[x] /\ events[x] \in Nat /\ events'[x] \in Nat
    BY CommitFacts DEF MetricsInv, TypeOK
  <2>4. registry["api"].counter[x] \in Nat
    BY <1>5
  <2> QED
    BY <1>2, <1>4, <2>1, <2>2, <2>3, <2>4
<1>7. \A x \in Series : registry["api"].counter[x] <= registry'["api"].counter[x]
  BY <1>2, <1>5
<1>8. UNCHANGED <<gauge, scrape, restarts>>
  BY DEF Commits
<1>9. AttemptsInv'
  BY <1>0, <1>1 DEF AttemptsInv, MetricsInv, JobStatus
<1> QED
  BY <1>1, <1>2, <1>6, <1>7, <1>8, <1>9, CommitFacts, JobsKeepInv

LEMMA WorkersKeepInv ==
  ASSUME MetricsInv, NEW j \in Jobs, ClaimJob(j) \/ SettleJob(j) \/ RecoverLease(j)
  PROVE  MetricsInv'
<1>0. /\ registry["worker"] \in Registry /\ registry["worker"].snapshot = registry["worker"].counter
      /\ registry["reaper"] \in Registry /\ registry["reaper"].snapshot = registry["reaper"].counter
      /\ jobs[j] \in JobRow
  BY DEF MetricsInv, TypeOK, Processes
<1>1. CASE ClaimJob(j)
  <2> DEFINE row == [status |-> "RUNNING", attempts |-> jobs[j].attempts + 1]
             r == Record(registry["worker"], {"CLAIMED"}, "queue_wait")
  <2>1. Commits(j, row, {"CLAIMED"}) /\ registry' = [registry EXCEPT !["worker"] = r]
    BY <1>1 DEF ClaimJob
  <2>2. jobs[j].status = "PENDING" /\ jobs[j].attempts < MaxAttempts
    BY <1>1 DEF ClaimJob, MetricsInv, AttemptsInv
  <2>3. row \in JobRow /\ row.status = "RUNNING" /\ jobs[j].status \in JobStatus
    BY <1>0, <2>2, LifecycleMetricsAssumption DEF JobRow, JobStatus
  <2>4. r \in Registry /\ r.snapshot = r.counter
    BY <1>0, RecordFacts
  <2> HIDE DEF row, r
  <2> QED
    BY <2>1, <2>3, <2>4, OthersKeepInv DEF JobStatus
<1>2. ASSUME NEW status \in JobStatus, NEW event, Acknowledge(j, status, event),
             status = "PENDING" => jobs[j].attempts < MaxAttempts
      PROVE  MetricsInv'
  <2> DEFINE row == [jobs[j] EXCEPT !.status = status]
             r == Record(registry["worker"], {event}, "execution_duration")
  <2>1. Commits(j, row, {event}) /\ registry' = [registry EXCEPT !["worker"] = r]
    BY <1>2 DEF Acknowledge
  <2>2. row \in JobRow /\ row.status = status /\ row.attempts = jobs[j].attempts
    BY <1>0, <1>2 DEF JobRow
  <2>3. jobs[j].status \in JobStatus
    BY <1>2 DEF Acknowledge, JobStatus
  <2>4. r \in Registry /\ r.snapshot = r.counter
    BY <1>0, RecordFacts
  <2> HIDE DEF row, r
  <2> QED
    BY <1>2, <2>1, <2>2, <2>3, <2>4, OthersKeepInv
<1>a. ~Exhausted(jobs[j]) => jobs[j].attempts < MaxAttempts
  BY <1>0, LifecycleMetricsAssumption DEF Exhausted, JobRow
<1>3. CASE SettleJob(j)
  BY <1>2, <1>3, <1>a DEF SettleJob, JobStatus
<1>4. CASE RecoverLease(j) /\ ~Exhausted(jobs[j])
  <2> DEFINE row == [jobs[j] EXCEPT !.status = "PENDING"]
             r == Increment(registry["reaper"], Once({"LEASE_EXPIRED"}))
  <2>1. Commits(j, row, {"LEASE_EXPIRED"}) /\ registry' = [registry EXCEPT !["reaper"] = r]
    BY <1>4 DEF RecoverLease
  <2>2. row \in JobRow /\ row.status = "PENDING" /\ row.attempts < MaxAttempts
    BY <1>0, <1>4, <1>a DEF JobRow, JobStatus
  <2>3. jobs[j].status \in JobStatus
    BY <1>4 DEF RecoverLease, JobStatus
  <2>4. r \in Registry /\ r.snapshot = r.counter
    BY <1>0, IncrementFacts, SeriesTypes
  <2> HIDE DEF row, r
  <2> QED
    BY <2>1, <2>2, <2>3, <2>4, OthersKeepInv DEF JobStatus
<1>5. CASE RecoverLease(j) /\ Exhausted(jobs[j])
  <2> DEFINE row == [jobs[j] EXCEPT !.status = "DEAD_LETTERED"]
             S == {"LEASE_EXPIRED", "DEAD_LETTERED"}
             r == Record(registry["reaper"], S, "execution_duration")
  <2>1. Commits(j, row, S) /\ registry' = [registry EXCEPT !["reaper"] = r]
    BY <1>5 DEF RecoverLease
  <2>2. row \in JobRow /\ row.status = "DEAD_LETTERED"
    BY <1>0 DEF JobRow, JobStatus
  <2>3. jobs[j].status \in JobStatus
    BY <1>5 DEF RecoverLease, JobStatus
  <2>4. r \in Registry /\ r.snapshot = r.counter
    BY <1>0, RecordFacts
  <2> HIDE DEF row, r
  <2> QED
    BY <2>1, <2>2, <2>3, <2>4, OthersKeepInv DEF JobStatus
<1> QED
  BY <1>1, <1>3, <1>4, <1>5

\* A submission is recorded, then committed or rolled back.
LEMMA SubmissionsKeepInv ==
  ASSUME MetricsInv, NEW j \in Jobs,
         RecordSubmission(j) \/ CommitSubmission(j) \/ RollBackSubmission(j)
  PROVE  MetricsInv'
<1>0. /\ jobs \in [Jobs -> JobRow] /\ registry \in [Processes -> Registry]
      /\ events \in [Series -> Nat] /\ rolled_back \in 0..MaxRollbacks
      /\ "api" \in Processes /\ "SUBMITTED" \in Series
      /\ MaxRollbacks \in Nat
  BY LifecycleMetricsAssumption DEF MetricsInv, TypeOK, Processes, Series
<1>a. /\ registry["api"] \in Registry /\ registry["api"].counter \in [Series -> Nat]
      /\ registry["api"].snapshot = registry["api"].counter
  BY <1>0 DEF Registry, MetricsInv, TypeOK
<1>b. \A x \in Series : registry["api"].counter[x] <= events[x] + Uncommitted(x)
  BY DEF MetricsInv, NothingCountedTwice
<1>n. Cardinality(Recorded) \in Nat
  BY RecordedFinite
<1>l. truths = [s \in Scrapes |-> truths[s]]
  BY DEF MetricsInv, LoneInv
<1>m. \A s \in Scrapes : scrape[s].alone = TRUE => JobCounts(jobs) \in truths[s]
  BY DEF MetricsInv, LoneInv, SeenInv
<1>1. CASE RecordSubmission(j)
  <2> DEFINE r == Increment(registry["api"], Once({"SUBMITTED"}))
  <2>1. /\ jobs[j].status = "ABSENT"
        /\ jobs' = [jobs EXCEPT ![j] = [jobs[j] EXCEPT !.status = "RECORDED"]]
        /\ registry' = [registry EXCEPT !["api"] = r]
        /\ UNCHANGED <<events, gauge, scrape, rolled_back, restarts, truths>>
    BY <1>1 DEF RecordSubmission
  <2>2. /\ r \in Registry /\ r.snapshot = r.counter
        /\ r.counter = [x \in Series |-> registry["api"].counter[x] + Once({"SUBMITTED"})[x]]
    BY <1>a, IncrementFacts, SeriesTypes
  <2> HIDE DEF r
  <2>3. /\ jobs' \in [Jobs -> JobRow] /\ jobs'[j].status = "RECORDED" /\ jobs'[j].attempts = jobs[j].attempts
        /\ \A i \in Jobs \ {j} : jobs'[i] = jobs[i]
    BY <1>0, <2>1 DEF JobRow
  <2>4. Recorded' = Recorded \cup {j} /\ j \notin Recorded
    BY <2>1, <2>3 DEF Recorded
  <2>5. Cardinality(Recorded') = Cardinality(Recorded) + 1
    BY <2>4, RecordedFinite, FS_AddElement
  <2>6. /\ registry' \in [Processes -> Registry] /\ registry'["api"] = r
        /\ \A q \in Processes : registry'[q].snapshot = registry'[q].counter
    BY <1>0, <2>1, <2>2 DEF MetricsInv, TypeOK
  <2>7. \A x \in Series : r.counter[x] =
          registry["api"].counter[x] + (IF x = "SUBMITTED" THEN 1 ELSE 0)
    BY <2>2 DEF Once
  <2>8. \A x \in Series : Uncommitted(x)' =
          Uncommitted(x) + (IF x = "SUBMITTED" THEN 1 ELSE 0)
    BY <2>1, <2>5, <1>0, <1>n DEF Uncommitted, Recorded
  <2>9. NothingCountedTwice'
    <3> SUFFICES ASSUME NEW x \in Series
                 PROVE  registry'["api"].counter[x] <= events'[x] + Uncommitted(x)'
      BY DEF NothingCountedTwice
    <3>1. Uncommitted(x) \in Nat /\ events[x] \in Nat /\ registry["api"].counter[x] \in Nat
      BY <1>0, <1>a, UncommittedType
    <3> QED
      BY <1>b, <2>1, <2>6, <2>7, <2>8, <3>1
  <2>10. JobCounts(jobs') = JobCounts(jobs)
    <3>1. \A i \in Jobs, x \in JobStatus : jobs'[i].status = x <=> jobs[i].status = x
      BY <2>1, <2>3 DEF JobStatus
    <3> QED
      BY <3>1, SameCounts
  <2>11. AttemptsInv'
    BY <2>1, <2>3 DEF AttemptsInv, MetricsInv
  <2>12. \A x \in Series : registry["api"].counter[x] <= registry'["api"].counter[x]
    BY <1>a, <2>6, <2>7
  <2>13. \A x \in Series : events[x] <= events'[x]
    BY <1>0, <2>1
  <2> QED
    BY <1>0, <1>l, <1>m, <2>1, <2>3, <2>6, <2>9, <2>10, <2>11, <2>12, <2>13, JobsKeepInv
<1>2. CASE CommitSubmission(j)
  <2> DEFINE row == [jobs[j] EXCEPT !.status = "PENDING"]
  <2>1. /\ jobs[j].status = "RECORDED" /\ Commits(j, row, {"SUBMITTED"})
        /\ registry' = registry
    BY <1>2 DEF CommitSubmission
  <2>2. /\ row \in JobRow /\ row.status = "PENDING" /\ row.attempts = jobs[j].attempts
    BY <1>0 DEF JobRow, JobStatus
  <2> HIDE DEF row
  <2>3. /\ jobs' \in [Jobs -> JobRow] /\ jobs'[j] = row
        /\ \A i \in Jobs \ {j} : jobs'[i] = jobs[i]
    BY <1>0, <2>1, <2>2 DEF Commits
  <2>4. Recorded' = Recorded \ {j} /\ j \in Recorded
    BY <2>1, <2>2, <2>3 DEF Recorded
  <2>5. Cardinality(Recorded') = Cardinality(Recorded) - 1
    BY <2>4, RecordedFinite, FS_RemoveElement
  <2>6. \A x \in Series : Uncommitted(x)' =
          Uncommitted(x) - (IF x = "SUBMITTED" THEN 1 ELSE 0)
    BY <2>1, <2>5, <1>0, <1>n DEF Uncommitted, Recorded, Commits
  <2>7. NothingCountedTwice'
    <3> SUFFICES ASSUME NEW x \in Series
                 PROVE  registry'["api"].counter[x] <= events'[x] + Uncommitted(x)'
      BY DEF NothingCountedTwice
    <3>1. Uncommitted(x) \in Nat /\ events[x] \in Nat /\ registry["api"].counter[x] \in Nat
      BY <1>0, <1>a, UncommittedType
    <3>2. /\ events'[x] \in Nat /\ events[x] <= events'[x]
          /\ x = "SUBMITTED" => events'[x] = events[x] + 1
      BY <2>1, CommitFacts
    <3> QED
      BY <1>b, <2>1, <2>6, <3>1, <3>2
  <2>8. AttemptsInv'
    BY <1>0, <2>1, <2>2, <2>3, LifecycleMetricsAssumption DEF AttemptsInv, MetricsInv
  <2>9. UNCHANGED <<gauge, scrape, restarts>>
    BY <2>1 DEF Commits
  <2>10. /\ \A x \in Series : registry["api"].counter[x] <= registry'["api"].counter[x]
         /\ registry' \in [Processes -> Registry]
         /\ \A q \in Processes : registry'[q].snapshot = registry'[q].counter
    BY <1>0, <1>a, <2>1 DEF MetricsInv, TypeOK
  <2> QED
    BY <2>1, <2>3, <2>7, <2>8, <2>9, <2>10, CommitFacts, JobsKeepInv
<1>3. CASE RollBackSubmission(j)
  <2>1. /\ jobs[j].status = "RECORDED"
        /\ jobs' = [jobs EXCEPT ![j] = [jobs[j] EXCEPT !.status = "ABSENT"]]
        /\ rolled_back' = rolled_back + 1 /\ rolled_back' \in 0..MaxRollbacks
        /\ UNCHANGED <<events, registry, gauge, scrape, restarts, truths>>
    BY <1>0, <1>3 DEF RollBackSubmission
  <2>3. /\ jobs' \in [Jobs -> JobRow] /\ jobs'[j].status = "ABSENT" /\ jobs'[j].attempts = jobs[j].attempts
        /\ \A i \in Jobs \ {j} : jobs'[i] = jobs[i]
    BY <1>0, <2>1 DEF JobRow
  <2>4. Recorded' = Recorded \ {j} /\ j \in Recorded
    BY <2>1, <2>3 DEF Recorded
  <2>5. Cardinality(Recorded') = Cardinality(Recorded) - 1
    BY <2>4, RecordedFinite, FS_RemoveElement
  <2>6. \A x \in Series : Uncommitted(x)' = Uncommitted(x)
    BY <2>1, <2>5, <1>0, <1>n DEF Uncommitted, Recorded
  <2>7. NothingCountedTwice'
    BY <1>b, <2>1, <2>6 DEF NothingCountedTwice
  <2>8. JobCounts(jobs') = JobCounts(jobs)
    <3>1. \A i \in Jobs, x \in JobStatus : jobs'[i].status = x <=> jobs[i].status = x
      BY <2>1, <2>3 DEF JobStatus
    <3> QED
      BY <3>1, SameCounts
  <2>9. AttemptsInv'
    BY <2>1, <2>3 DEF AttemptsInv, MetricsInv
  <2>10. /\ \A x \in Series : registry["api"].counter[x] <= registry'["api"].counter[x]
         /\ \A x \in Series : events[x] <= events'[x]
         /\ registry' \in [Processes -> Registry]
         /\ \A q \in Processes : registry'[q].snapshot = registry'[q].counter
    BY <1>0, <1>a, <2>1 DEF MetricsInv, TypeOK
  <2> QED
    BY <1>0, <1>l, <1>m, <2>1, <2>3, <2>7, <2>8, <2>9, <2>10, JobsKeepInv
<1> QED
  BY <1>1, <1>2, <1>3

-----------------------------------------------------------------------------
(* Scrapes                                                                  *)

\* A statement of an open scrape s, whatever it does to the registry and the gauges.
LEMMA ScrapeContinues ==
  ASSUME MetricsInv, NEW s \in Scrapes, scrape[s].step \in Open,
         scrape' \in [Scrapes -> Scrape],
         \A q \in Scrapes \ {s} : scrape'[q] = scrape[q],
         UNCHANGED <<jobs, events, rolled_back, restarts>>,
         registry' \in [Processes -> Registry],
         \A p \in Processes : registry'[p].snapshot = registry'[p].counter,
         \A x \in Series :
           /\ registry["api"].counter[x] <= registry'["api"].counter[x]
           /\ registry'["api"].counter[x] <= events[x] + Uncommitted(x),
         gauge' \in Gauges,
         truths' = [q \in Scrapes |-> truths'[q]],
         \A x \in Series :
           /\ scrape'[s].totals[x] <= events[x]
           /\ scrape'[s].since[x] <= events[x]
           /\ scrape'[s].step = "totals" => scrape'[s].since[x] <= scrape'[s].totals[x]
           /\ scrape'[s].step \in Later => scrape'[s].since[x] <= registry'["api"].counter[x],
         scrape'[s].alone = TRUE =>
           /\ scrape[s].alone = TRUE /\ truths'[s] = truths[s]
           /\ scrape'[s].step \in Open
           /\ scrape'[s].step \in {"counts", "dead_letters"} => scrape'[s].counts \in truths[s]
           /\ scrape'[s].step \in {"set", "limits", "refreshed"} => gauge'.queue_depth \in truths[s]
           /\ scrape'[s].step = "limits" => \E c \in truths[s] : scrape'[s].slots = c["RUNNING"]
           /\ scrape'[s].step = "refreshed" =>
                \E c \in truths[s] : gauge'.runtime_slots_used = c["RUNNING"]
  PROVE  MetricsInv'
<1>0. /\ registry \in [Processes -> Registry] /\ scrape \in [Scrapes -> Scrape]
      /\ "api" \in Processes
  BY DEF MetricsInv, TypeOK, Processes
<1>3. TypeOK'
  BY DEF MetricsInv, TypeOK
<1>4. AttemptsInv'
  BY DEF MetricsInv, AttemptsInv
<1>5. \A x \in Series : Uncommitted(x)' = Uncommitted(x)
  BY DEF Uncommitted
<1>6. NothingCountedTwice'
  BY <1>5 DEF NothingCountedTwice
<1>7. SyncInv'
  <2> SUFFICES ASSUME NEW q \in Scrapes, NEW x \in Series
               PROVE  /\ scrape'[q].totals[x] <= events[x]
                      /\ scrape'[q].since[x] <= events[x]
                      /\ scrape'[q].step = "totals" => scrape'[q].since[x] <= scrape'[q].totals[x]
                      /\ scrape'[q].step \in Later =>
                           scrape'[q].since[x] <= registry'["api"].counter[x]
    BY DEF SyncInv
  <2>1. /\ scrape[q].since[x] \in Nat /\ registry["api"].counter[x] \in Nat
        /\ registry'["api"].counter[x] \in Nat
    BY <1>0 DEF Scrape, Registry
  <2>2. CASE q = s
    BY <2>2
  <2>3. CASE q # s
    BY <2>1, <2>3 DEF MetricsInv, SyncInv
  <2> QED
    BY <2>2, <2>3
<1>8. LoneInv'
  <2> SUFFICES ASSUME NEW q \in Scrapes, scrape'[q].alone = TRUE PROVE SeenInv(q)'
    BY DEF LoneInv
  <2>1. q = s
    <3> SUFFICES ASSUME q # s PROVE FALSE
      OBVIOUS
    <3>1. scrape[q].alone = TRUE
      OBVIOUS
    <3> QED
      BY <3>1 DEF MetricsInv, LoneInv, SeenInv
  <2>2. SeenInv(s)
    BY <2>1 DEF MetricsInv, LoneInv
  <2>3. JobCounts(jobs)' = JobCounts(jobs)
    BY DEF JobCounts
  <2>4. \A p \in Scrapes \ {s} : scrape'[p].step \notin Open
    BY <2>2 DEF SeenInv
  <2> QED
    BY <2>1, <2>2, <2>3, <2>4 DEF SeenInv
<1> QED
  BY <1>3, <1>4, <1>6, <1>7, <1>8 DEF MetricsInv

\* The counter after a synchronisation is the larger of the counter and the total.
LEMMA SyncFacts ==
  ASSUME MetricsInv, NEW s \in Scrapes, SyncCounters(s)
  PROVE  \E r \in Registry :
           /\ r.snapshot = r.counter /\ registry' = [registry EXCEPT !["api"] = r]
           /\ \A x \in Series : /\ registry["api"].counter[x] <= r.counter[x]
                                /\ scrape[s].totals[x] <= r.counter[x]
                                /\ r.counter[x] <= events[x] + Uncommitted(x)
<1> DEFINE amount == [x \in Series |->
                        Missing(registry["api"].snapshot[x], scrape[s].totals[x])]
           r == Increment(registry["api"], amount)
<1>0. /\ registry["api"] \in Registry /\ registry["api"].counter \in [Series -> Nat]
      /\ registry["api"].snapshot = registry["api"].counter
      /\ scrape[s].totals \in [Series -> Nat] /\ events \in [Series -> Nat]
      /\ rolled_back \in Nat
  BY LifecycleMetricsAssumption DEF MetricsInv, TypeOK, Registry, Processes, Scrape
<1>1. amount \in [Series -> Nat]
  BY <1>0 DEF Missing
<1>2. /\ r \in Registry /\ r.snapshot = r.counter
      /\ r.counter = [x \in Series |-> registry["api"].counter[x] + amount[x]]
  BY <1>0, <1>1, IncrementFacts
<1>3. registry' = [registry EXCEPT !["api"] = r]
  BY DEF SyncCounters
<1>4. ASSUME NEW x \in Series
      PROVE  /\ registry["api"].counter[x] <= r.counter[x]
             /\ scrape[s].totals[x] <= r.counter[x]
             /\ r.counter[x] <= events[x] + Uncommitted(x)
  <2>1. amount[x] = Missing(registry["api"].counter[x], scrape[s].totals[x])
    BY <1>0
  <2>2. r.counter[x] = registry["api"].counter[x] + amount[x]
    BY <1>2
  <2>3. /\ scrape[s].totals[x] <= events[x]
        /\ registry["api"].counter[x] <= events[x] + Uncommitted(x)
    BY DEF MetricsInv, SyncInv, NothingCountedTwice
  <2>4. /\ registry["api"].counter[x] \in Nat /\ scrape[s].totals[x] \in Nat
        /\ events[x] \in Nat /\ Uncommitted(x) \in Nat
    BY <1>0, UncommittedType
  <2> HIDE DEF r, amount
  <2> QED
    BY <2>1, <2>2, <2>3, <2>4 DEF Missing
<1> HIDE DEF r
<1> QED
  BY <1>2, <1>3, <1>4

LEMMA RefreshKeepsInv ==
  ASSUME MetricsInv, NEW s \in Scrapes, Refresh(s)
  PROVE  MetricsInv'
<1> DEFINE old == scrape[s]
           api == registry["api"]
<1>0. /\ scrape \in [Scrapes -> Scrape] /\ registry \in [Processes -> Registry]
      /\ \A p \in Processes : registry[p].snapshot = registry[p].counter
      /\ api.counter \in [Series -> Nat] /\ events \in [Series -> Nat] /\ gauge \in Gauges
  BY DEF MetricsInv, TypeOK, Registry, Processes
<1>f. old \in Scrape
  BY <1>0
<1>c. JobCounts(jobs) \in Counts /\ JobCounts(jobs)["DEAD_LETTERED"] \in Nat
      /\ JobCounts(jobs)["RUNNING"] \in Nat
  BY CountsType, LifecycleMetricsAssumption, FS_CardinalityType
     DEF MetricsInv, TypeOK, Counts, JobStatus
<1>z. NoJobs \in Counts /\ Zero \in [Series -> Nat] /\ \A x \in Series : Zero[x] = 0
  BY LifecycleMetricsAssumption, FS_CardinalityType DEF NoJobs, Zero, Counts
<1>a. \A x \in Series : /\ api.counter[x] <= api.counter[x]
                        /\ api.counter[x] <= events[x] + Uncommitted(x)
  BY <1>0 DEF MetricsInv, NothingCountedTwice
<1>s. \A x \in Series :
        /\ old.totals[x] <= events[x] /\ old.since[x] <= events[x]
        /\ old.step = "totals" => old.since[x] <= old.totals[x]
        /\ old.step \in Later => old.since[x] <= api.counter[x]
  BY DEF MetricsInv, SyncInv
<1>t. truths = [q \in Scrapes |-> truths[q]]
  BY DEF MetricsInv, LoneInv
<1>l. old.alone = TRUE => SeenInv(s)
  BY DEF MetricsInv, LoneInv
\* A statement that is only read from: what is known of the scrape afterwards.
<1>r. ASSUME NEW from \in Open, NEW next \in Scrape, Continue(s, from, next)
      PROVE  /\ old.step = from /\ scrape' \in [Scrapes -> Scrape] /\ scrape'[s] = next
             /\ \A q \in Scrapes \ {s} : scrape'[q] = scrape[q]
             /\ UNCHANGED <<jobs, events, rolled_back, restarts>>
  BY <1>0, <1>r DEF Continue
<1> HIDE DEF api
<1>1. CASE ReadTotals(s)
  <2> DEFINE next == [old EXCEPT !.step = "totals", !.totals = events]
  <2>1. Continue(s, "began", next) /\ UNCHANGED <<registry, gauge, truths>>
    BY <1>1 DEF ReadTotals
  <2>2. /\ next \in Scrape /\ next.step = "totals" /\ next.totals = events
        /\ next.since = old.since /\ next.alone = old.alone
    BY <1>0, <1>f DEF Scrape, ScrapeSteps
  <2> HIDE DEF next, old
  <2>3. "totals" \in Open /\ "began" \in Open /\ "totals" \notin Later
    BY DEF Open, Later, ScrapeSteps
  <2>4. \A x \in Series : events[x] <= events[x]
    BY <1>0
  <2>5. /\ old.step = "began" /\ scrape' \in [Scrapes -> Scrape] /\ scrape'[s] = next
        /\ \A q \in Scrapes \ {s} : scrape'[q] = scrape[q]
        /\ UNCHANGED <<jobs, events, rolled_back, restarts>>
    BY <1>r, <2>1, <2>2, <2>3
  <2> QED
    BY <1>0, <1>a, <1>s, <1>t, <2>1, <2>2, <2>3, <2>4, <2>5, ScrapeContinues DEF old, api
<1>2. CASE SyncCounters(s)
  <2> DEFINE next == [old EXCEPT !.step = "synced", !.totals = Zero]
  <2>1. Continue(s, "totals", next) /\ UNCHANGED <<gauge, truths>>
    BY <1>2 DEF SyncCounters
  <2>2. /\ next \in Scrape /\ next.step = "synced" /\ next.totals = Zero
        /\ next.since = old.since /\ next.alone = old.alone
    BY <1>f, <1>z DEF Scrape, ScrapeSteps
  <2> HIDE DEF next, old
  <2>3. "synced" \in Open /\ "totals" \in Open /\ "synced" # "totals"
    BY DEF Open, ScrapeSteps
  <2>4. /\ old.step = "totals" /\ scrape' \in [Scrapes -> Scrape] /\ scrape'[s] = next
        /\ \A q \in Scrapes \ {s} : scrape'[q] = scrape[q]
        /\ UNCHANGED <<jobs, events, rolled_back, restarts>>
    BY <1>r, <2>1, <2>2, <2>3
  <2>5. PICK r \in Registry :
          /\ r.snapshot = r.counter /\ registry' = [registry EXCEPT !["api"] = r]
          /\ \A x \in Series : /\ api.counter[x] <= r.counter[x]
                               /\ old.totals[x] <= r.counter[x]
                               /\ r.counter[x] <= events[x] + Uncommitted(x)
    BY <1>2, SyncFacts DEF api, old
  <2>6. /\ registry' \in [Processes -> Registry] /\ registry'["api"] = r
        /\ \A p \in Processes : registry'[p].snapshot = registry'[p].counter
    BY <1>0, <2>5 DEF Processes
  <2>7. \A x \in Series : /\ old.since[x] <= old.totals[x] /\ old.totals[x] <= r.counter[x]
                          /\ old.since[x] \in Nat /\ old.totals[x] \in Nat
                          /\ r.counter[x] \in Nat /\ events[x] \in Nat
    BY <1>0, <1>s, <1>f, <2>4, <2>5 DEF Scrape, Registry
  <2>8. \A x \in Series : next.since[x] <= r.counter[x] /\ next.totals[x] <= events[x]
    BY <1>z, <2>2, <2>7
  <2> QED
    BY <1>0, <1>s, <1>t, <2>1, <2>2, <2>3, <2>4, <2>5, <2>6, <2>8, ScrapeContinues DEF old, api
<1>3. CASE ReadCounts(s)
  <2> DEFINE next == [old EXCEPT !.step = "counts", !.counts = JobCounts(jobs)]
  <2>1. Continue(s, "synced", next) /\ UNCHANGED <<registry, gauge, truths>>
    BY <1>3 DEF ReadCounts
  <2>2. /\ next \in Scrape /\ next.step = "counts"
        /\ next.counts = JobCounts(jobs)
        /\ next.totals = old.totals /\ next.since = old.since /\ next.alone = old.alone
    BY <1>f, <1>c, <1>z DEF Scrape, ScrapeSteps
  <2> HIDE DEF next, old
  <2>3. /\ "counts" \in Open /\ "synced" \in Open
        /\ "counts" \in Later /\ "counts" # "totals" /\ "synced" \in Later
    BY DEF Open, Later, ScrapeSteps
  <2>4. /\ old.step = "synced" /\ scrape' \in [Scrapes -> Scrape] /\ scrape'[s] = next
        /\ \A q \in Scrapes \ {s} : scrape'[q] = scrape[q]
        /\ UNCHANGED <<jobs, events, rolled_back, restarts>>
    BY <1>r, <2>1, <2>2, <2>3
  <2>5. next.alone = TRUE =>
          /\ next.step \in {"counts", "dead_letters"} => next.counts \in truths[s]
          /\ next.step \in {"set", "limits", "refreshed"} => gauge'.queue_depth \in truths[s]
          /\ next.step = "limits" => \E c \in truths[s] : next.slots = c["RUNNING"]
          /\ next.step = "refreshed" =>
               \E c \in truths[s] : gauge'.runtime_slots_used = c["RUNNING"]
    BY <1>l, <2>1, <2>2, <2>4 DEF SeenInv, old
  <2> QED
    BY <1>0, <1>a, <1>s, <1>t, <1>z, <2>1, <2>2, <2>3, <2>4, <2>5, ScrapeContinues DEF old, api
<1>4. CASE ReadDeadLetters(s)
  <2> DEFINE next == [old EXCEPT !.step = "dead_letters",
                              !.dead_letter_jobs = JobCounts(jobs)["DEAD_LETTERED"]]
  <2>1. Continue(s, "counts", next) /\ UNCHANGED <<registry, gauge, truths>>
    BY <1>4 DEF ReadDeadLetters
  <2>2. /\ next \in Scrape /\ next.step = "dead_letters"
        /\ next.counts = old.counts
        /\ next.totals = old.totals /\ next.since = old.since /\ next.alone = old.alone
    BY <1>f, <1>c, <1>z DEF Scrape, ScrapeSteps
  <2> HIDE DEF next, old
  <2>3. /\ "dead_letters" \in Open /\ "counts" \in Open
        /\ "dead_letters" \in Later /\ "dead_letters" # "totals" /\ "counts" \in Later
    BY DEF Open, Later, ScrapeSteps
  <2>4. /\ old.step = "counts" /\ scrape' \in [Scrapes -> Scrape] /\ scrape'[s] = next
        /\ \A q \in Scrapes \ {s} : scrape'[q] = scrape[q]
        /\ UNCHANGED <<jobs, events, rolled_back, restarts>>
    BY <1>r, <2>1, <2>2, <2>3
  <2>5. next.alone = TRUE =>
          /\ next.step \in {"counts", "dead_letters"} => next.counts \in truths[s]
          /\ next.step \in {"set", "limits", "refreshed"} => gauge'.queue_depth \in truths[s]
          /\ next.step = "limits" => \E c \in truths[s] : next.slots = c["RUNNING"]
          /\ next.step = "refreshed" =>
               \E c \in truths[s] : gauge'.runtime_slots_used = c["RUNNING"]
    BY <1>l, <2>1, <2>2, <2>4 DEF SeenInv, old
  <2> QED
    BY <1>0, <1>a, <1>s, <1>t, <1>z, <2>1, <2>2, <2>3, <2>4, <2>5, ScrapeContinues DEF old, api
<1>5. CASE SetQueueGauges(s)
  <2> DEFINE next == [old EXCEPT !.step = "set", !.counts = NoJobs, !.dead_letter_jobs = 0]
  <2>1. Continue(s, "dead_letters", next) /\ UNCHANGED <<registry, truths>>
    BY <1>5 DEF SetQueueGauges
  <2>2. /\ next \in Scrape /\ next.step = "set"
        /\ next.totals = old.totals /\ next.since = old.since /\ next.alone = old.alone
    BY <1>f, <1>c, <1>z DEF Scrape, ScrapeSteps
  <2> HIDE DEF next, old
  <2>3. /\ "set" \in Open /\ "dead_letters" \in Open
        /\ "set" \in Later /\ "set" # "totals" /\ "dead_letters" \in Later
    BY DEF Open, Later, ScrapeSteps
  <2>4. /\ old.step = "dead_letters" /\ scrape' \in [Scrapes -> Scrape] /\ scrape'[s] = next
        /\ \A q \in Scrapes \ {s} : scrape'[q] = scrape[q]
        /\ UNCHANGED <<jobs, events, rolled_back, restarts>>
    BY <1>r, <2>1, <2>2, <2>3
  <2>6. gauge' \in Gauges /\ gauge'.queue_depth = old.counts
    BY <1>0, <1>5, <1>f DEF SetQueueGauges, QueueDepth, Gauges, Scrape, old
  <2>5. next.alone = TRUE =>
          /\ next.step \in {"counts", "dead_letters"} => next.counts \in truths[s]
          /\ next.step \in {"set", "limits", "refreshed"} => gauge'.queue_depth \in truths[s]
          /\ next.step = "limits" => \E c \in truths[s] : next.slots = c["RUNNING"]
          /\ next.step = "refreshed" =>
               \E c \in truths[s] : gauge'.runtime_slots_used = c["RUNNING"]
    BY <1>l, <2>1, <2>2, <2>4, <2>6 DEF SeenInv, old
  <2> QED
    BY <1>0, <1>a, <1>s, <1>t, <1>z, <2>1, <2>2, <2>3, <2>4, <2>5, <2>6, ScrapeContinues DEF old, api
<1>6. CASE ReadLimits(s)
  <2> DEFINE next == [old EXCEPT !.step = "limits", !.slots = JobCounts(jobs)["RUNNING"]]
  <2>1. Continue(s, "set", next) /\ UNCHANGED <<registry, gauge, truths>>
    BY <1>6 DEF ReadLimits
  <2>2. /\ next \in Scrape /\ next.step = "limits"
        /\ next.slots = JobCounts(jobs)["RUNNING"]
        /\ next.totals = old.totals /\ next.since = old.since /\ next.alone = old.alone
    BY <1>f, <1>c, <1>z DEF Scrape, ScrapeSteps
  <2> HIDE DEF next, old
  <2>3. /\ "limits" \in Open /\ "set" \in Open
        /\ "limits" \in Later /\ "limits" # "totals" /\ "set" \in Later
    BY DEF Open, Later, ScrapeSteps
  <2>4. /\ old.step = "set" /\ scrape' \in [Scrapes -> Scrape] /\ scrape'[s] = next
        /\ \A q \in Scrapes \ {s} : scrape'[q] = scrape[q]
        /\ UNCHANGED <<jobs, events, rolled_back, restarts>>
    BY <1>r, <2>1, <2>2, <2>3
  <2>5. next.alone = TRUE =>
          /\ next.step \in {"counts", "dead_letters"} => next.counts \in truths[s]
          /\ next.step \in {"set", "limits", "refreshed"} => gauge'.queue_depth \in truths[s]
          /\ next.step = "limits" => \E c \in truths[s] : next.slots = c["RUNNING"]
          /\ next.step = "refreshed" =>
               \E c \in truths[s] : gauge'.runtime_slots_used = c["RUNNING"]
    BY <1>l, <2>1, <2>2, <2>4 DEF SeenInv, old
  <2> QED
    BY <1>0, <1>a, <1>s, <1>t, <1>z, <2>1, <2>2, <2>3, <2>4, <2>5, ScrapeContinues DEF old, api
<1>7. CASE SetLimitGauges(s)
  <2> DEFINE next == [old EXCEPT !.step = "refreshed", !.slots = 0]
  <2>1. /\ Continue(s, "limits", next) /\ UNCHANGED <<registry, truths>>
        /\ gauge' = [gauge EXCEPT !.runtime_slots_used = old.slots]
    BY <1>7 DEF SetLimitGauges
  <2>2. /\ next \in Scrape /\ next.step = "refreshed"
        /\ next.totals = old.totals /\ next.since = old.since /\ next.alone = old.alone
    BY <1>f DEF Scrape, ScrapeSteps
  <2>6. /\ gauge' \in Gauges /\ gauge'.queue_depth = gauge.queue_depth
        /\ gauge'.runtime_slots_used = old.slots
    BY <1>0, <1>f, <2>1 DEF Gauges, Scrape
  <2> HIDE DEF next, old
  <2>3. /\ "refreshed" \in Open /\ "limits" \in Open
        /\ "refreshed" \in Later /\ "refreshed" # "totals" /\ "limits" \in Later
    BY DEF Open, Later, ScrapeSteps
  <2>4. /\ old.step = "limits" /\ scrape' \in [Scrapes -> Scrape] /\ scrape'[s] = next
        /\ \A q \in Scrapes \ {s} : scrape'[q] = scrape[q]
        /\ UNCHANGED <<jobs, events, rolled_back, restarts>>
    BY <1>r, <2>1, <2>2, <2>3
  <2>5. next.alone = TRUE =>
          /\ next.step \in {"counts", "dead_letters"} => next.counts \in truths[s]
          /\ next.step \in {"set", "limits", "refreshed"} => gauge'.queue_depth \in truths[s]
          /\ next.step = "limits" => \E c \in truths[s] : next.slots = c["RUNNING"]
          /\ next.step = "refreshed" =>
               \E c \in truths[s] : gauge'.runtime_slots_used = c["RUNNING"]
    BY <1>l, <2>2, <2>4, <2>6 DEF SeenInv, old
  <2> QED
    BY <1>0, <1>a, <1>s, <1>t, <1>z, <2>1, <2>2, <2>3, <2>4, <2>5, <2>6, ScrapeContinues DEF old, api
<1>8. CASE Respond(s)
  <2> DEFINE next == [old EXCEPT !.step = "done", !.since = Zero, !.alone = FALSE]
  <2>1. /\ Continue(s, "refreshed", next) /\ UNCHANGED <<registry, gauge>>
        /\ truths' = [truths EXCEPT ![s] = {}]
    BY <1>8 DEF Respond
  <2>2. /\ next \in Scrape /\ next.step = "done" /\ next.totals = old.totals
        /\ next.since = Zero /\ ~(next.alone = TRUE)
    BY <1>f, <1>z DEF Scrape, ScrapeSteps
  <2>4. truths' = [q \in Scrapes |-> truths'[q]]
    BY <1>t, <2>1
  <2> HIDE DEF next, old
  <2>5. "done" \notin Later /\ "done" # "totals" /\ "refreshed" \in Open
    BY DEF Open, Later, ScrapeSteps
  <2>6. /\ old.step = "refreshed" /\ scrape' \in [Scrapes -> Scrape] /\ scrape'[s] = next
        /\ \A q \in Scrapes \ {s} : scrape'[q] = scrape[q]
        /\ UNCHANGED <<jobs, events, rolled_back, restarts>>
    BY <1>r, <2>1, <2>2, <2>5
  <2>7. \A x \in Series : next.since[x] <= events[x] /\ next.totals[x] <= events[x]
    BY <1>0, <1>s, <1>z, <2>2
  <2> QED
    BY <1>0, <1>a, <2>1, <2>2, <2>4, <2>5, <2>6, <2>7, ScrapeContinues DEF old, api
<1> QED
  BY <1>1, <1>2, <1>3, <1>4, <1>5, <1>6, <1>7, <1>8 DEF Refresh

\* A scrape that begins ends the solitude of those under way.
LEMMA BeginKeepsInv ==
  ASSUME MetricsInv, NEW s \in Scrapes, BeginScrape(s)
  PROVE  MetricsInv'
<1> DEFINE others == {q \in Scrapes : scrape[q].step \in Open}
           first == [NewScrape EXCEPT !.step = "began", !.since = events, !.alone = others = {}]
<1>0. /\ scrape \in [Scrapes -> Scrape] /\ events \in [Series -> Nat]
      /\ NoJobs \in Counts /\ Zero \in [Series -> Nat] /\ \A x \in Series : Zero[x] = 0
  BY LifecycleMetricsAssumption, FS_CardinalityType
     DEF MetricsInv, TypeOK, NoJobs, Zero, Counts
<1>1. /\ first \in Scrape /\ first.step = "began" /\ first.since = events
      /\ first.totals = Zero
  BY <1>0 DEF NewScrape, Scrape, ScrapeSteps
<1>2. first.alone = (others = {})
  BY DEF NewScrape
<1>3. /\ scrape[s].step = "new" /\ "new" \notin Open /\ "began" \in Open
      /\ "began" \notin Later /\ "began" # "totals"
  BY DEF BeginScrape, Open, Later, ScrapeSteps
<1>4. /\ scrape'[s] = first
      /\ \A q \in others : scrape'[q] = [scrape[q] EXCEPT !.alone = FALSE]
      /\ \A q \in Scrapes : q # s /\ q \notin others => scrape'[q] = scrape[q]
      /\ scrape' = [q \in Scrapes |-> scrape'[q]]
  <2>1. s \notin others
    BY <1>3
  <2> QED
    BY <2>1, Zenon DEF BeginScrape
<1>5. /\ truths' = [q \in Scrapes |-> IF q = s /\ others = {} THEN {JobCounts(jobs)} ELSE {}]
      /\ UNCHANGED <<jobs, events, registry, gauge, rolled_back, restarts>>
  BY DEF BeginScrape
<1> HIDE DEF first
<1>6. ASSUME NEW q \in Scrapes, q # s
      PROVE  /\ scrape'[q] \in Scrape /\ scrape'[q].step = scrape[q].step
             /\ scrape'[q].totals = scrape[q].totals /\ scrape'[q].since = scrape[q].since
             /\ ~(scrape'[q].alone = TRUE)
  <2>1. CASE q \in others
    <3>1. scrape'[q] = [scrape[q] EXCEPT !.alone = FALSE] /\ scrape[q] \in Scrape
      BY <1>0, <1>4, <2>1
    <3> QED
      BY <3>1 DEF Scrape
  <2>2. CASE q \notin others
    <3>1. scrape'[q] = scrape[q] /\ scrape[q].step \notin Open
      BY <1>4, <1>6, <2>2
    <3>2. ~(scrape[q].alone = TRUE)
      BY <3>1 DEF MetricsInv, LoneInv, SeenInv
    <3> QED
      BY <1>0, <3>1, <3>2
  <2> QED
    BY <2>1, <2>2
<1>7. scrape' \in [Scrapes -> Scrape]
  BY <1>1, <1>4, <1>6
<1>8. TypeOK'
  BY <1>5, <1>7 DEF MetricsInv, TypeOK
<1>9. AttemptsInv' /\ NothingCountedTwice'
  BY <1>5 DEF MetricsInv, AttemptsInv, NothingCountedTwice, Uncommitted
<1>10. SyncInv'
  <2> SUFFICES ASSUME NEW q \in Scrapes, NEW x \in Series
               PROVE  /\ scrape'[q].totals[x] <= events[x]
                      /\ scrape'[q].since[x] <= events[x]
                      /\ scrape'[q].step = "totals" => scrape'[q].since[x] <= scrape'[q].totals[x]
                      /\ scrape'[q].step \in Later =>
                           scrape'[q].since[x] <= registry["api"].counter[x]
    BY <1>5 DEF SyncInv
  <2>1. CASE q = s
    BY <1>0, <1>1, <1>3, <1>4, <2>1
  <2>2. CASE q # s
    BY <1>6, <2>2 DEF MetricsInv, SyncInv
  <2> QED
    BY <2>1, <2>2
<1>11. LoneInv'
  <2>1. truths' = [q \in Scrapes |-> truths'[q]]
    BY <1>5
  <2>2. ASSUME NEW q \in Scrapes, scrape'[q].alone = TRUE
        PROVE  SeenInv(q)'
    <3>1. q = s /\ others = {}
      BY <1>2, <1>4, <1>6, <2>2
    <3>2. \A p \in Scrapes \ {s} : scrape'[p].step \notin Open
      BY <1>6, <3>1
    <3>3. JobCounts(jobs)' = JobCounts(jobs) /\ truths'[s] = {JobCounts(jobs)}
      BY <1>5, <3>1 DEF JobCounts
    <3> QED
      BY <1>1, <1>3, <1>4, <3>1, <3>2, <3>3 DEF SeenInv
  <2> QED
    BY <2>1, <2>2 DEF LoneInv
<1> QED
  BY <1>8, <1>9, <1>10, <1>11 DEF MetricsInv

\* A restart begins with empty counters and no scrapes.
LEMMA RestartKeepsInv ==
  ASSUME MetricsInv, RestartApi
  PROVE  MetricsInv'
<1>0. /\ scrape \in [Scrapes -> Scrape] /\ events \in [Series -> Nat]
      /\ jobs \in [Jobs -> JobRow] /\ registry \in [Processes -> Registry]
      /\ restarts \in 0..MaxRestarts
      /\ NoJobs \in Counts /\ Zero \in [Series -> Nat] /\ \A x \in Series : Zero[x] = 0
  BY LifecycleMetricsAssumption, FS_CardinalityType
     DEF MetricsInv, TypeOK, NoJobs, Zero, Counts
<1>1. /\ NoGauges \in Gauges
      /\ [NewScrape EXCEPT !.step = "died"] \in Scrape
      /\ [NewScrape EXCEPT !.step = "died"].step = "died"
      /\ [NewScrape EXCEPT !.step = "died"].totals = Zero
      /\ [NewScrape EXCEPT !.step = "died"].since = Zero
      /\ "died" \notin Open /\ "died" \notin Later /\ "died" # "totals"
  BY <1>0 DEF NoGauges, Gauges, NewScrape, Scrape, ScrapeSteps, Open, Later
<1>a. ~([NewScrape EXCEPT !.step = "died"].alone = TRUE)
  BY DEF NewScrape
<1>2. /\ registry' \in [Processes -> Registry] /\ registry'["api"] = EmptyRegistry
      /\ \A p \in Processes : registry'[p].snapshot = registry'[p].counter
  BY <1>0, EmptyRegistryFacts DEF RestartApi, MetricsInv, TypeOK, Processes
<1>3. ASSUME NEW j \in Jobs
      PROVE  /\ jobs'[j] \in JobRow /\ jobs'[j].attempts = jobs[j].attempts
             /\ jobs[j].status = "RECORDED" => jobs'[j].status = "ABSENT"
             /\ jobs[j].status # "RECORDED" => jobs'[j].status = jobs[j].status
  <2>1. jobs[j] \in JobRow
    BY <1>0
  <2>2. jobs'[j] = IF jobs[j].status = "RECORDED" THEN [jobs[j] EXCEPT !.status = "ABSENT"]
                                                  ELSE jobs[j]
    BY DEF RestartApi
  <2> QED
    BY <2>1, <2>2 DEF JobRow
<1>4. ASSUME NEW s \in Scrapes
      PROVE  /\ scrape'[s] \in Scrape /\ scrape'[s].step \notin Open
             /\ scrape'[s].totals \in {Zero, scrape[s].totals}
             /\ scrape'[s].since \in {Zero, scrape[s].since}
             /\ ~(scrape'[s].alone = TRUE)
  <2>1. scrape'[s] = IF scrape[s].step \in Open THEN [NewScrape EXCEPT !.step = "died"]
                                                ELSE scrape[s]
    BY DEF RestartApi
  <2>2. CASE scrape[s].step \in Open
    <3>1. scrape'[s] = [NewScrape EXCEPT !.step = "died"]
      BY <2>1, <2>2
    <3> QED
      BY <1>1, <1>a, <3>1
  <2>3. CASE scrape[s].step \notin Open
    <3>1. scrape'[s] = scrape[s] /\ scrape[s] \in Scrape
      BY <1>0, <2>1, <2>3
    <3>2. ~(scrape[s].alone = TRUE)
      BY <2>3 DEF MetricsInv, LoneInv, SeenInv
    <3> QED
      BY <2>3, <3>1, <3>2
  <2> QED
    BY <2>2, <2>3
<1>5. /\ scrape' \in [Scrapes -> Scrape] /\ jobs' \in [Jobs -> JobRow]
      /\ gauge' \in Gauges /\ events' = events /\ rolled_back' = 0
      /\ restarts' \in 0..MaxRestarts /\ truths' = [s \in Scrapes |-> {}]
  BY <1>0, <1>1, <1>3, <1>4, LifecycleMetricsAssumption DEF RestartApi
<1>6. TypeOK'
  BY <1>0, <1>2, <1>5, LifecycleMetricsAssumption DEF TypeOK
<1>7. AttemptsInv'
  BY <1>3 DEF MetricsInv, AttemptsInv
<1>8. NothingCountedTwice'
  <2>1. Recorded' = {}
    BY <1>3 DEF Recorded
  <2>2. \A x \in Series : Uncommitted(x)' = 0
    <3>1. {j \in Jobs : jobs'[j].status = "RECORDED"} = {}
      BY <2>1 DEF Recorded
    <3>2. Cardinality({j \in Jobs : jobs'[j].status = "RECORDED"}) = 0
      BY <3>1, FS_EmptySet
    <3> QED
      BY <1>5, <3>2 DEF Uncommitted
  <2> QED
    BY <1>0, <1>2, <1>5, <2>2, EmptyRegistryFacts DEF NothingCountedTwice
<1>9. SyncInv'
  <2>1. "totals" \in Open /\ Later \subseteq Open
    BY DEF Open, Later, ScrapeSteps
  <2>2. \A s \in Scrapes : \A x \in Series :
          /\ scrape[s].totals[x] <= events[x] /\ scrape[s].since[x] <= events[x]
          /\ Zero[x] <= events[x]
    BY <1>0 DEF MetricsInv, SyncInv
  <2> SUFFICES ASSUME NEW s \in Scrapes, NEW x \in Series
               PROVE  /\ scrape'[s].totals[x] <= events[x]
                      /\ scrape'[s].since[x] <= events[x]
                      /\ scrape'[s].step # "totals" /\ scrape'[s].step \notin Later
    BY <1>5 DEF SyncInv
  <2> QED
    BY <1>4, <2>1, <2>2
<1>10. LoneInv'
  BY <1>4, <1>5 DEF LoneInv
<1> QED
  BY <1>6, <1>7, <1>8, <1>9, <1>10 DEF MetricsInv

-----------------------------------------------------------------------------
(* The invariant                                                            *)

LEMMA MetricsInit == Init => MetricsInv
<1> SUFFICES ASSUME Init PROVE MetricsInv
  OBVIOUS
<1>0. /\ NoJobs \in Counts /\ Zero \in [Series -> Nat] /\ \A x \in Series : Zero[x] = 0
      /\ 0 \in 0..MaxAttempts /\ 0 \in 0..MaxRollbacks /\ 0 \in 0..MaxRestarts
  BY LifecycleMetricsAssumption, FS_CardinalityType DEF NoJobs, Zero, Counts
<1>1. /\ NoGauges \in Gauges /\ NewScrape \in Scrape /\ NewScrape.step = "new"
      /\ NewScrape.totals = Zero /\ NewScrape.since = Zero
      /\ "new" \notin Later /\ "new" # "totals"
  BY <1>0 DEF NoGauges, Gauges, NewScrape, Scrape, ScrapeSteps, Later
<1>a. ~(NewScrape.alone = TRUE)
  BY DEF NewScrape
<1>2. [status |-> "ABSENT", attempts |-> 0] \in JobRow
  BY <1>0 DEF JobRow
<1>3. TypeOK
  BY <1>0, <1>1, <1>2, EmptyRegistryFacts DEF Init, TypeOK
<1>4. AttemptsInv
  BY DEF Init, AttemptsInv
<1>5. NothingCountedTwice
  <2>1. Recorded = {}
    BY DEF Init, Recorded
  <2>2. \A x \in Series : Uncommitted(x) = 0
    BY <2>1, FS_EmptySet DEF Init, Uncommitted, Recorded
  <2>3. registry["api"] = EmptyRegistry /\ events = Zero
    BY DEF Init, Processes
  <2> QED
    BY <1>0, <2>2, <2>3, EmptyRegistryFacts DEF NothingCountedTwice
<1>6. SyncInv
  BY <1>0, <1>1 DEF Init, SyncInv
<1>7. LoneInv
  BY <1>a DEF Init, LoneInv
<1> QED
  BY <1>3, <1>4, <1>5, <1>6, <1>7 DEF MetricsInv

LEMMA MetricsNext == MetricsInv /\ [Next]_vars => MetricsInv'
<1> SUFFICES ASSUME MetricsInv, [Next]_vars PROVE MetricsInv'
  OBVIOUS
<1>1. CASE UNCHANGED vars
  BY <1>1 DEF vars, MetricsInv, TypeOK, AttemptsInv, NothingCountedTwice, Uncommitted,
              SyncInv, LoneInv, SeenInv, JobCounts
<1>2. ASSUME NEW j \in Jobs,
             \/ RecordSubmission(j) \/ CommitSubmission(j) \/ RollBackSubmission(j)
             \/ ClaimJob(j) \/ SettleJob(j) \/ RecoverLease(j)
      PROVE  MetricsInv'
  BY <1>2, SubmissionsKeepInv, WorkersKeepInv
<1>3. ASSUME NEW s \in Scrapes, BeginScrape(s) \/ Refresh(s)
      PROVE  MetricsInv'
  BY <1>3, BeginKeepsInv, RefreshKeepsInv
<1>4. CASE RestartApi
  BY <1>4, RestartKeepsInv
<1> QED
  BY <1>1, <1>2, <1>3, <1>4 DEF Next

LEMMA MetricsInvariance == Spec => []MetricsInv
BY MetricsInit, MetricsNext, PTL DEF Spec

-----------------------------------------------------------------------------
(* Theorems                                                                 *)

\* The registries, the scrapes and the gauges have the values the code gives them, and
\* every counter agrees with the snapshot _sync_counter compares the totals with.
THEOREM MetricsTypes == Spec => []TypeOK
<1>1. MetricsInv => TypeOK
  BY DEF MetricsInv
<1> QED
  BY <1>1, MetricsInvariance, PTL

\* However many scrapes overlap, no event is counted by both the process that recorded
\* it and a scrape, or by two scrapes.
THEOREM CountedOnce == Spec => []NothingCountedTwice
<1>1. MetricsInv => NothingCountedTwice
  BY DEF MetricsInv
<1> QED
  BY <1>1, MetricsInvariance, PTL

\* What a step does to the counters of the API.
LEMMA CountersRise ==
  ASSUME MetricsInv, [Next]_vars, restarts' = restarts, NEW x \in Series
  PROVE  registry["api"].counter[x] <= registry'["api"].counter[x]
<1>0. /\ registry \in [Processes -> Registry] /\ "api" \in Processes
      /\ registry["api"].counter \in [Series -> Nat] /\ registry["api"] \in Registry
      /\ registry["api"].snapshot = registry["api"].counter /\ restarts \in Nat
  BY LifecycleMetricsAssumption DEF MetricsInv, TypeOK, Registry, Processes
<1>u. CASE registry'["api"] = registry["api"]
  BY <1>0, <1>u
<1>1. ASSUME NEW j \in Jobs, RecordSubmission(j)
      PROVE  registry["api"].counter[x] <= registry'["api"].counter[x]
  <2> DEFINE r == Increment(registry["api"], Once({"SUBMITTED"}))
  <2>1. registry'["api"] = r
    BY <1>0, <1>1 DEF RecordSubmission
  <2>2. r.counter = [y \in Series |-> registry["api"].counter[y] + Once({"SUBMITTED"})[y]]
    BY <1>0, SeriesTypes, IncrementFacts
  <2>3. Once({"SUBMITTED"})[x] \in Nat /\ registry["api"].counter[x] \in Nat
    BY <1>0, SeriesTypes
  <2> HIDE DEF r
  <2> QED
    BY <2>1, <2>2, <2>3
<1>2. ASSUME NEW s \in Scrapes, SyncCounters(s)
      PROVE  registry["api"].counter[x] <= registry'["api"].counter[x]
  BY <1>0, <1>2, SyncFacts
<1>3. ASSUME NEW j \in Jobs,
             \/ CommitSubmission(j) \/ RollBackSubmission(j)
             \/ ClaimJob(j) \/ SettleJob(j) \/ RecoverLease(j)
      PROVE  registry'["api"] = registry["api"]
  BY <1>0, <1>3 DEF CommitSubmission, RollBackSubmission, ClaimJob, SettleJob, Acknowledge,
                    RecoverLease
<1>4. ASSUME NEW s \in Scrapes,
             \/ BeginScrape(s) \/ ReadTotals(s) \/ ReadCounts(s) \/ ReadDeadLetters(s)
             \/ SetQueueGauges(s) \/ ReadLimits(s) \/ SetLimitGauges(s) \/ Respond(s)
      PROVE  registry'["api"] = registry["api"]
  BY <1>4 DEF BeginScrape, ReadTotals, ReadCounts, ReadDeadLetters, SetQueueGauges,
              ReadLimits, SetLimitGauges, Respond
<1>5. ~RestartApi
  BY <1>0 DEF RestartApi
<1>6. CASE UNCHANGED vars
  BY <1>6, <1>u DEF vars
<1> QED
  BY <1>u, <1>1, <1>2, <1>3, <1>4, <1>5, <1>6 DEF Next, Refresh

\* A counter falls only when the API is restarted: a synchronisation with totals that
\* are older than what was recorded since changes nothing.
THEOREM CountersNeverFall == Spec => CountersOnlyRise
<1>1. MetricsInv /\ [Next]_vars =>
        [restarts' = restarts =>
           \A x \in Series : registry'["api"].counter[x] >= registry["api"].counter[x]]_vars
  <2> SUFFICES ASSUME MetricsInv, [Next]_vars, restarts' = restarts, NEW x \in Series
               PROVE  registry'["api"].counter[x] >= registry["api"].counter[x]
    OBVIOUS
  <2>1. registry["api"].counter[x] <= registry'["api"].counter[x]
    BY CountersRise
  <2> QED
    BY <2>1
<1> QED
  BY <1>1, MetricsInvariance, PTL DEF Spec, CountersOnlyRise

\* Only its own last step answers a scrape.
LEMMA OnlyRespond ==
  ASSUME MetricsInv, [Next]_vars, NEW s \in Scrapes, Responds(s)
  PROVE  Respond(s)
<1>0. /\ scrape \in [Scrapes -> Scrape] /\ scrape[s].step = "refreshed"
      /\ scrape'[s].step = "done" /\ "refreshed" \in Open
  BY DEF MetricsInv, TypeOK, Responds, Open, ScrapeSteps
<1>1. scrape' # scrape
  BY <1>0
<1>2. ASSUME NEW j \in Jobs
      PROVE  /\ ~RecordSubmission(j) /\ ~CommitSubmission(j) /\ ~RollBackSubmission(j)
             /\ ~ClaimJob(j) /\ ~SettleJob(j) /\ ~RecoverLease(j)
  BY <1>1 DEF RecordSubmission, CommitSubmission, RollBackSubmission, ClaimJob, SettleJob,
              Acknowledge, RecoverLease, Commits
<1>3. ASSUME NEW q \in Scrapes, q # s
      PROVE  ~Refresh(q)
  BY <1>0, <1>3 DEF Refresh, Continue, ReadTotals, SyncCounters, ReadCounts, ReadDeadLetters,
                    SetQueueGauges, ReadLimits, SetLimitGauges, Respond
<1>4. ASSUME NEW q \in Scrapes
      PROVE  ~BeginScrape(q)
  <2> SUFFICES ASSUME BeginScrape(q) PROVE FALSE
    OBVIOUS
  <2>1. q # s
    BY <1>0 DEF BeginScrape
  <2>2. scrape'[s] = [scrape[s] EXCEPT !.alone = FALSE]
    BY <1>0, <2>1, Zenon DEF BeginScrape
  <2>3. scrape[s] \in Scrape
    BY <1>0
  <2> QED
    BY <1>0, <2>2, <2>3 DEF Scrape
<1>5. ~RestartApi
  <2> SUFFICES ASSUME RestartApi PROVE FALSE
    OBVIOUS
  <2>1. scrape'[s] = [NewScrape EXCEPT !.step = "died"]
    BY <1>0 DEF RestartApi
  <2> QED
    BY <1>0, <2>1 DEF NewScrape
<1>6. Refresh(s)
  BY <1>1, <1>2, <1>3, <1>4, <1>5 DEF Next, vars
<1> QED
  BY <1>0, <1>6 DEF Refresh, Continue, ReadTotals, SyncCounters, ReadCounts, ReadDeadLetters,
                    SetQueueGauges, ReadLimits, SetLimitGauges

\* A scrape shows every event that was committed when it began, whichever process
\* recorded it and however often the API was restarted.
THEOREM NothingMissed == Spec => ScrapeMissesNothing
<1>1. MetricsInv /\ [Next]_vars =>
        [\A s \in Scrapes : Responds(s) =>
           \A x \in Series : registry'["api"].counter[x] >= scrape[s].since[x]]_vars
  <2> SUFFICES ASSUME MetricsInv, [Next]_vars, NEW s \in Scrapes, Responds(s),
                      NEW x \in Series
               PROVE  registry'["api"].counter[x] >= scrape[s].since[x]
    OBVIOUS
  <2>1. Respond(s)
    BY OnlyRespond
  <2>2. registry' = registry /\ scrape[s].step = "refreshed" /\ "refreshed" \in Later
    BY <2>1 DEF Respond, Continue, Later
  <2>3. scrape[s].since[x] <= registry["api"].counter[x]
    BY <2>2 DEF MetricsInv, SyncInv
  <2> QED
    BY <2>2, <2>3
<1> QED
  BY <1>1, MetricsInvariance, PTL DEF Spec, ScrapeMissesNothing

\* A scrape that overlapped no other shows counts that were true since it began.
THEOREM LoneScrapesAreFresh == Spec => LoneScrapeIsFresh
<1>1. MetricsInv /\ [Next]_vars =>
        [\A s \in Scrapes : Responds(s) /\ scrape[s].alone =>
           /\ gauge'.queue_depth \in truths[s]
           /\ \E c \in truths[s] : gauge'.runtime_slots_used = c["RUNNING"]]_vars
  <2> SUFFICES ASSUME MetricsInv, [Next]_vars, NEW s \in Scrapes, Responds(s),
                      scrape[s].alone
               PROVE  /\ gauge'.queue_depth \in truths[s]
                      /\ \E c \in truths[s] : gauge'.runtime_slots_used = c["RUNNING"]
    OBVIOUS
  <2>1. Respond(s)
    BY OnlyRespond
  <2>2. scrape[s].step = "refreshed" /\ gauge' = gauge
    BY <2>1 DEF Respond, Continue
  <2>5. scrape[s].alone = TRUE
    <3>1. scrape[s] \in Scrape
      BY DEF MetricsInv, TypeOK
    <3>2. scrape[s].alone \in BOOLEAN
      BY <3>1, Zenon DEF Scrape
    <3> QED
      BY <3>2, Zenon
  <2>6. SeenInv(s)
    BY <2>5 DEF MetricsInv, LoneInv
  <2>7. /\ gauge.queue_depth \in truths[s]
        /\ \E c \in truths[s] : gauge.runtime_slots_used = c["RUNNING"]
    BY <2>2, <2>6 DEF SeenInv
  <2> QED
    BY <2>2, <2>7
<1> QED
  BY <1>1, MetricsInvariance, PTL DEF Spec, LoneScrapeIsFresh
=============================================================================
