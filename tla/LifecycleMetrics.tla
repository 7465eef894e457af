-------------------------- MODULE LifecycleMetrics --------------------------
(***************************************************************************)
(* GET /metrics: the Prometheus registry of the API process, and how a     *)
(* scrape brings it up to date with the database.                          *)
(*                                                                         *)
(* Every process has a registry of its own, and only the API's is exposed. *)
(* What workers and the reaper count reaches it through job_events: a      *)
(* scrape raises each counter to the number of committed events.  The      *)
(* series of one tenant are modelled; those of another are independent.    *)
(*                                                                         *)
(* A scrape is a coroutine that awaits five statements, each of which sees *)
(* what is committed when it runs; between two statements the API serves   *)
(* submissions and other scrapes.                                          *)
(***************************************************************************)
EXTENDS Integers, FiniteSets

CONSTANTS
  Jobs,
  MaxAttempts, \* jobs.max_attempts
  Scrapes,     \* bound: requests of GET /metrics
  MaxRollbacks, \* bound: submissions that one API process records and rolls back
  MaxRestarts  \* bound: restarts of the API process

ASSUME LifecycleMetricsAssumption ==
  /\ IsFiniteSet(Jobs)
  /\ MaxAttempts \in Nat \ {0}
  /\ MaxRollbacks \in Nat /\ MaxRestarts \in Nat

VARIABLES
  jobs,       \* status and attempts of the rows, with the submissions in progress
  events,     \* number of committed job_events by type
  registry,   \* the registry and the counter snapshots of each process
  gauge,      \* the gauges of the API process
  scrape,     \* the coroutine of each scrape
  rolled_back, \* submissions this API process recorded and rolled back
  restarts,
  truths      \* history: the counts of jobs that were true since a scrape began

vars == <<jobs, events, registry, gauge, scrape, rolled_back, restarts, truths>>

JobStatus == {"PENDING", "RUNNING", "SUCCEEDED", "DEAD_LETTERED"}

\* "RECORDED": inserted and counted by a transaction that has not committed.
JobRow == [status : JobStatus \cup {"ABSENT", "RECORDED"}, attempts : 0..MaxAttempts]

\* The lifecycle counters, named by the event type whose rows they count.
Series == {"SUBMITTED", "CLAIMED", "SUCCEEDED", "FAILED_RETRY_SCHEDULED",
           "DEAD_LETTERED", "LEASE_EXPIRED"}

Counts == [JobStatus -> 0..Cardinality(Jobs)]
Processes == {"api", "worker", "reaper"}

\* observed: the number of observations of each histogram.
Registry == [counter : [Series -> Nat], snapshot : [Series -> Nat],
             observed : [{"queue_wait", "execution_duration"} -> Nat]]

Gauges == [queue_depth : Counts, dead_letter_jobs : Nat, runtime_slots_used : Nat]

Zero == [s \in Series |-> 0]
NoJobs == [x \in JobStatus |-> 0]
EmptyRegistry == [counter |-> Zero, snapshot |-> Zero,
                  observed |-> [h \in {"queue_wait", "execution_duration"} |-> 0]]
NoGauges == [queue_depth |-> NoJobs, dead_letter_jobs |-> 0, runtime_slots_used |-> 0]

\* counts[x] rows have status x: the GROUP BY has no row for a status without jobs,
\* which the dictionary it updates starts with 0.
JobCounts(rows) == [x \in JobStatus |-> Cardinality({j \in Jobs : rows[j].status = x})]

\* step: the statement a scrape has the result of.  since (history): the events
\* committed when it began; alone (history): no other scrape was open meanwhile.
ScrapeSteps == {"new", "began", "totals", "synced", "counts", "dead_letters", "set",
                "limits", "refreshed", "done", "died"}
Open == ScrapeSteps \ {"new", "done", "died"}
Scrape == [step : ScrapeSteps, totals : [Series -> Nat], counts : Counts,
           dead_letter_jobs : Nat, slots : Nat, since : [Series -> Nat], alone : BOOLEAN]
NewScrape == [step |-> "new", totals |-> Zero, counts |-> NoJobs, dead_letter_jobs |-> 0,
              slots |-> 0, since |-> Zero, alone |-> FALSE]

Init ==
  /\ jobs = [j \in Jobs |-> [status |-> "ABSENT", attempts |-> 0]]
  /\ events = Zero
  /\ registry = [p \in Processes |-> EmptyRegistry]
  /\ gauge = NoGauges
  /\ scrape = [s \in Scrapes |-> NewScrape]
  /\ rolled_back = 0
  /\ restarts = 0
  /\ truths = [s \in Scrapes |-> {}]

-----------------------------------------------------------------------------
(* record_job_*                                                             *)

\* Mutant: the snapshot is not kept up with the counter.
IncrementCounterOnly(r, amount) ==
  [r EXCEPT !.counter = [s \in Series |-> r.counter[s] + amount[s]]]

\* _increment_counter, for several series at once
Increment(r, amount) ==
  [r EXCEPT !.counter  = [s \in Series |-> r.counter[s] + amount[s]],
            !.snapshot = [s \in Series |-> r.snapshot[s] + amount[s]]]

Once(S) == [s \in Series |-> IF s \in S THEN 1 ELSE 0]

Record(r, S, histogram) == [Increment(r, Once(S)) EXCEPT !.observed[histogram] = @ + 1]

-----------------------------------------------------------------------------
(* The processes that change jobs                                          *)

\* The transaction commits the row of j and its events.
Commits(j, row, S) ==
  /\ jobs' = [jobs EXCEPT ![j] = row]
  /\ events' = [s \in Series |-> events[s] + Once(S)[s]]
  /\ truths' = [s \in Scrapes |->
       IF scrape[s].alone THEN truths[s] \cup {JobCounts(jobs')} ELSE truths[s]]
  /\ UNCHANGED <<gauge, scrape, rolled_back, restarts>>

\* create_job, up to its response: record_job_submitted is called before the commit.
RecordSubmission(j) ==
  /\ jobs[j].status = "ABSENT"
  /\ jobs' = [jobs EXCEPT ![j].status = "RECORDED"]
  /\ registry' = [registry EXCEPT !["api"] = Increment(@, Once({"SUBMITTED"}))]
  /\ UNCHANGED <<events, gauge, scrape, rolled_back, restarts, truths>>

CommitSubmission(j) ==
  /\ jobs[j].status = "RECORDED"
  /\ Commits(j, [jobs[j] EXCEPT !.status = "PENDING"], {"SUBMITTED"})
  /\ UNCHANGED registry

RollBackSubmission(j) ==
  /\ jobs[j].status = "RECORDED"
  /\ rolled_back < MaxRollbacks
  /\ jobs' = [jobs EXCEPT ![j].status = "ABSENT"]
  /\ rolled_back' = rolled_back + 1
  /\ UNCHANGED <<events, registry, gauge, scrape, restarts, truths>>

\* claim_pending_job, in a worker process
ClaimJob(j) ==
  /\ jobs[j].status = "PENDING"
  /\ Commits(j, [status |-> "RUNNING", attempts |-> jobs[j].attempts + 1], {"CLAIMED"})
  /\ registry' = [registry EXCEPT !["worker"] = Record(@, {"CLAIMED"}, "queue_wait")]

Acknowledge(j, status, event) ==
  /\ jobs[j].status = "RUNNING"
  /\ Commits(j, [jobs[j] EXCEPT !.status = status], {event})
  /\ registry' = [registry EXCEPT !["worker"] = Record(@, {event}, "execution_duration")]

\* Mutant: one attempt too many.
PastLastAttempt(row) == row.attempts > MaxAttempts

\* No attempt is left.
Exhausted(row) == row.attempts >= MaxAttempts

\* mark_job_succeeded, move_owned_job_to_dlq, schedule_job_retry
SettleJob(j) ==
  \/ Acknowledge(j, "SUCCEEDED", "SUCCEEDED")
  \/ Acknowledge(j, "DEAD_LETTERED", "DEAD_LETTERED")
  \/ ~Exhausted(jobs[j]) /\ Acknowledge(j, "PENDING", "FAILED_RETRY_SCHEDULED")

\* recover_expired_leases, in the reaper's process, one row of a batch.  A requeued job
\* is no retry: REQUEUED_FROM_TIMEOUT is not counted.
RecoverLease(j) ==
  /\ jobs[j].status = "RUNNING"
  /\ IF Exhausted(jobs[j])
     THEN /\ Commits(j, [jobs[j] EXCEPT !.status = "DEAD_LETTERED"],
                     {"LEASE_EXPIRED", "DEAD_LETTERED"})
          /\ registry' = [registry EXCEPT
               !["reaper"] = Record(@, {"LEASE_EXPIRED", "DEAD_LETTERED"},
                                    "execution_duration")]
     ELSE /\ Commits(j, [jobs[j] EXCEPT !.status = "PENDING"], {"LEASE_EXPIRED"})
          /\ registry' = [registry EXCEPT
               !["reaper"] = Increment(@, Once({"LEASE_EXPIRED"}))]

-----------------------------------------------------------------------------
(* refresh_database_gauges                                                  *)

Continue(s, from, next) ==
  /\ scrape[s].step = from
  /\ scrape' = [scrape EXCEPT ![s] = next]
  /\ UNCHANGED <<jobs, events, rolled_back, restarts>>

BeginScrape(s) ==
  LET others == {q \in Scrapes : scrape[q].step \in Open}
  IN  /\ scrape[s].step = "new"
      /\ scrape' = [q \in Scrapes |->
           CASE q = s -> [NewScrape EXCEPT !.step = "began", !.since = events,
                                           !.alone = others = {}]
             [] q \in others -> [scrape[q] EXCEPT !.alone = FALSE]
             [] OTHER -> scrape[q]]
      /\ truths' = [q \in Scrapes |->
           IF q = s /\ others = {} THEN {JobCounts(jobs)} ELSE {}]
      /\ UNCHANGED <<jobs, events, registry, gauge, rolled_back, restarts>>

\* list_lifecycle_counter_totals
ReadTotals(s) ==
  /\ Continue(s, "began", [scrape[s] EXCEPT !.step = "totals", !.totals = events])
  /\ UNCHANGED <<registry, gauge, truths>>

\* Mutant: a series that has a value is left alone.
FirstTotalOnly(snapshot, total) == IF snapshot > 0 THEN 0 ELSE total

\* Mutant: the counter is set to the total.
Difference(snapshot, total) == total - snapshot

\* _sync_counter
Missing(snapshot, total) == IF total <= snapshot THEN 0 ELSE total - snapshot

\* _sync_lifecycle_counters after its await: nothing runs in between.
SyncCounters(s) ==
  /\ Continue(s, "totals", [scrape[s] EXCEPT !.step = "synced", !.totals = Zero])
  /\ registry' = [registry EXCEPT !["api"] =
       Increment(@, [x \in Series |-> Missing(@.snapshot[x], scrape[s].totals[x])])]
  /\ UNCHANGED <<gauge, truths>>

\* list_all_tenant_queue_metrics: the counts by status, then the dead letters.
ReadCounts(s) ==
  /\ Continue(s, "synced", [scrape[s] EXCEPT !.step = "counts", !.counts = JobCounts(jobs)])
  /\ UNCHANGED <<registry, gauge, truths>>

ReadDeadLetters(s) ==
  /\ Continue(s, "counts", [scrape[s] EXCEPT !.step = "dead_letters",
                              !.dead_letter_jobs = JobCounts(jobs)["DEAD_LETTERED"]])
  /\ UNCHANGED <<registry, gauge, truths>>

\* Mutant: a status without jobs keeps its gauge.
CountedStatuses(counts) ==
  [x \in JobStatus |-> IF counts[x] = 0 THEN gauge.queue_depth[x] ELSE counts[x]]

QueueDepth(counts) == counts

SetQueueGauges(s) ==
  /\ Continue(s, "dead_letters", [scrape[s] EXCEPT
       !.step = "set", !.counts = NoJobs, !.dead_letter_jobs = 0])
  /\ gauge' = [gauge EXCEPT !.queue_depth = QueueDepth(scrape[s].counts),
                            !.dead_letter_jobs = scrape[s].dead_letter_jobs]
  /\ UNCHANGED <<registry, truths>>

\* list_tenant_running_limits: the quota counter is the number of running jobs.
ReadLimits(s) ==
  /\ Continue(s, "set", [scrape[s] EXCEPT
       !.step = "limits", !.slots = JobCounts(jobs)["RUNNING"]])
  /\ UNCHANGED <<registry, gauge, truths>>

SetLimitGauges(s) ==
  /\ Continue(s, "limits", [scrape[s] EXCEPT !.step = "refreshed", !.slots = 0])
  /\ gauge' = [gauge EXCEPT !.runtime_slots_used = scrape[s].slots]
  /\ UNCHANGED <<registry, truths>>

\* The session is closed, which awaits, and the registry is rendered.
Respond(s) ==
  /\ Continue(s, "refreshed", [scrape[s] EXCEPT !.step = "done", !.since = Zero,
                                                  !.alone = FALSE])
  /\ truths' = [truths EXCEPT ![s] = {}]
  /\ UNCHANGED <<registry, gauge>>

-----------------------------------------------------------------------------
\* The API process dies with what it was serving and is started again.
RestartApi ==
  /\ restarts < MaxRestarts
  /\ restarts' = restarts + 1
  /\ registry' = [registry EXCEPT !["api"] = EmptyRegistry]
  /\ gauge' = NoGauges
  /\ jobs' = [j \in Jobs |->
       IF jobs[j].status = "RECORDED" THEN [jobs[j] EXCEPT !.status = "ABSENT"] ELSE jobs[j]]
  /\ scrape' = [s \in Scrapes |->
       IF scrape[s].step \in Open THEN [NewScrape EXCEPT !.step = "died"] ELSE scrape[s]]
  /\ truths' = [s \in Scrapes |-> {}]
  /\ rolled_back' = 0
  /\ UNCHANGED events

Refresh(s) ==
  \/ ReadTotals(s) \/ SyncCounters(s)
  \/ ReadCounts(s) \/ ReadDeadLetters(s) \/ SetQueueGauges(s)
  \/ ReadLimits(s) \/ SetLimitGauges(s) \/ Respond(s)

Next ==
  \/ \E j \in Jobs :
       \/ RecordSubmission(j) \/ CommitSubmission(j) \/ RollBackSubmission(j)
       \/ ClaimJob(j) \/ SettleJob(j) \/ RecoverLease(j)
  \/ \E s \in Scrapes : BeginScrape(s) \/ Refresh(s)
  \/ RestartApi

Spec == Init /\ [][Next]_vars

-----------------------------------------------------------------------------
(* Properties                                                               *)

\* The registries and coroutines hold values of their types, and each snapshot is the
\* value of its counter.
TypeOK ==
  /\ jobs \in [Jobs -> JobRow]
  /\ events \in [Series -> Nat]
  /\ registry \in [Processes -> Registry]
  /\ \A p \in Processes : registry[p].snapshot = registry[p].counter
  /\ gauge \in Gauges
  /\ scrape \in [Scrapes -> Scrape]
  /\ rolled_back \in 0..MaxRollbacks
  /\ restarts \in 0..MaxRestarts

\* What the API process has counted itself without a committed event.
Uncommitted(series) ==
  IF series = "SUBMITTED"
  THEN rolled_back + Cardinality({j \in Jobs : jobs[j].status = "RECORDED"})
  ELSE 0

\* No event is counted twice, by the process that records it and by a scrape or by two
\* scrapes that overlap: an exposed counter exceeds the committed events by no more
\* than the submissions its process recorded and did not commit.
NothingCountedTwice ==
  \A x \in Series : registry["api"].counter[x] <= events[x] + Uncommitted(x)

Responds(s) == scrape[s].step = "refreshed" /\ scrape'[s].step = "done"

\* A scrape misses no event that was committed when it began, whichever process
\* recorded it and however often the API was restarted since.
ScrapeMissesNothing ==
  [][\A s \in Scrapes : Responds(s) =>
       \A x \in Series : registry'["api"].counter[x] >= scrape[s].since[x]]_vars

\* A counter falls only when the API is restarted, although a scrape may hold totals
\* that are older than what was recorded since it read them.
CountersOnlyRise ==
  [][restarts' = restarts =>
       \A x \in Series : registry'["api"].counter[x] >= registry["api"].counter[x]]_vars

\* A scrape that overlapped no other shows a queue depth of every status, and a number
\* of used slots, that were true at some time since it began.
LoneScrapeIsFresh ==
  [][\A s \in Scrapes : Responds(s) /\ scrape[s].alone =>
       /\ gauge'.queue_depth \in truths[s]
       /\ \E c \in truths[s] : gauge'.runtime_slots_used = c["RUNNING"]]_vars

\* The documents list the histograms among the metrics of the API: a scrape that shows
\* claims shows how long the claimed jobs waited.
ClaimsAreTimed ==
  [][\A s \in Scrapes : Responds(s) /\ registry["api"].counter["CLAIMED"] > 0 =>
       registry'["api"].observed["queue_wait"] > 0]_vars

=============================================================================
