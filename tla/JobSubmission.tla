--------------------------- MODULE JobSubmission ----------------------------
(***************************************************************************)
(* POST /jobs: authentication with an API key or an access token, the      *)
(* lookup of the idempotency key, the tenant's submission window, the      *)
(* insert of the job with its SUBMITTED event, the response and the commit *)
(* that follows it.                                                        *)
(*                                                                         *)
(* Each request is one READ COMMITTED transaction, so a step is one        *)
(* statement: it reads what is committed, and waits when it writes a row   *)
(* another open transaction wrote.  The rows that requests wait for are    *)
(* the API key (last_used_at) and the tenant's rate-limit row, both held   *)
(* to the end of the transaction.                                          *)
(***************************************************************************)
EXTENDS Integers, FiniteSets

CONSTANTS
  Requests,        \* submissions that pass the checks of their headers and body
  Tenants,
  TenantOf,        \* the tenant of the request's credentials
  Keys,
  KeyOf,           \* the Idempotency-Key header, stripped
  ApiKeys,
  ApiKeyOf,        \* the API key of the request, Null for an access token
  SubmitRateLimit, \* tenants.submit_rate_limit
  MaxMinute,       \* bound: minutes the clock shows
  MaxAborts,       \* bound: requests that die on the way
  Null,            \* also the answer of a request that got none
  RateLimited      \* 429 Too Many Requests

ASSUME SubmissionAssumption ==
  /\ IsFiniteSet(Requests)
  /\ TenantOf \in [Requests -> Tenants]
  /\ KeyOf \in [Requests -> Keys]
  /\ ApiKeyOf \in [Requests -> ApiKeys \cup {Null}]
  /\ \A q, r \in Requests :
       ApiKeyOf[q] # Null /\ ApiKeyOf[q] = ApiKeyOf[r] => TenantOf[q] = TenantOf[r]
  /\ SubmitRateLimit \in [Tenants -> Nat \ {0}]
  /\ MaxMinute \in Nat \ {0}
  /\ MaxAborts \in Nat
  /\ Null \notin Requests /\ RateLimited \notin Requests /\ Null # RateLimited

VARIABLES
  jobs,     \* committed rows of the jobs table, named by the request that inserted them
  rate,     \* committed rows of tenant_submission_rate_limits
  minute,   \* date_trunc('minute', now()) of a transaction that begins now
  pc,       \* how far each request has come
  began,    \* the same of the request's own transaction: now() does not move in it
  reserved, \* the rate-limit row the request wrote
  answer,   \* the job in the response
  aborts    \* requests that died so far

vars == <<jobs, rate, minute, pc, began, reserved, answer, aborts>>

\* Minutes count from 1, so a tenant without a row has a window that is over.
NoRateRow == [window_start |-> 0, submitted_count |-> 0]

\* The steps of create_job that other requests can see the difference between.
Steps == {"new", "started", "authenticated", "missed", "reserved", "conflict",
          "responded", "done", "aborted"}
Open == {"started", "authenticated", "missed", "reserved", "conflict", "responded"}

Init ==
  /\ jobs = {}
  /\ rate = [t \in Tenants |-> NoRateRow]
  /\ minute = 1
  /\ pc = [r \in Requests |-> "new"]
  /\ began = [r \in Requests |-> 0]
  /\ reserved = [r \in Requests |-> NoRateRow]
  /\ answer = [r \in Requests |-> Null]
  /\ aborts = 0

Goto(r, step) == pc' = [pc EXCEPT ![r] = step]

-----------------------------------------------------------------------------
(* Authentication                                                           *)

\* The first statement, the lookup of the credentials, begins the transaction.
Begin(r) ==
  /\ pc[r] = "new"
  /\ Goto(r, "started")
  /\ began' = [began EXCEPT ![r] = minute]
  /\ UNCHANGED <<jobs, rate, minute, reserved, answer, aborts>>

\* r's transaction wrote last_used_at.
HoldsApiKey(r) ==
  /\ ApiKeyOf[r] # Null
  /\ pc[r] \in {"authenticated", "missed", "reserved", "responded"}

\* An access token is only read; an API key is also updated.
Authenticate(r) ==
  /\ pc[r] = "started"
  /\ \A q \in Requests : HoldsApiKey(q) => ApiKeyOf[q] # ApiKeyOf[r]
  /\ Goto(r, "authenticated")
  /\ UNCHANGED <<jobs, rate, minute, began, reserved, answer, aborts>>

-----------------------------------------------------------------------------
(* get_job_by_idempotency_key                                               *)

SameSubmission(q, r) == TenantOf[q] = TenantOf[r] /\ KeyOf[q] = KeyOf[r]

Existing(r) == {q \in jobs : SameSubmission(q, r)}

Replay(r) ==
  /\ pc[r] = "authenticated"
  /\ \E q \in Existing(r) : answer' = [answer EXCEPT ![r] = q]
  /\ Goto(r, "responded")
  /\ UNCHANGED <<jobs, rate, minute, began, reserved, aborts>>

Miss(r) ==
  /\ pc[r] = "authenticated"
  /\ Existing(r) = {}
  /\ Goto(r, "missed")
  /\ UNCHANGED <<jobs, rate, minute, began, reserved, answer, aborts>>

-----------------------------------------------------------------------------
(* reserve_submission_slot                                                  *)

\* Mutant: nobody waits for the row.
NeverHoldsRateRow(r) == FALSE

\* Mutant: the transaction of a finished request stays open.
HoldsRateRowForEver(r) ==
  pc[r] \in {"reserved", "responded", "done"} /\ reserved[r] # NoRateRow

\* r's transaction wrote the rate-limit row of its tenant.
HoldsRateRow(r) ==
  \/ pc[r] = "reserved"
  \/ pc[r] = "responded" /\ answer[r] = r

RateRowFree(r) ==
  \A q \in Requests : HoldsRateRow(q) => TenantOf[q] # TenantOf[r]

\* Mutant: a full window is never over.
HasQuotaIgnoringAge(r) ==
  rate[TenantOf[r]].submitted_count < SubmitRateLimit[TenantOf[r]]

\* The WHERE of the upsert, on the row as the last committed transaction left it.
HasQuota(r) ==
  LET row == rate[TenantOf[r]]
  IN  \/ row.window_start < began[r]
      \/ row.submitted_count < SubmitRateLimit[TenantOf[r]]

\* Mutant: the window starts with the next minute.
CountedNextMinute(r) ==
  [window_start |-> began[r] + 1, submitted_count |-> 1]

\* Mutant: a late transaction goes back to the minute it began in.
CountedWhereItBegan(r) ==
  LET row == rate[TenantOf[r]]
  IN  IF row.window_start # began[r]
        THEN [window_start |-> began[r], submitted_count |-> 1]
        ELSE [row EXCEPT !.submitted_count = @ + 1]

\* The SET of the upsert: a transaction that began in an earlier minute than the
\* row's window is counted in that window.
Counted(r) ==
  LET row == rate[TenantOf[r]]
  IN  IF row.window_start < began[r]
        THEN [window_start |-> began[r], submitted_count |-> 1]
        ELSE [row EXCEPT !.submitted_count = @ + 1]

Reserve(r) ==
  /\ pc[r] = "missed"
  /\ RateRowFree(r)
  /\ HasQuota(r)
  /\ Goto(r, "reserved")
  /\ reserved' = [reserved EXCEPT ![r] = Counted(r)]
  /\ UNCHANGED <<jobs, rate, minute, began, answer, aborts>>

\* The 429 is raised through the session dependency, which rolls back before the
\* response is sent.
Reject(r) ==
  /\ pc[r] = "missed"
  /\ RateRowFree(r)
  /\ ~HasQuota(r)
  /\ Goto(r, "done")
  /\ answer' = [answer EXCEPT ![r] = RateLimited]
  /\ UNCHANGED <<jobs, rate, minute, began, reserved, aborts>>

-----------------------------------------------------------------------------
(* The insert, the response and the commit                                  *)

\* Mutant: no unique constraint.
NeverConflicts(r) == FALSE

\* The unique constraint on tenant and key finds a committed row.
Conflicts(r) == Existing(r) # {}

\* An uncommitted row with the same tenant and key makes the insert wait.
InsertWaits(r) ==
  \E q \in Requests \ {r} :
    pc[q] = "responded" /\ answer[q] = q /\ SameSubmission(q, r)

\* The row and its event are inserted and the response is sent.
InsertJob(r) ==
  /\ pc[r] = "reserved"
  /\ ~InsertWaits(r)
  /\ ~Conflicts(r)
  /\ Goto(r, "responded")
  /\ answer' = [answer EXCEPT ![r] = r]
  /\ UNCHANGED <<jobs, rate, minute, began, reserved, aborts>>

\* IntegrityError: the whole transaction is rolled back, the reservation with it.
InsertConflicts(r) ==
  /\ pc[r] = "reserved"
  /\ Conflicts(r)
  /\ Goto(r, "conflict")
  /\ reserved' = [reserved EXCEPT ![r] = NoRateRow]
  /\ UNCHANGED <<jobs, rate, minute, began, answer, aborts>>

\* The second lookup, in a transaction that writes nothing.  Rows of jobs are never
\* deleted, so the re-raise for a row that vanished is not reached.
ReplayAfterConflict(r) ==
  /\ pc[r] = "conflict"
  /\ \E q \in Existing(r) : answer' = [answer EXCEPT ![r] = q]
  /\ Goto(r, "done")
  /\ UNCHANGED <<jobs, rate, minute, began, reserved, aborts>>

\* get_db_session resumes after the response was sent.
Commit(r) ==
  /\ pc[r] = "responded"
  /\ Goto(r, "done")
  /\ IF answer[r] = r
       THEN /\ jobs' = jobs \cup {r}
            /\ rate' = [rate EXCEPT ![TenantOf[r]] = reserved[r]]
       ELSE UNCHANGED <<jobs, rate>>
  /\ UNCHANGED <<minute, began, reserved, answer, aborts>>

\* An API process dies, or a statement or the commit fails: the transaction is rolled
\* back, also when its response was sent.
AbortRequest(r) ==
  /\ pc[r] \in Open
  /\ aborts < MaxAborts
  /\ aborts' = aborts + 1
  /\ Goto(r, "aborted")
  /\ reserved' = [reserved EXCEPT ![r] = NoRateRow]
  /\ UNCHANGED <<jobs, rate, minute, began, answer>>

NextMinute ==
  /\ minute < MaxMinute
  /\ minute' = minute + 1
  /\ UNCHANGED <<jobs, rate, pc, began, reserved, answer, aborts>>

-----------------------------------------------------------------------------
CreateJob(r) ==
  \/ Authenticate(r)
  \/ Replay(r) \/ Miss(r)
  \/ Reserve(r) \/ Reject(r)
  \/ InsertJob(r) \/ InsertConflicts(r) \/ ReplayAfterConflict(r)
  \/ Commit(r)

Next ==
  \/ \E r \in Requests : Begin(r) \/ CreateJob(r) \/ AbortRequest(r)
  \/ NextMinute

Spec == Init /\ [][Next]_vars

\* A request that began runs to its end; PostgreSQL queues whoever waits for a row.
Fairness == \A r \in Requests : WF_vars(CreateJob(r))

FairSpec == Spec /\ Fairness

-----------------------------------------------------------------------------
(* Properties                                                               *)

RateRow == [window_start : 0..minute, submitted_count : Nat]

\* The values of the tables and of each request; no window lies in the future.
TypeOK ==
  /\ jobs \subseteq Requests
  /\ minute \in 1..MaxMinute
  /\ rate \in [Tenants -> RateRow]
  /\ pc \in [Requests -> Steps]
  /\ began \in [Requests -> 0..minute]
  /\ reserved \in [Requests -> RateRow]
  /\ answer \in [Requests -> Requests \cup {Null, RateLimited}]
  /\ aborts \in 0..MaxAborts

\* Committed jobs of a tenant that were counted in a window.
CountedIn(t, m) == {q \in jobs : TenantOf[q] = t /\ reserved[q].window_start = m}

\* The counter of the current window is the number of committed jobs counted in it, so
\* refused, conflicting and rolled-back submissions give their slot back, and no window
\* ever has more jobs than the tenant's limit, however its requests overlap.
WindowsExact ==
  \A t \in Tenants :
    /\ rate[t].submitted_count = Cardinality(CountedIn(t, rate[t].window_start))
    /\ \A m \in 1..minute : Cardinality(CountedIn(t, m)) <= SubmitRateLimit[t]

Answered(r) == pc[r] = "done" /\ answer[r] # RateLimited

\* Requests of one tenant with one key that ran to their end and were not refused were
\* all told the same job, a committed one with that tenant and key, whether they
\* inserted it, found it or lost the race for it.
OneAnswerPerKey ==
  \A q, r \in Requests :
    Answered(q) /\ Answered(r) /\ SameSubmission(q, r) =>
      /\ answer[q] = answer[r]
      /\ answer[r] \in Existing(r)

\* A request is refused only if, at that moment, the tenant's window is not over for it
\* and is full of jobs that were really accepted.
RejectedOnlyWhenFull ==
  [][\A r \in Requests :
       LET t == TenantOf[r]
       IN  answer'[r] = RateLimited /\ answer[r] # RateLimited =>
             /\ rate[t].window_start >= began[r]
             /\ Cardinality(CountedIn(t, rate[t].window_start)) >= SubmitRateLimit[t]]_vars

\* Every request that began is answered or aborted: requests that hold an API key and
\* wait for a rate-limit row never wait for each other.
EveryRequestAnswered ==
  \A r \in Requests :
    pc[r] = "started" ~> (pc[r] = "done" /\ answer[r] # Null) \/ pc[r] = "aborted"

\* What the documents ask of a response: the job it names is persisted.
AcceptedIsPersisted ==
  \A r \in Requests : answer[r] \in Requests => answer[r] \in jobs

\* What the documents and a test say of a repeated submission: the job that exists is
\* returned, also when the tenant's window is full.
DuplicateGetsTheJob ==
  [][\A r \in Requests :
       answer'[r] = RateLimited /\ answer[r] # RateLimited => Existing(r) = {}]_vars

\* The endpoint keeps the promise of SubmissionLedger about the jobs it commits.
Ledger == INSTANCE SubmissionLedger
  WITH accepted <- [r \in Requests |-> IF r \in jobs THEN reserved[r].window_start ELSE 0]

ImplementsLedger == Ledger!Spec
=============================================================================
