----------------------------- MODULE JobStream ------------------------------
(***************************************************************************)
(* WS /jobs/stream: each connection polls job_events for the rows of its   *)
(* tenant that follow a cursor in (created_at, id) order.                  *)
(*                                                                         *)
(* created_at is now() of the inserting transaction, the time it began,    *)
(* and a row is visible once that transaction committed, so the order the  *)
(* cursor follows is not the order in which the rows appear.               *)
(***************************************************************************)
EXTENDS Integers, FiniteSets

CONSTANTS
  Tenants,
  EventIds,   \* the uuids of events, as the numbers the comparison sees
  Sockets,    \* connections, numbered: each is opened at most once
  Lookback,   \* how far before its start a stream begins, in seconds
  BatchSize,  \* JOB_STREAM_BATCH_SIZE
  MaxNow,     \* bound: seconds the clock shows
  Null

ASSUME StreamAssumption ==
  /\ IsFiniteSet(EventIds) /\ EventIds \subseteq Nat \ {0}
  /\ Sockets \subseteq Nat
  /\ Lookback \in Nat
  /\ BatchSize \in Nat \ {0}
  /\ MaxNow \in Nat
  /\ Null \notin Tenants

VARIABLES
  now,     \* the clock
  events,  \* committed rows of job_events
  commits, \* transactions committed so far
  stream   \* what the handler of each connection knows

streamVars == <<now, events, commits, stream>>

\* MIN_JOB_EVENT_ID is 0, below every id.  "commit" is no column: it numbers the
\* transaction that made the row visible.
Cursors == [created_at : Int, id : Nat]
Events == [created_at : Nat, id : EventIds, tenant : Tenants, commit : Nat]

Streams == [phase  : {"unused", "open", "ended"},
            tenant : Tenants \cup {Null},
            start  : Cursors,
            cursor : Cursors,
            batch  : SUBSET Events,  \* listed and not sent yet
            sent   : SUBSET Events]

NoCursor == [created_at |-> 0, id |-> 0]

StreamInit ==
  /\ now = 0
  /\ events = {}
  /\ commits = 0
  /\ stream = [s \in Sockets |->
                 [phase |-> "unused", tenant |-> Null, start |-> NoCursor,
                  cursor |-> NoCursor, batch |-> {}, sent |-> {}]]

-----------------------------------------------------------------------------
(* Transactions that write events                                           *)

NewIds == EventIds \ {e.id : e \in events}

\* A transaction of the API, a worker or the reaper that began at some earlier time.  Most
\* add one event; the reaper's add two for each job, and for jobs of several tenants.
CommitTransaction(began, tenantOf) ==
  /\ began <= now
  /\ commits' = commits + 1
  /\ events' = events \cup {[created_at |-> began, id |-> i, tenant |-> tenantOf[i],
                             commit |-> commits + 1] : i \in DOMAIN tenantOf}
  /\ UNCHANGED <<now, stream>>

Tick ==
  /\ now < MaxNow
  /\ now' = now + 1
  /\ UNCHANGED <<events, commits, stream>>

-----------------------------------------------------------------------------
(* The handler of a connection                                              *)

\* (created_at, id) order.
Precedes(a, b) ==
  \/ a.created_at < b.created_at
  \/ a.created_at = b.created_at /\ a.id < b.id

\* The token is valid: accept, and start the cursor a little in the past.
Accept(s, t) ==
  /\ stream[s].phase = "unused"
  /\ LET start == [created_at |-> now - Lookback, id |-> 0]
     IN  stream' = [stream EXCEPT ![s].phase = "open", ![s].tenant = t,
                                  ![s].start = start, ![s].cursor = start]
  /\ UNCHANGED <<now, events, commits>>

\* No token, an invalid one, or the database does not answer.
Refuse(s) ==
  /\ stream[s].phase = "unused"
  /\ stream' = [stream EXCEPT ![s].phase = "ended"]
  /\ UNCHANGED <<now, events, commits>>

Pending(s) ==
  {e \in events : e.tenant = stream[s].tenant /\ Precedes(stream[s].cursor, e)}

\* Mutant: LIMIT without ORDER BY.
AnyBatch(s) ==
  {B \in SUBSET Pending(s) : B # {} /\ Cardinality(B) <= BatchSize}

\* ORDER BY ... LIMIT: no listed event follows one that is left out.
Batches(s) ==
  {B \in SUBSET Pending(s) :
     /\ B # {}
     /\ Cardinality(B) <= BatchSize
     /\ B = Pending(s) \/ Cardinality(B) = BatchSize
     /\ \A e \in B, f \in Pending(s) \ B : Precedes(e, f)}

\* list_tenant_job_events_after, in a session that is closed before the first send.
ListEvents(s) ==
  /\ stream[s].phase = "open" /\ stream[s].batch = {}
  /\ \E B \in Batches(s) : stream' = [stream EXCEPT ![s].batch = B]
  /\ UNCHANGED <<now, events, commits>>

\* Mutant: the new cursor is not returned.
CursorKept(s, e) == stream[s].cursor

CursorAfter(s, e) == [created_at |-> e.created_at, id |-> e.id]

\* send_json for the first event of the batch that was not sent yet.
SendEvent(s) ==
  /\ stream[s].phase = "open"
  /\ \E e \in stream[s].batch :
       /\ \A f \in stream[s].batch \ {e} : Precedes(e, f)
       /\ stream' = [stream EXCEPT ![s].batch = @ \ {e}, ![s].sent = @ \cup {e},
                                   ![s].cursor = CursorAfter(s, e)]
  /\ UNCHANGED <<now, events, commits>>

\* The client is gone, a query fails (which nothing catches), or the process dies.
EndStream(s) ==
  /\ stream[s].phase = "open"
  /\ stream' = [stream EXCEPT ![s].phase = "ended", ![s].batch = {}]
  /\ UNCHANGED <<now, events, commits>>

-----------------------------------------------------------------------------
WriterStep ==
  \E began \in 0..now, ids \in (SUBSET NewIds) \ {{}} : \E tenantOf \in [ids -> Tenants] :
     CommitTransaction(began, tenantOf)

PollStep(s) == ListEvents(s) \/ SendEvent(s)

StreamNext ==
  \/ Tick
  \/ WriterStep
  \/ \E s \in Sockets :
       \/ \E t \in Tenants : Accept(s, t)
       \/ Refuse(s)
       \/ PollStep(s)
       \/ EndStream(s)

StreamSpec == StreamInit /\ [][StreamNext]_streamVars

-----------------------------------------------------------------------------
(* Properties                                                               *)

\* The variables hold values of their types, and no row is dated in the future.
StreamTypeOK ==
  /\ now \in 0..MaxNow
  /\ commits \in Nat
  /\ events \subseteq Events
  /\ \A e \in events : e.created_at <= now /\ e.commit <= commits
  /\ stream \in [Sockets -> Streams]

\* Whatever the cursor of a connection has passed was sent on it, unless it was
\* committed after an event that follows it in (created_at, id) order: polls, batches
\* and equal timestamps lose nothing, only transactions that overtake each other do.
OnlyOvertakenEventsMissed ==
  \A s \in Sockets : \A e \in events :
    /\ stream[s].phase # "unused"
    /\ e.tenant = stream[s].tenant
    /\ Precedes(stream[s].start, e)
    /\ ~Precedes(stream[s].cursor, e)
    => \/ e \in stream[s].sent
       \/ \E f \in stream[s].sent : Precedes(e, f) /\ f.commit < e.commit

\* A connection sends only committed events of its own tenant, each once and in
\* (created_at, id) order: what is listed and not sent yet follows all that was sent.
SentOnceInOrder ==
  \A s \in Sockets :
    /\ stream[s].batch \cup stream[s].sent
         \subseteq {e \in events : e.tenant = stream[s].tenant}
    /\ \A e \in stream[s].batch, f \in stream[s].sent : Precedes(f, e)

=============================================================================
