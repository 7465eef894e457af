-------------------------- MODULE QueueLocksProofs --------------------------
(* Proofs that slots, leases and attempts stay exact however the statements   *)
(* of claims, acknowledgements and recoveries interleave, and of what it      *)
(* takes to deadlock: for any jobs, tenants, limits, workers and reapers.     *)
EXTENDS QueueLocks, FiniteSetTheorems, TLAPS

\* A row is locked by one transaction.
LocksExclusive ==
  \A x, y \in Transactions : x # y =>
    /\ tx[x].rows \cap tx[y].rows = {}
    /\ tx[x].quotas \cap tx[y].quotas = {}

\* What the transaction t of process x has locked at each of its steps.
Locked(x, t) ==
  /\ t.step \in {"idle", "executing", "acking", "down"} => t.rows = {} /\ t.quotas = {}
  /\ t.step \in {"claiming", "waiting", "reserved", "recovering"} => t.todo \subseteq t.rows
  /\ t.step \in {"reserved", "executing", "acking", "owning", "released"} =>
       \E j \in Jobs : t.todo = {j}
  /\ t.step \in {"owning", "released"} => t.rows = t.todo
  /\ t.step = "owning" => t.quotas = {}
  /\ t.step \in {"reserved", "released"} => \A j \in t.todo : TenantOf[j] \in t.quotas
  /\ t.step = "recovering" => \A j \in t.rows \ t.todo : TenantOf[j] \in t.quotas
  /\ x \in Workers => t.step # "recovering"
  /\ x \in Reapers => t.step \in {"idle", "recovering", "down"}

\* What it read of the rows that it locked is still true.
ReadTrue(t) ==
  /\ t.step \in {"claiming", "waiting", "reserved"} =>
       \A j \in t.rows : jobs[j].status = "PENDING"
  /\ t.step = "reserved" => \A j \in t.todo : HasRoom(TenantOf[j])
  /\ t.step \in {"owning", "released"} =>
       \A j \in t.rows : jobs[j].status = "RUNNING" /\ jobs[j].attempts = t.attempt
  /\ t.step = "recovering" => \A j \in t.rows : jobs[j].status = "RUNNING"

PendingHasAttempt ==
  \A j \in Jobs : jobs[j].status = "PENDING" => jobs[j].attempts < MaxAttempts

LocksInv ==
  /\ TypeOK
  /\ LocksExclusive
  /\ \A x \in Transactions : Locked(x, tx[x]) /\ ReadTrue(tx[x])
  /\ PendingHasAttempt

-----------------------------------------------------------------------------
(* Steps that only take locks                                               *)

LEMMA IdleFits ==
  /\ Idle \in Transaction /\ Down \in Transaction
  /\ \A x \in Transactions : Locked(x, Idle) /\ Locked(x, Down)
  /\ ReadTrue(Idle) /\ ReadTrue(Down)
<1>1. ASSUME NEW t \in {Idle, Down}
      PROVE  /\ t.step \in {"idle", "down"} /\ t.rows = {} /\ t.quotas = {}
             /\ t \in Transaction
  <2>1. 0 \in 0..MaxAttempts
    BY QueueLocksAssumption
  <2>2. Idle \in Transaction /\ Idle.step = "idle" /\ Idle.rows = {} /\ Idle.quotas = {}
    BY <2>1 DEF Idle, Transaction, Steps
  <2>3. Down \in Transaction /\ Down.step = "down" /\ Down.rows = {} /\ Down.quotas = {}
    BY <2>1 DEF Idle, Down, Transaction, Steps
  <2> QED
    BY <2>2, <2>3
<1>2. \A x \in Transactions : Locked(x, Idle) /\ Locked(x, Down)
  BY <1>1, QueueLocksAssumption DEF Locked, Transactions
<1>3. ReadTrue(Idle) /\ ReadTrue(Down)
  BY <1>1 DEF ReadTrue
<1> QED
  BY <1>1, <1>2, <1>3

\* The rest of the invariant is kept by a step of x if the state it goes on in fits.
LEMMA OneMoves ==
  ASSUME LocksInv, NEW x \in Transactions, NEW state \in Transaction, Become(x, state), Waits,
         Locked(x, state), ReadTrue(state),
         \A y \in Transactions \ {x} : /\ state.rows \cap tx[y].rows = {}
                                       /\ state.quotas \cap tx[y].quotas = {}
  PROVE  LocksInv'
<1>1. tx' \in [Transactions -> Transaction]
  BY DEF LocksInv, TypeOK, Become
<1>2. tx'[x] = state /\ \A y \in Transactions \ {x} : tx'[y] = tx[y]
  BY DEF LocksInv, TypeOK, Become
<1>3. TypeOK'
  BY <1>1 DEF LocksInv, TypeOK, Waits, Running
<1>4. LocksExclusive'
  BY <1>2 DEF LocksInv, LocksExclusive
<1>5. ASSUME NEW y \in Transactions PROVE Locked(y, tx'[y]) /\ ReadTrue(tx'[y])
  <2>1. CASE y = x
    BY <1>2, <2>1
  <2>2. CASE y # x
    BY <1>2, <2>2 DEF LocksInv
  <2> QED
    BY <2>1, <2>2
<1>6. \A y \in Transactions : (Locked(y, tx[y]) /\ ReadTrue(tx[y]))'
  BY <1>5 DEF Locked, ReadTrue, Waits, HasRoom
<1> QED
  BY <1>3, <1>4, <1>6 DEF LocksInv, PendingHasAttempt, Waits

\* A step that keeps its locks takes none from others.
LEMMA KeepsLocks ==
  ASSUME LocksInv, NEW x \in Transactions
  PROVE  \A y \in Transactions \ {x} : /\ tx[x].rows \cap tx[y].rows = {}
                                       /\ tx[x].quotas \cap tx[y].quotas = {}
BY DEF LocksInv, LocksExclusive

LEMMA GoesIdle ==
  ASSUME LocksInv, NEW x \in Transactions, Become(x, Idle) \/ Become(x, Down), Waits
  PROVE  LocksInv'
<1>1. ASSUME NEW state \in {Idle, Down}
      PROVE  \A y \in Transactions \ {x} : /\ state.rows \cap tx[y].rows = {}
                                           /\ state.quotas \cap tx[y].quotas = {}
  BY DEF Idle, Down
<1> QED
  BY <1>1, IdleFits, OneMoves

LEMMA WorkerRunning ==
  ASSUME LocksInv, NEW w \in Workers
  PROVE  /\ w \in Transactions /\ w \notin Reapers /\ tx[w] \in Transaction
         /\ Locked(w, tx[w]) /\ ReadTrue(tx[w])
BY QueueLocksAssumption DEF LocksInv, TypeOK, Transactions

LEMMA ReaperRunning ==
  ASSUME LocksInv, NEW r \in Reapers
  PROVE  /\ r \in Transactions /\ r \notin Workers /\ tx[r] \in Transaction
         /\ Locked(r, tx[r]) /\ ReadTrue(tx[r])
BY QueueLocksAssumption DEF LocksInv, TypeOK, Transactions

-----------------------------------------------------------------------------
(* Claims                                                                   *)

LEMMA CandidatesSelected ==
  ASSUME LocksInv, NEW w \in Workers, SelectCandidates(w)
  PROVE  LocksInv'
<1> DEFINE B == Batch(Claimable(w), CandidateLimit, ByAge)
           state == [Idle EXCEPT !.step = "claiming", !.todo = B, !.rows = B]
<1>1. Become(w, state) /\ Waits
  BY DEF SelectCandidates
<1>2. B \subseteq Claimable(w) /\ B \in SUBSET Jobs
  BY DEF Batch, Claimable
<1>3. /\ state \in Transaction /\ state.step = "claiming"
      /\ state.rows = B /\ state.todo = B /\ state.quotas = {}
  <2>1. 0 \in 0..MaxAttempts
    BY QueueLocksAssumption
  <2> QED
    BY <1>2, <2>1 DEF Idle, Transaction, Steps
<1>4. \A y \in Transactions \ {w} : state.rows \cap tx[y].rows = {}
  BY <1>2, <1>3 DEF Claimable, RowFree, RowHolders
<1>5. Locked(w, state)
  BY <1>3, WorkerRunning DEF Locked
<1>6. ReadTrue(state)
  BY <1>2, <1>3 DEF ReadTrue, Claimable
<1> HIDE DEF state, B
<1> QED
  BY <1>1, <1>3, <1>4, <1>5, <1>6, WorkerRunning, OneMoves

LEMMA CandidatePassed ==
  ASSUME LocksInv, NEW w \in Workers, tx[w].step \in {"claiming", "waiting"},
         NEW j, NEW quotas \in SUBSET Tenants, NextCandidate(w, j, quotas), Waits,
         \A y \in Transactions \ {w} : quotas \cap tx[y].quotas = {}
  PROVE  LocksInv'
<1> DEFINE state == [tx[w] EXCEPT !.step = "claiming", !.todo = @ \ {j}, !.quotas = quotas]
<1>0. CASE Become(w, Idle)
  BY <1>0, WorkerRunning, GoesIdle
<1>1. CASE Become(w, state)
  <2>1. /\ state \in Transaction /\ state.step = "claiming" /\ state.rows = tx[w].rows
        /\ state.todo = tx[w].todo \ {j} /\ state.quotas = quotas
    BY WorkerRunning DEF Transaction, Steps
  <2>2. Locked(w, state)
    BY <2>1, WorkerRunning DEF Locked
  <2>3. ReadTrue(state)
    BY <2>1, WorkerRunning DEF ReadTrue
  <2>4. \A y \in Transactions \ {w} : state.rows \cap tx[y].rows = {}
    BY <2>1, WorkerRunning, KeepsLocks
  <2> HIDE DEF state
  <2> QED
    BY <1>1, <2>1, <2>2, <2>3, <2>4, WorkerRunning, OneMoves
<1> QED
  BY <1>0, <1>1 DEF NextCandidate

LEMMA SlotReserved ==
  ASSUME LocksInv, NEW w \in Workers, tx[w].step \in {"claiming", "waiting"},
         NEW j \in tx[w].todo, HasRoom(TenantOf[j]), QuotaFree(j, w), Reserved(w, j), Waits
  PROVE  LocksInv'
<1> DEFINE state == [tx[w] EXCEPT !.step = "reserved", !.todo = {j},
                                  !.quotas = @ \cup {TenantOf[j]}]
<1>0. j \in Jobs /\ TenantOf[j] \in Tenants
  BY WorkerRunning, QueueLocksAssumption DEF Transaction
<1>1. Become(w, state)
  BY DEF Reserved
<1>2. /\ state \in Transaction /\ state.step = "reserved" /\ state.rows = tx[w].rows
      /\ state.todo = {j} /\ state.quotas = tx[w].quotas \cup {TenantOf[j]}
  BY <1>0, WorkerRunning DEF Transaction, Steps
<1>3. Locked(w, state)
  BY <1>0, <1>2, WorkerRunning DEF Locked
<1>4. ReadTrue(state)
  BY <1>2, WorkerRunning DEF ReadTrue
<1>5. \A y \in Transactions \ {w} : /\ state.rows \cap tx[y].rows = {}
                                    /\ state.quotas \cap tx[y].quotas = {}
  <2>1. \A y \in Transactions \ {w} : TenantOf[j] \notin tx[y].quotas
    BY DEF QuotaFree, QuotaHolders
  <2> QED
    BY <1>2, <2>1, WorkerRunning, KeepsLocks
<1> HIDE DEF state
<1> QED
  BY <1>1, <1>2, <1>3, <1>4, <1>5, WorkerRunning, OneMoves

LEMMA SlotTried ==
  ASSUME LocksInv, NEW w \in Workers, ReserveSlot(w) \/ GetQuota(w)
  PROVE  LocksInv'
<1>0. tx[w].step \in {"claiming", "waiting"} /\ Waits
  BY DEF ReserveSlot, GetQuota
<1>1. /\ tx[w].quotas \in SUBSET Tenants
      /\ \A y \in Transactions \ {w} : tx[w].quotas \cap tx[y].quotas = {}
  BY WorkerRunning, KeepsLocks DEF Transaction
<1>2. PICK j \in Current(w) :
        \/ NextCandidate(w, j, tx[w].quotas)
        \/ HasRoom(TenantOf[j]) /\ QuotaFree(j, w) /\ Reserved(w, j)
        \/ Become(w, [tx[w] EXCEPT !.step = "waiting"])
        \/ QuotaFree(j, w) /\ NextCandidate(w, j, tx[w].quotas \cup {TenantOf[j]})
  BY DEF ReserveSlot, GetQuota
<1>3. j \in tx[w].todo /\ j \in Jobs /\ TenantOf[j] \in Tenants
  BY WorkerRunning, QueueLocksAssumption DEF Current, First, Transaction
<1>4. CASE NextCandidate(w, j, tx[w].quotas)
  BY <1>0, <1>1, <1>4, CandidatePassed
<1>5. CASE HasRoom(TenantOf[j]) /\ QuotaFree(j, w) /\ Reserved(w, j)
  BY <1>0, <1>3, <1>5, SlotReserved
<1>6. CASE Become(w, [tx[w] EXCEPT !.step = "waiting"])
  <2> DEFINE state == [tx[w] EXCEPT !.step = "waiting"]
  <2>1. /\ state \in Transaction /\ state.step = "waiting" /\ state.rows = tx[w].rows
        /\ state.todo = tx[w].todo /\ state.quotas = tx[w].quotas
    BY WorkerRunning DEF Transaction, Steps
  <2>2. Locked(w, state) /\ ReadTrue(state)
    BY <1>0, <2>1, WorkerRunning DEF Locked, ReadTrue
  <2>3. \A y \in Transactions \ {w} : /\ state.rows \cap tx[y].rows = {}
                                      /\ state.quotas \cap tx[y].quotas = {}
    BY <2>1, WorkerRunning, KeepsLocks
  <2>4. Become(w, state)
    BY <1>6
  <2> HIDE DEF state
  <2> QED
    BY <1>0, <2>1, <2>2, <2>3, <2>4, WorkerRunning, OneMoves
<1>7. CASE QuotaFree(j, w) /\ NextCandidate(w, j, tx[w].quotas \cup {TenantOf[j]})
  <2>1. \A y \in Transactions \ {w} :
          (tx[w].quotas \cup {TenantOf[j]}) \cap tx[y].quotas = {}
    BY <1>1, <1>7 DEF QuotaFree, QuotaHolders
  <2> QED
    BY <1>0, <1>1, <1>3, <1>7, <2>1, CandidatePassed
<1> QED
  BY <1>2, <1>4, <1>5, <1>6, <1>7

-----------------------------------------------------------------------------
(* Acknowledgements and recoveries                                          *)

LEMMA AckBegun ==
  ASSUME LocksInv, NEW w \in Workers, BeginAck(w)
  PROVE  LocksInv'
<1>1. PICK j \in tx[w].todo :
        Become(w, [tx[w] EXCEPT !.step = "acking",
                     !.live = jobs[j].attempts = tx[w].attempt /\ j \notin expired])
  BY DEF BeginAck
<1> DEFINE live == jobs[j].attempts = tx[w].attempt /\ j \notin expired
           state == [tx[w] EXCEPT !.step = "acking", !.live = live]
<1>2. tx[w].step = "executing" /\ Waits
  BY DEF BeginAck
<1>3. live \in BOOLEAN
  OBVIOUS
<1>4. Become(w, state)
  BY <1>1
<1> HIDE DEF live
<1>5. /\ state \in Transaction /\ state.step = "acking" /\ state.rows = tx[w].rows
      /\ state.todo = tx[w].todo /\ state.quotas = tx[w].quotas
  BY <1>3, WorkerRunning DEF Transaction, Steps
<1>6. Locked(w, state) /\ ReadTrue(state)
  BY <1>2, <1>5, WorkerRunning DEF Locked, ReadTrue
<1>7. \A y \in Transactions \ {w} : /\ state.rows \cap tx[y].rows = {}
                                    /\ state.quotas \cap tx[y].quotas = {}
  BY <1>5, WorkerRunning, KeepsLocks
<1> HIDE DEF state
<1> QED
  BY <1>2, <1>4, <1>5, <1>6, <1>7, WorkerRunning, OneMoves

LEMMA OwnedJobLocked ==
  ASSUME LocksInv, NEW w \in Workers, LockOwnedJob(w)
  PROVE  LocksInv'
<1>1. tx[w].step = "acking" /\ Waits
  BY DEF LockOwnedJob
<1>2. PICK j \in tx[w].todo :
        \/ Become(w, Idle)
        \/ /\ Owned(w, j) /\ RowFree(j, w)
           /\ Become(w, [tx[w] EXCEPT !.step = "owning", !.rows = {j}])
  BY DEF LockOwnedJob
<1>3. CASE Become(w, Idle)
  BY <1>1, <1>3, WorkerRunning, GoesIdle
<1>4. CASE /\ Owned(w, j) /\ RowFree(j, w)
           /\ Become(w, [tx[w] EXCEPT !.step = "owning", !.rows = {j}])
  <2> DEFINE state == [tx[w] EXCEPT !.step = "owning", !.rows = {j}]
  <2>1. j \in Jobs /\ tx[w].todo = {j} /\ tx[w].quotas = {}
    BY <1>1, WorkerRunning DEF Locked, Transaction
  <2>2. /\ state \in Transaction /\ state.step = "owning" /\ state.rows = {j}
        /\ state.todo = {j} /\ state.quotas = {} /\ state.attempt = tx[w].attempt
    BY <2>1, WorkerRunning DEF Transaction, Steps
  <2>3. Locked(w, state)
    BY <2>1, <2>2, WorkerRunning DEF Locked
  <2>4. ReadTrue(state)
    BY <1>4, <2>2 DEF ReadTrue, Owned
  <2>5. \A y \in Transactions \ {w} : /\ state.rows \cap tx[y].rows = {}
                                      /\ state.quotas \cap tx[y].quotas = {}
    BY <1>4, <2>2 DEF RowFree, RowHolders
  <2>6. Become(w, state)
    BY <1>4
  <2> HIDE DEF state
  <2> QED
    BY <1>1, <2>2, <2>3, <2>4, <2>5, <2>6, WorkerRunning, OneMoves
<1> QED
  BY <1>2, <1>3, <1>4

LEMMA SlotReleased ==
  ASSUME LocksInv, NEW w \in Workers, ReleaseSlot(w)
  PROVE  LocksInv'
<1>1. PICK j \in tx[w].todo :
        /\ QuotaFree(j, w)
        /\ Become(w, [tx[w] EXCEPT !.step = "released", !.quotas = {TenantOf[j]}])
  BY DEF ReleaseSlot
<1> DEFINE state == [tx[w] EXCEPT !.step = "released", !.quotas = {TenantOf[j]}]
<1>2. tx[w].step = "owning" /\ Waits
  BY DEF ReleaseSlot
<1>3. j \in Jobs /\ TenantOf[j] \in Tenants /\ tx[w].todo = {j}
  BY <1>2, WorkerRunning, QueueLocksAssumption DEF Locked, Transaction
<1>4. /\ state \in Transaction /\ state.step = "released" /\ state.rows = tx[w].rows
      /\ state.todo = {j} /\ state.quotas = {TenantOf[j]} /\ state.attempt = tx[w].attempt
  BY <1>3, WorkerRunning DEF Transaction, Steps
<1>5. Locked(w, state) /\ ReadTrue(state)
  BY <1>2, <1>3, <1>4, WorkerRunning DEF Locked, ReadTrue
<1>6. \A y \in Transactions \ {w} : /\ state.rows \cap tx[y].rows = {}
                                    /\ state.quotas \cap tx[y].quotas = {}
  BY <1>1, <1>4, WorkerRunning, KeepsLocks DEF QuotaFree, QuotaHolders
<1>7. Become(w, state)
  BY <1>1
<1> HIDE DEF state
<1> QED
  BY <1>2, <1>4, <1>5, <1>6, <1>7, WorkerRunning, OneMoves

LEMMA ExpiredSelected ==
  ASSUME LocksInv, NEW r \in Reapers, SelectExpired(r)
  PROVE  LocksInv'
<1> DEFINE B == Batch(Recoverable(r), ReaperBatch, lease_order)
           state == [Idle EXCEPT !.step = "recovering", !.todo = B, !.rows = B]
<1>1. Become(r, state) /\ Waits
  BY DEF SelectExpired
<1>2. B \subseteq Recoverable(r) /\ B \subseteq Running /\ B \in SUBSET Jobs
  BY DEF Batch, Recoverable, LocksInv, TypeOK, Running
<1>3. /\ state \in Transaction /\ state.step = "recovering"
      /\ state.rows = B /\ state.todo = B /\ state.quotas = {}
  <2>1. 0 \in 0..MaxAttempts
    BY QueueLocksAssumption
  <2> QED
    BY <1>2, <2>1 DEF Idle, Transaction, Steps
<1>4. \A y \in Transactions \ {r} : /\ state.rows \cap tx[y].rows = {}
                                    /\ state.quotas \cap tx[y].quotas = {}
  BY <1>2, <1>3 DEF Recoverable, RowFree, RowHolders
<1>5. Locked(r, state)
  BY <1>3, ReaperRunning DEF Locked
<1>6. ReadTrue(state)
  BY <1>2, <1>3 DEF ReadTrue, Running
<1> HIDE DEF state, B
<1> QED
  BY <1>1, <1>3, <1>4, <1>5, <1>6, ReaperRunning, OneMoves

LEMMA JobRecovered ==
  ASSUME LocksInv, NEW r \in Reapers, RecoverJob(r)
  PROVE  LocksInv'
<1>1. PICK j \in Current(r) :
        /\ QuotaFree(j, r)
        /\ Become(r, [tx[r] EXCEPT !.quotas = @ \cup {TenantOf[j]}, !.todo = @ \ {j}])
  BY DEF RecoverJob
<1> DEFINE state == [tx[r] EXCEPT !.quotas = @ \cup {TenantOf[j]}, !.todo = @ \ {j}]
<1>2. tx[r].step = "recovering" /\ Waits
  BY DEF RecoverJob
<1>3. j \in Jobs /\ TenantOf[j] \in Tenants
  BY ReaperRunning, QueueLocksAssumption DEF Current, First, Transaction
<1>4. /\ state \in Transaction /\ state.step = "recovering" /\ state.rows = tx[r].rows
      /\ state.todo = tx[r].todo \ {j} /\ state.quotas = tx[r].quotas \cup {TenantOf[j]}
  BY <1>2, <1>3, ReaperRunning DEF Transaction
<1>5. Locked(r, state) /\ ReadTrue(state)
  BY <1>2, <1>4, ReaperRunning DEF Locked, ReadTrue
<1>6. \A y \in Transactions \ {r} : /\ state.rows \cap tx[y].rows = {}
                                    /\ state.quotas \cap tx[y].quotas = {}
  BY <1>1, <1>4, ReaperRunning, KeepsLocks DEF QuotaFree, QuotaHolders
<1>7. Become(r, state)
  BY <1>1
<1> HIDE DEF state
<1> QED
  BY <1>2, <1>4, <1>5, <1>6, <1>7, ReaperRunning, OneMoves

-----------------------------------------------------------------------------
(* Commits                                                                  *)

\* A commit changes rows that the transaction holds, and lets them go.
LEMMA OneCommits ==
  ASSUME LocksInv, NEW x \in Transactions, NEW state \in Transaction, Become(x, state),
         state.step \in {"idle", "executing"}, Locked(x, state),
         \A j \in Jobs \ tx[x].rows : jobs'[j] = jobs[j],
         \A t \in Tenants \ tx[x].quotas : running_jobs'[t] = running_jobs[t],
         TypeOK', PendingHasAttempt'
  PROVE  LocksInv'
<1>1. tx'[x] = state /\ \A y \in Transactions \ {x} : tx'[y] = tx[y]
  BY DEF LocksInv, TypeOK, Become
<1>2. state.rows = {} /\ state.quotas = {}
  BY DEF Locked
<1>3. LocksExclusive'
  BY <1>1, <1>2 DEF LocksInv, LocksExclusive
<1>4. ASSUME NEW y \in Transactions PROVE (Locked(y, tx[y]) /\ ReadTrue(tx[y]))'
  <2>1. CASE y = x
    BY <1>1, <2>1 DEF ReadTrue, Locked
  <2>2. CASE y # x
    <3>1. tx'[y] = tx[y] /\ tx[y] \in Transaction /\ Locked(y, tx[y]) /\ ReadTrue(tx[y])
      BY <1>1, <2>2 DEF LocksInv, TypeOK
    <3>2. /\ tx[y].rows \subseteq Jobs /\ tx[y].quotas \subseteq Tenants
          /\ tx[y].rows \cap tx[x].rows = {} /\ tx[y].quotas \cap tx[x].quotas = {}
      BY <2>2, <3>1 DEF LocksInv, LocksExclusive, Transaction
    <3>3. \A j \in tx[y].rows : jobs'[j] = jobs[j]
      BY <3>2
    <3>4. \A t \in tx[y].quotas : HasRoom(t) => HasRoom(t)'
      BY <3>2 DEF HasRoom
    <3> QED
      BY <3>1, <3>3, <3>4 DEF ReadTrue, Locked
  <2> QED
    BY <2>1, <2>2
<1> QED
  BY <1>3, <1>4 DEF LocksInv

\* The attempts that end take their places among the leases with them.
LEMMA EndKeepsTypes ==
  ASSUME TypeOK, NEW S, S \subseteq Running, NEW status,
         \A j \in S : status[j] \in {"PENDING", "SUCCEEDED", "DEAD_LETTERED"},
         End(S, status), tx' \in [Transactions -> Transaction]
  PROVE  TypeOK'
<1>1. jobs' \in [Jobs -> Row]
  BY DEF TypeOK, End, Running, Row
<1>2. Running' = Running \ S
  <2>1. ASSUME NEW j \in Jobs
        PROVE  jobs'[j].status = "RUNNING" <=> jobs[j].status = "RUNNING" /\ j \notin S
    BY DEF End, Running, TypeOK, Row
  <2> QED
    BY <2>1 DEF Running
<1>3. \A j, k \in Running \ S : <<j, k>> \in lease_order' <=> <<j, k>> \in lease_order
  BY DEF End, Running
<1>4. lease_order' \subseteq (Running \ S) \X (Running \ S)
  BY DEF End, TypeOK, Running
<1>5. running_jobs' \in [Tenants -> Nat]
  <2>1. \A t \in Tenants : Cardinality({j \in S : TenantOf[j] = t}) \in Nat
    BY QueueLocksAssumption, FS_Subset, FS_CardinalityType DEF Running
  <2> QED
    BY <2>1 DEF TypeOK, End
<1>6. expired' = expired \ S
  BY DEF End
<1> QED
  BY <1>1, <1>2, <1>3, <1>4, <1>5, <1>6 DEF TypeOK

\* A new lease comes after the leases before it and before the others.
LEMMA ClaimKeepsLeases ==
  ASSUME TypeOK, NEW j \in Jobs, j \notin Running, NEW earlier \in SUBSET Running,
         expired \subseteq earlier, earlier \X (Running \ earlier) \subseteq lease_order,
         Running' = Running \cup {j},
         lease_order' = lease_order \cup (earlier \X {j}) \cup ({j} \X (Running \ earlier))
  PROVE  /\ lease_order' \subseteq Running' \X Running'
         /\ \A i, k \in Running' : i # k =>
              (<<i, k>> \in lease_order' <=> <<k, i>> \notin lease_order')
         /\ \A i, k, l \in Running' :
              <<i, k>> \in lease_order' /\ <<k, l>> \in lease_order' => <<i, l>> \in lease_order'
         /\ expired \X (Running' \ expired) \subseteq lease_order'
<1>0. lease_order \subseteq Running \X Running
  BY DEF TypeOK
<1>1. \A i, k : <<i, k>> \in lease_order' <=>
        \/ <<i, k>> \in lease_order
        \/ i \in earlier /\ k = j
        \/ i = j /\ k \in Running \ earlier
  OBVIOUS
<1>2. \A i, k \in Running : <<i, k>> \in lease_order' <=> <<i, k>> \in lease_order
  BY <1>1
<1>3. \A i \in Running : /\ <<i, j>> \in lease_order' <=> i \in earlier
                         /\ <<j, i>> \in lease_order' <=> i \notin earlier
  BY <1>0, <1>1
<1>4. <<j, j>> \notin lease_order'
  BY <1>0, <1>1
<1>5. lease_order' \subseteq Running' \X Running'
  BY <1>0
<1>6. \A i, k \in Running' : i # k =>
        (<<i, k>> \in lease_order' <=> <<k, i>> \notin lease_order')
  BY <1>2, <1>3 DEF TypeOK
<1>7. \A i, k \in Running : i \in earlier /\ k \notin earlier =>
        <<i, k>> \in lease_order /\ <<k, i>> \notin lease_order
  BY DEF TypeOK
<1>8. ASSUME NEW i \in Running', NEW k \in Running', NEW l \in Running',
             <<i, k>> \in lease_order', <<k, l>> \in lease_order'
      PROVE  <<i, l>> \in lease_order'
  <2>1. CASE i = j
    BY <1>2, <1>3, <1>4, <1>7, <1>8, <2>1
  <2>2. CASE i # j /\ k = j
    BY <1>2, <1>3, <1>4, <1>7, <1>8, <2>2
  <2>3. CASE i # j /\ k # j /\ l = j
    BY <1>2, <1>3, <1>4, <1>7, <1>8, <2>3
  <2>4. CASE i # j /\ k # j /\ l # j
    BY <1>2, <1>8, <2>4 DEF TypeOK
  <2> QED
    BY <2>1, <2>2, <2>3, <2>4
<1>9. expired \X (Running' \ expired) \subseteq lease_order'
  BY <1>1 DEF TypeOK
<1> QED
  BY <1>5, <1>6, <1>8, <1>9

LEMMA ClaimCommitted ==
  ASSUME LocksInv, NEW w \in Workers, CommitClaim(w)
  PROVE  LocksInv'
<1>0. tx[w].step = "reserved"
  BY DEF CommitClaim
<1>1. PICK j \in tx[w].todo, earlier \in SUBSET Running :
        /\ expired \subseteq earlier
        /\ earlier \X (Running \ earlier) \subseteq lease_order
        /\ jobs' = [jobs EXCEPT ![j] = [status |-> "RUNNING", attempts |-> @.attempts + 1]]
        /\ lease_order' = lease_order \cup (earlier \X {j}) \cup ({j} \X (Running \ earlier))
        /\ running_jobs' = [running_jobs EXCEPT ![TenantOf[j]] = @ + 1]
        /\ Become(w, [Idle EXCEPT !.step = "executing", !.todo = {j},
                                  !.attempt = jobs[j].attempts + 1])
  BY DEF CommitClaim
<1> DEFINE state == [Idle EXCEPT !.step = "executing", !.todo = {j},
                                 !.attempt = jobs[j].attempts + 1]
<1>2. /\ j \in Jobs /\ j \in tx[w].rows
      /\ TenantOf[j] \in tx[w].quotas /\ TenantOf[j] \in Tenants
      /\ jobs[j].status = "PENDING"
  BY <1>0, WorkerRunning, QueueLocksAssumption DEF Transaction, Locked, ReadTrue
<1>3. jobs[j].attempts + 1 \in 0..MaxAttempts
  <2>1. jobs[j].attempts \in Nat /\ jobs[j].attempts < MaxAttempts
    BY <1>2, QueueLocksAssumption DEF LocksInv, PendingHasAttempt, TypeOK, Row
  <2> QED
    BY <2>1, QueueLocksAssumption
<1>4. /\ state \in Transaction /\ state.step = "executing" /\ state.todo = {j}
      /\ state.rows = {} /\ state.quotas = {}
  BY <1>2, <1>3 DEF Idle, Transaction, Steps
<1>5. Become(w, state)
  BY <1>1
<1> HIDE DEF state
<1>6. TypeOK'
  <2>1. jobs' \in [Jobs -> Row]
    BY <1>1, <1>2, <1>3 DEF LocksInv, TypeOK, Row
  <2>2. running_jobs' \in [Tenants -> Nat]
    BY <1>1, <1>2 DEF LocksInv, TypeOK
  <2>3. tx' \in [Transactions -> Transaction]
    BY <1>4, <1>5 DEF LocksInv, TypeOK, Become
  <2>4. Running' = Running \cup {j} /\ j \notin Running
    <3>1. jobs'[j].status = "RUNNING" /\ \A k \in Jobs \ {j} : jobs'[k] = jobs[k]
      BY <1>1, <1>2 DEF LocksInv, TypeOK
    <3> QED
      BY <1>2, <3>1 DEF Running
  <2>5. expired' = expired
    BY DEF CommitClaim
  <2>6. TypeOK
    BY DEF LocksInv
  <2>7. /\ lease_order' \subseteq Running' \X Running'
        /\ \A i, k \in Running' : i # k =>
             (<<i, k>> \in lease_order' <=> <<k, i>> \notin lease_order')
        /\ \A i, k, l \in Running' :
             <<i, k>> \in lease_order' /\ <<k, l>> \in lease_order' => <<i, l>> \in lease_order'
        /\ expired \X (Running' \ expired) \subseteq lease_order'
    <3>1. expired \subseteq earlier
      BY <1>1
    <3>2. earlier \X (Running \ earlier) \subseteq lease_order
      BY <1>1
    <3>3. lease_order' = lease_order \cup (earlier \X {j}) \cup ({j} \X (Running \ earlier))
      BY <1>1
    <3>4. j \in Jobs /\ j \notin Running /\ Running' = Running \cup {j}
      BY <1>2, <2>4
    <3> QED
      BY <2>6, <3>1, <3>2, <3>3, <3>4, ClaimKeepsLeases
  <2>8. expired \subseteq Running'
    BY <2>4, <2>6 DEF TypeOK
  <2> QED
    BY <2>1, <2>2, <2>3, <2>5, <2>7, <2>8 DEF TypeOK
<1>7. PendingHasAttempt'
  BY <1>1, <1>2 DEF LocksInv, TypeOK, PendingHasAttempt
<1>8. /\ \A k \in Jobs \ tx[w].rows : jobs'[k] = jobs[k]
      /\ \A t \in Tenants \ tx[w].quotas : running_jobs'[t] = running_jobs[t]
  BY <1>1, <1>2 DEF LocksInv, TypeOK
<1>9. Locked(w, state)
  BY <1>2, <1>4, WorkerRunning DEF Locked
<1> QED
  BY <1>4, <1>5, <1>6, <1>7, <1>8, <1>9, WorkerRunning, OneCommits

\* An acknowledgement or a batch ends attempts of rows it holds, whose quotas it holds.
LEMMA EndCommitted ==
  ASSUME LocksInv, NEW x \in Transactions, NEW S, S \subseteq Running, S \subseteq tx[x].rows,
         \A j \in S : TenantOf[j] \in tx[x].quotas,
         NEW status, \A j \in S : status[j] \in {"PENDING", "SUCCEEDED", "DEAD_LETTERED"},
         \A j \in S : status[j] = "PENDING" => jobs[j].attempts < MaxAttempts,
         End(S, status), Become(x, Idle)
  PROVE  LocksInv'
<1>1. Idle \in Transaction /\ Idle.step = "idle" /\ Locked(x, Idle)
  BY IdleFits DEF Idle
<1>2. tx' \in [Transactions -> Transaction]
  BY <1>1 DEF LocksInv, TypeOK, Become
<1>3. TypeOK'
  BY <1>2, EndKeepsTypes DEF LocksInv
<1>4. \A j \in Jobs \ tx[x].rows : jobs'[j] = jobs[j]
  BY DEF End
<1>5. \A t \in Tenants \ tx[x].quotas : running_jobs'[t] = running_jobs[t]
  <2> SUFFICES ASSUME NEW t \in Tenants, t \notin tx[x].quotas
               PROVE  running_jobs'[t] = running_jobs[t]
    OBVIOUS
  <2>1. {j \in S : TenantOf[j] = t} = {}
    OBVIOUS
  <2>2. Cardinality({j \in S : TenantOf[j] = t}) = 0
    BY <2>1, FS_EmptySet
  <2>3. running_jobs[t] \in Nat
    BY DEF LocksInv, TypeOK
  <2> QED
    BY <2>2, <2>3 DEF End
<1>6. PendingHasAttempt'
  <2>1. ASSUME NEW j \in Jobs, jobs'[j].status = "PENDING"
        PROVE  jobs'[j].attempts < MaxAttempts
    <3>1. CASE j \in S
      <4>1. jobs'[j] = [jobs[j] EXCEPT !.status = status[j]] /\ jobs[j] \in Row
        BY <3>1 DEF End, LocksInv, TypeOK
      <4>2. jobs'[j].status = status[j] /\ jobs'[j].attempts = jobs[j].attempts
        BY <4>1 DEF Row
      <4> QED
        BY <2>1, <3>1, <4>2
    <3>2. CASE j \notin S
      BY <2>1, <3>2 DEF End, LocksInv, PendingHasAttempt
    <3> QED
      BY <3>1, <3>2
  <2> QED
    BY <2>1 DEF PendingHasAttempt
<1> QED
  BY <1>1, <1>3, <1>4, <1>5, <1>6, OneCommits

\* What the End of an acknowledgement and of a batch is about.
LEMMA AckEnds ==
  ASSUME LocksInv, NEW w \in Workers, CommitAck(w)
  PROVE  \E j \in Jobs, status \in [Jobs -> {"PENDING", "SUCCEEDED", "DEAD_LETTERED"}] :
           /\ tx[w].rows = {j} /\ TenantOf[j] \in tx[w].quotas /\ jobs[j].status = "RUNNING"
           /\ status[j] = "PENDING" => jobs[j].attempts < MaxAttempts
           /\ End({j}, status) /\ Become(w, Idle)
<1>1. PICK status \in {"SUCCEEDED", "DEAD_LETTERED"}
                 \cup (IF tx[w].attempt < MaxAttempts THEN {"PENDING"} ELSE {}) :
        End(tx[w].todo, [j \in Jobs |-> status])
  BY DEF CommitAck
<1>2. tx[w].step = "released" /\ Become(w, Idle)
  BY DEF CommitAck
<1>3. PICK j \in Jobs : tx[w].todo = {j}
  BY <1>2, WorkerRunning DEF Locked
<1>4. /\ tx[w].rows = {j} /\ TenantOf[j] \in tx[w].quotas
      /\ jobs[j].status = "RUNNING" /\ jobs[j].attempts = tx[w].attempt
  BY <1>2, <1>3, WorkerRunning DEF Locked, ReadTrue
<1> DEFINE ended == [k \in Jobs |-> status]
<1>5. ended \in [Jobs -> {"PENDING", "SUCCEEDED", "DEAD_LETTERED"}] /\ ended[j] = status
  BY <1>1
<1>6. End({j}, ended)
  BY <1>1, <1>3
<1>7. status = "PENDING" => jobs[j].attempts < MaxAttempts
  BY <1>1, <1>4
<1> HIDE DEF ended
<1> QED
  BY <1>2, <1>4, <1>5, <1>6, <1>7

LEMMA BatchEnds ==
  ASSUME LocksInv, NEW r \in Reapers, CommitRecovery(r)
  PROVE  \E status \in [Jobs -> {"PENDING", "SUCCEEDED", "DEAD_LETTERED"}] :
           /\ tx[r].rows \subseteq Running
           /\ \A j \in tx[r].rows : TenantOf[j] \in tx[r].quotas
           /\ \A j \in tx[r].rows :
                status[j] = "PENDING" => jobs[j].attempts < MaxAttempts
           /\ End(tx[r].rows, status) /\ Become(r, Idle)
<1> DEFINE status == [j \in Jobs |-> AfterTimeout(jobs[j])]
<1>1. tx[r].step = "recovering" /\ tx[r].todo = {} /\ End(tx[r].rows, status) /\ Become(r, Idle)
  BY DEF CommitRecovery
<1>2. tx[r].rows \subseteq Running /\ \A j \in tx[r].rows : TenantOf[j] \in tx[r].quotas
  BY <1>1, ReaperRunning DEF Locked, ReadTrue, Running, Transaction
<1>3. status \in [Jobs -> {"PENDING", "SUCCEEDED", "DEAD_LETTERED"}]
  BY DEF AfterTimeout
<1>4. ASSUME NEW j \in tx[r].rows, status[j] = "PENDING"
      PROVE  jobs[j].attempts < MaxAttempts
  <2>1. j \in Jobs
    BY <1>2 DEF Running
  <2>2. jobs[j].attempts \in Nat /\ MaxAttempts \in Nat
    BY <2>1, QueueLocksAssumption DEF LocksInv, TypeOK, Row
  <2> QED
    BY <1>4, <2>1, <2>2 DEF AfterTimeout
<1> HIDE DEF status
<1> QED
  BY <1>1, <1>2, <1>3, <1>4

LEMMA AckCommitted ==
  ASSUME LocksInv, NEW w \in Workers, CommitAck(w)
  PROVE  LocksInv'
<1>1. PICK j \in Jobs, status \in [Jobs -> {"PENDING", "SUCCEEDED", "DEAD_LETTERED"}] :
        /\ tx[w].rows = {j} /\ TenantOf[j] \in tx[w].quotas /\ jobs[j].status = "RUNNING"
        /\ status[j] = "PENDING" => jobs[j].attempts < MaxAttempts
        /\ End({j}, status) /\ Become(w, Idle)
  BY AckEnds
<1>2. {j} \subseteq Running
  BY <1>1 DEF Running
<1> QED
  BY <1>1, <1>2, WorkerRunning, EndCommitted

LEMMA RecoveryCommitted ==
  ASSUME LocksInv, NEW r \in Reapers, CommitRecovery(r)
  PROVE  LocksInv'
<1>1. PICK status \in [Jobs -> {"PENDING", "SUCCEEDED", "DEAD_LETTERED"}] :
        /\ tx[r].rows \subseteq Running
        /\ \A j \in tx[r].rows : TenantOf[j] \in tx[r].quotas
        /\ \A j \in tx[r].rows : status[j] = "PENDING" => jobs[j].attempts < MaxAttempts
        /\ End(tx[r].rows, status) /\ Become(r, Idle)
  BY BatchEnds
<1>2. \A j \in tx[r].rows : status[j] \in {"PENDING", "SUCCEEDED", "DEAD_LETTERED"}
  BY <1>1 DEF Running
<1> QED
  BY <1>1, <1>2, ReaperRunning, EndCommitted

-----------------------------------------------------------------------------
(* The invariant                                                            *)

LEMMA LeaseExpires ==
  ASSUME LocksInv, Expire
  PROVE  LocksInv'
<1>1. PICK j \in First(Running \ expired, lease_order) : expired' = expired \cup {j}
  BY DEF Expire
<1>2. Running' = Running
  BY DEF Expire, Running
<1>3. j \in Running /\ {j} \X (Running \ expired') \subseteq lease_order
  BY <1>1 DEF First
<1>4. expired' \X (Running \ expired') \subseteq lease_order
  BY <1>1, <1>3 DEF LocksInv, TypeOK
<1>5. TypeOK'
  BY <1>1, <1>2, <1>3, <1>4 DEF LocksInv, TypeOK, Expire
<1> QED
  BY <1>5 DEF LocksInv, LocksExclusive, Locked, ReadTrue, HasRoom, PendingHasAttempt, Expire

LEMMA DeadlockDetected ==
  ASSUME LocksInv, DetectDeadlock
  PROVE  LocksInv'
<1>1. PICK S \in Circles : \E x \in S : Become(x, Down)
  BY DEF DetectDeadlock
<1> PICK x \in S : Become(x, Down)
  BY <1>1
<1>2. x \in Transactions /\ Waits
  BY <1>1 DEF Circles, Blocked, DetectDeadlock
<1> QED
  BY <1>2, GoesIdle

LEMMA LocksInitially == Init => LocksInv
<1> SUFFICES ASSUME Init PROVE LocksInv
  OBVIOUS
<1>1. ASSUME NEW j \in Jobs
      PROVE  /\ jobs[j] \in Row
             /\ jobs[j].status = IF j \in Orphans THEN "RUNNING" ELSE "PENDING"
             /\ jobs[j].status = "PENDING" => jobs[j].attempts < MaxAttempts
  <2>1. Tried[j] \in Nat /\ Tried[j] < MaxAttempts /\ MaxAttempts \in Nat
    BY QueueLocksAssumption
  <2>2. Tried[j] \in 0..MaxAttempts /\ Tried[j] + 1 \in 0..MaxAttempts
    BY <2>1
  <2>3. jobs[j] = IF j \in Orphans THEN [status |-> "RUNNING", attempts |-> Tried[j] + 1]
                  ELSE [status |-> "PENDING", attempts |-> Tried[j]]
    BY DEF Init
  <2>4. CASE j \in Orphans
    BY <2>2, <2>3, <2>4 DEF Row
  <2>5. CASE j \notin Orphans
    BY <2>1, <2>2, <2>3, <2>5 DEF Row
  <2> QED
    BY <2>4, <2>5
<1>2. jobs \in [Jobs -> Row]
  <2>1. jobs = [j \in Jobs |-> jobs[j]]
    BY Zenon DEF Init
  <2> QED
    BY <1>1, <2>1
<1>3. Running = Orphans
  BY <1>1, QueueLocksAssumption DEF Running
<1>4. lease_order = {p \in Orphans \X Orphans : p[1] < p[2]}
  BY QueueLocksAssumption DEF Init, ByAge
<1>5. /\ \A j, k \in Orphans : j # k =>
           (<<j, k>> \in lease_order <=> <<k, j>> \notin lease_order)
      /\ \A i, j, k \in Orphans :
           <<i, j>> \in lease_order /\ <<j, k>> \in lease_order => <<i, k>> \in lease_order
  <2>1. \A j, k \in Orphans : <<j, k>> \in lease_order <=> j < k
    BY <1>4
  <2>2. Orphans \subseteq Nat
    BY QueueLocksAssumption
  <2> QED
    BY <2>1, <2>2
<1>6. running_jobs \in [Tenants -> Nat]
  <2>1. \A t \in Tenants : Cardinality({j \in Orphans : TenantOf[j] = t}) \in Nat
    BY QueueLocksAssumption, FS_Subset, FS_CardinalityType
  <2> QED
    BY <2>1 DEF Init
<1>7. tx \in [Transactions -> Transaction] /\ \A x \in Transactions : tx[x] = Idle
  BY IdleFits DEF Init
<1>8. TypeOK
  BY <1>2, <1>3, <1>4, <1>5, <1>6, <1>7 DEF Init, TypeOK
<1>9. LocksExclusive
  BY <1>7 DEF LocksExclusive, Idle
<1> QED
  BY <1>1, <1>7, <1>8, <1>9, IdleFits DEF LocksInv, PendingHasAttempt

LEMMA LocksKept == LocksInv /\ [Next]_vars => LocksInv'
<1> SUFFICES ASSUME LocksInv, [Next]_vars PROVE LocksInv'
  OBVIOUS
<1>1. ASSUME NEW w \in Workers, WorkerStep(w) \/ BeginAck(w) PROVE LocksInv'
  BY <1>1, CandidatesSelected, SlotTried, ClaimCommitted, AckBegun, OwnedJobLocked,
     SlotReleased, AckCommitted DEF WorkerStep
<1>2. ASSUME NEW r \in Reapers, ReaperStep(r) PROVE LocksInv'
  BY <1>2, ExpiredSelected, JobRecovered, RecoveryCommitted DEF ReaperStep
<1>3. CASE UNCHANGED vars
  BY <1>3 DEF vars, LocksInv, TypeOK, Running, LocksExclusive, Locked, ReadTrue, HasRoom,
              PendingHasAttempt
<1> QED
  BY <1>1, <1>2, <1>3, DeadlockDetected, LeaseExpires DEF Next

LEMMA LocksInvariance == Spec => []LocksInv
BY LocksInitially, LocksKept, PTL DEF Spec

\* The tables, leases and transactions always hold values of their types, and the leases
\* of the running jobs end one after the other, whatever the statements' order.
THEOREM LocksTypes == Spec => []TypeOK
<1>1. LocksInv => TypeOK
  BY DEF LocksInv
<1> QED
  BY <1>1, LocksInvariance, PTL

-----------------------------------------------------------------------------
(* The slots                                                                *)

LEMMA RunningFinite ==
  \A t : /\ IsFiniteSet(RunningOf(t))
         /\ Cardinality(RunningOf(t)) \in Nat
<1> SUFFICES ASSUME NEW t PROVE IsFiniteSet(RunningOf(t)) /\ Cardinality(RunningOf(t)) \in Nat
  OBVIOUS
<1>1. IsFiniteSet(RunningOf(t))
  BY QueueLocksAssumption, FS_Subset DEF RunningOf, Running
<1> QED
  BY <1>1, FS_CardinalityType

\* The counters follow the attempts that end.
LEMMA EndKeepsQuotas ==
  ASSUME TypeOK, QuotaExact, NEW S, S \subseteq Running, NEW status,
         \A j \in S : status[j] \in {"PENDING", "SUCCEEDED", "DEAD_LETTERED"},
         End(S, status)
  PROVE  QuotaExact'
<1> SUFFICES ASSUME NEW t \in Tenants
             PROVE  /\ running_jobs'[t] = Cardinality(RunningOf(t)')
                    /\ running_jobs'[t] <= MaxRunningJobs[t]
  BY DEF QuotaExact
<1> DEFINE ended == {j \in S : TenantOf[j] = t}
<1>1. RunningOf(t)' = RunningOf(t) \ ended
  <2>1. \A j \in Jobs : jobs'[j].status = "RUNNING" <=> jobs[j].status = "RUNNING" /\ j \notin S
    BY DEF End, Running, TypeOK, Row
  <2> QED
    BY <2>1 DEF RunningOf, Running
<1>2. ended \subseteq RunningOf(t)
  BY DEF RunningOf
<1>3. /\ Cardinality(ended) \in Nat /\ Cardinality(ended) <= Cardinality(RunningOf(t))
      /\ Cardinality(RunningOf(t) \ ended) = Cardinality(RunningOf(t)) - Cardinality(ended)
  <2>1. IsFiniteSet(ended) /\ Cardinality(ended) <= Cardinality(RunningOf(t))
    BY <1>2, RunningFinite, FS_Subset
  <2>2. RunningOf(t) \cap ended = ended
    BY <1>2
  <2> QED
    BY <2>1, <2>2, RunningFinite, FS_Difference, FS_CardinalityType
<1>4. running_jobs'[t] = IF running_jobs[t] > Cardinality(ended)
                         THEN running_jobs[t] - Cardinality(ended) ELSE 0
  BY DEF End
<1> HIDE DEF ended
<1>5. /\ running_jobs[t] = Cardinality(RunningOf(t)) /\ running_jobs[t] \in Nat
      /\ running_jobs[t] <= MaxRunningJobs[t] /\ MaxRunningJobs[t] \in Nat
  BY QueueLocksAssumption DEF QuotaExact, TypeOK
<1> QED
  BY <1>1, <1>3, <1>4, <1>5

LEMMA ClaimKeepsQuotas ==
  ASSUME LocksInv, QuotaExact, NEW w \in Workers, CommitClaim(w)
  PROVE  QuotaExact'
<1>0. tx[w].step = "reserved"
  BY DEF CommitClaim
<1>1. PICK j \in tx[w].todo :
        /\ jobs' = [jobs EXCEPT ![j] = [status |-> "RUNNING", attempts |-> @.attempts + 1]]
        /\ running_jobs' = [running_jobs EXCEPT ![TenantOf[j]] = @ + 1]
  BY DEF CommitClaim
<1>2. j \in Jobs /\ jobs[j].status = "PENDING" /\ HasRoom(TenantOf[j])
  BY <1>0, WorkerRunning DEF Locked, ReadTrue, Transaction
<1>3. TypeOK
  BY DEF LocksInv
<1>4. \A k \in Jobs : jobs'[k].status = "RUNNING" <=> k = j \/ jobs[k].status = "RUNNING"
  BY <1>1, <1>2, <1>3 DEF TypeOK
<1> SUFFICES ASSUME NEW t \in Tenants
             PROVE  /\ running_jobs'[t] = Cardinality(RunningOf(t)')
                    /\ running_jobs'[t] <= MaxRunningJobs[t]
  BY DEF QuotaExact
<1>5. /\ running_jobs[t] = Cardinality(RunningOf(t)) /\ running_jobs[t] \in Nat
      /\ running_jobs[t] <= MaxRunningJobs[t] /\ MaxRunningJobs[t] \in Nat
  BY <1>3, QueueLocksAssumption DEF QuotaExact, TypeOK
<1>6. CASE t = TenantOf[j]
  <2>1. RunningOf(t)' = RunningOf(t) \cup {j} /\ j \notin RunningOf(t)
    BY <1>2, <1>4, <1>6 DEF RunningOf, Running
  <2>2. Cardinality(RunningOf(t) \cup {j}) = Cardinality(RunningOf(t)) + 1
    BY <2>1, RunningFinite, FS_AddElement
  <2>3. running_jobs'[t] = running_jobs[t] + 1
    BY <1>1, <1>3, <1>6 DEF TypeOK
  <2>4. running_jobs[t] < MaxRunningJobs[t]
    BY <1>2, <1>6 DEF HasRoom
  <2> QED
    BY <1>5, <2>1, <2>2, <2>3, <2>4
<1>7. CASE t # TenantOf[j]
  <2>1. RunningOf(t)' = RunningOf(t)
    BY <1>2, <1>4, <1>7 DEF RunningOf, Running
  <2>2. running_jobs'[t] = running_jobs[t]
    BY <1>1, <1>3, <1>7 DEF TypeOK
  <2> QED
    BY <1>5, <2>1, <2>2
<1> QED
  BY <1>6, <1>7

LEMMA QuotaKept == LocksInv /\ QuotaExact /\ [Next]_vars => QuotaExact'
<1> SUFFICES ASSUME LocksInv, QuotaExact, [Next]_vars PROVE QuotaExact'
  OBVIOUS
<1>1. CASE UNCHANGED jobs /\ UNCHANGED running_jobs
  BY <1>1 DEF QuotaExact, RunningOf, Running
<1>2. ASSUME NEW w \in Workers, CommitAck(w) PROVE QuotaExact'
  <2>1. PICK j \in Jobs, status \in [Jobs -> {"PENDING", "SUCCEEDED", "DEAD_LETTERED"}] :
          jobs[j].status = "RUNNING" /\ End({j}, status)
    BY <1>2, AckEnds
  <2>2. {j} \subseteq Running
    BY <2>1 DEF Running
  <2> QED
    BY <2>1, <2>2, EndKeepsQuotas DEF LocksInv
<1>3. ASSUME NEW r \in Reapers, CommitRecovery(r) PROVE QuotaExact'
  <2>1. PICK status \in [Jobs -> {"PENDING", "SUCCEEDED", "DEAD_LETTERED"}] :
          tx[r].rows \subseteq Running /\ End(tx[r].rows, status)
    BY <1>3, BatchEnds
  <2>2. \A j \in tx[r].rows : status[j] \in {"PENDING", "SUCCEEDED", "DEAD_LETTERED"}
    BY <2>1 DEF Running
  <2> QED
    BY <2>1, <2>2, EndKeepsQuotas DEF LocksInv
<1>4. ASSUME NEW w \in Workers, WorkerStep(w) \/ BeginAck(w) PROVE QuotaExact'
  BY <1>1, <1>2, <1>4, ClaimKeepsQuotas
     DEF WorkerStep, SelectCandidates, ReserveSlot, GetQuota, BeginAck, LockOwnedJob,
         ReleaseSlot, Waits
<1>5. ASSUME NEW r \in Reapers, ReaperStep(r) PROVE QuotaExact'
  BY <1>1, <1>3, <1>5 DEF ReaperStep, SelectExpired, RecoverJob, Waits
<1> QED
  BY <1>1, <1>4, <1>5 DEF Next, DetectDeadlock, Expire, Waits, vars

\* However statements of claims, acknowledgements and recoveries interleave, the counter
\* of a tenant is the number of its running jobs, within its limit.
THEOREM SlotsExact == Spec => []QuotaExact
<1>1. Init => QuotaExact
  <2> SUFFICES ASSUME Init, NEW t \in Tenants
               PROVE  /\ running_jobs[t] = Cardinality(RunningOf(t))
                      /\ running_jobs[t] <= MaxRunningJobs[t]
    BY DEF QuotaExact
  <2>1. \A j \in Jobs : jobs[j].status = "RUNNING" <=> j \in Orphans
    BY DEF Init
  <2>2. RunningOf(t) = {j \in Orphans : TenantOf[j] = t}
    BY <2>1, QueueLocksAssumption DEF RunningOf, Running
  <2> QED
    BY <2>2, QueueLocksAssumption DEF Init
<1> QED
  BY <1>1, QuotaKept, LocksInvariance, PTL DEF Spec

-----------------------------------------------------------------------------
(* The lifecycle of a job                                                   *)

\* What ends attempts in the queue ends them in the lifecycle.
LEMMA EndFollowsLifecycle ==
  ASSUME TypeOK, NEW S, S \subseteq Running, S # {}, NEW status,
         \A j \in S : status[j] \in {"PENDING", "SUCCEEDED", "DEAD_LETTERED"},
         \A j \in S : status[j] = "PENDING" => jobs[j].attempts < MaxAttempts,
         End(S, status)
  PROVE  Lifecycle!Next
<1>1. \A j \in Jobs : /\ jobs'[j].attempts = jobs[j].attempts
                      /\ jobs'[j].status = IF j \in S THEN status[j] ELSE jobs[j].status
  <2> SUFFICES ASSUME NEW j \in Jobs
               PROVE  /\ jobs'[j].attempts = jobs[j].attempts
                      /\ jobs'[j].status = IF j \in S THEN status[j] ELSE jobs[j].status
    OBVIOUS
  <2>1. jobs[j] \in Row
    BY DEF TypeOK
  <2>2. jobs'[j] = IF j \in S THEN [jobs[j] EXCEPT !.status = status[j]] ELSE jobs[j]
    BY DEF End
  <2> QED
    BY <2>1, <2>2 DEF Row
<1>2. S \in SUBSET Jobs /\ \A j \in S : jobs[j].status = "RUNNING"
  BY DEF Running
<1>3. \A j \in S : status[j] \in Lifecycle!Outcome(j)
  BY <1>2 DEF Lifecycle!Outcome
<1>4. Lifecycle!End(S)
  BY <1>1, <1>2, <1>3 DEF Lifecycle!End
<1> QED
  BY <1>2, <1>4 DEF Lifecycle!Next

\* Cardinality means the same in both modules.
LEMMA SameCardinality ==
  ASSUME NEW S
  PROVE  Lifecycle!Cardinality(S) = Cardinality(S)
BY DEF Lifecycle!Cardinality, Cardinality

LEMMA ClaimFollowsLifecycle ==
  ASSUME LocksInv, QuotaExact, NEW w \in Workers, CommitClaim(w)
  PROVE  Lifecycle!Next
<1>0. tx[w].step = "reserved"
  BY DEF CommitClaim
<1>1. PICK j \in tx[w].todo :
        jobs' = [jobs EXCEPT ![j] = [status |-> "RUNNING", attempts |-> @.attempts + 1]]
  BY DEF CommitClaim
<1>2. j \in Jobs /\ jobs[j].status = "PENDING" /\ HasRoom(TenantOf[j])
  BY <1>0, WorkerRunning DEF Locked, ReadTrue, Transaction
<1>3. jobs[j].attempts < MaxAttempts
  BY <1>2 DEF LocksInv, PendingHasAttempt
<1>4. Cardinality(RunningOf(TenantOf[j])) < MaxRunningJobs[TenantOf[j]]
  <2>1. TenantOf[j] \in Tenants
    BY <1>2, QueueLocksAssumption
  <2> QED
    BY <1>2, <2>1 DEF QuotaExact, HasRoom
<1>5. Lifecycle!Cardinality(Lifecycle!RunningOf(TenantOf[j])) < MaxRunningJobs[TenantOf[j]]
  <2>1. Lifecycle!RunningOf(TenantOf[j]) = RunningOf(TenantOf[j])
    BY DEF Lifecycle!RunningOf, RunningOf, Running
  <2> QED
    BY <1>4, <2>1, SameCardinality
<1>6. \A k \in Jobs : /\ jobs'[k].status = IF k = j THEN "RUNNING" ELSE jobs[k].status
                      /\ jobs'[k].attempts = IF k = j THEN jobs[k].attempts + 1
                                             ELSE jobs[k].attempts
  BY <1>1, <1>2 DEF LocksInv, TypeOK
<1>7. Lifecycle!Start(j)
  BY <1>2, <1>3, <1>5, <1>6 DEF Lifecycle!Start
<1> QED
  BY <1>2, <1>7 DEF Lifecycle!Next

\* Every commit is a step of a job's lifecycle, with the tenant's limit and the attempts
\* kept: taking the transactions for single steps, as JobQueue does, loses nothing.
THEOREM CommitsAreLifecycleSteps == Spec => CommitsFollowLifecycle
<1>1. LocksInv /\ QuotaExact /\ [Next]_vars => [Lifecycle!Next]_<<jobs>>
  <2> SUFFICES ASSUME LocksInv, QuotaExact, [Next]_vars, jobs' # jobs
               PROVE  Lifecycle!Next
    OBVIOUS
  <2>1. ASSUME NEW w \in Workers, CommitAck(w) PROVE Lifecycle!Next
    <3>1. PICK j \in Jobs, status \in [Jobs -> {"PENDING", "SUCCEEDED", "DEAD_LETTERED"}] :
            /\ jobs[j].status = "RUNNING" /\ End({j}, status)
            /\ status[j] = "PENDING" => jobs[j].attempts < MaxAttempts
      BY <2>1, AckEnds
    <3>2. {j} \subseteq Running
      BY <3>1 DEF Running
    <3> QED
      BY <3>1, <3>2, EndFollowsLifecycle DEF LocksInv
  <2>2. ASSUME NEW r \in Reapers, CommitRecovery(r) PROVE Lifecycle!Next
    <3>1. PICK status \in [Jobs -> {"PENDING", "SUCCEEDED", "DEAD_LETTERED"}] :
            /\ tx[r].rows \subseteq Running /\ End(tx[r].rows, status)
            /\ \A j \in tx[r].rows : status[j] = "PENDING" => jobs[j].attempts < MaxAttempts
      BY <2>2, BatchEnds
    <3>2. \A j \in tx[r].rows : status[j] \in {"PENDING", "SUCCEEDED", "DEAD_LETTERED"}
      BY <3>1 DEF Running
    <3>3. tx[r].rows # {}
      <4> SUFFICES ASSUME tx[r].rows = {} PROVE jobs' = jobs
        OBVIOUS
      <4>1. jobs' = [j \in Jobs |-> jobs[j]]
        BY <3>1 DEF End
      <4> QED
        BY <4>1 DEF LocksInv, TypeOK
    <3> QED
      BY <3>1, <3>2, <3>3, EndFollowsLifecycle DEF LocksInv
  <2>3. ASSUME NEW w \in Workers, WorkerStep(w) \/ BeginAck(w) PROVE Lifecycle!Next
    BY <2>1, <2>3, ClaimFollowsLifecycle
       DEF WorkerStep, SelectCandidates, ReserveSlot, GetQuota, BeginAck, LockOwnedJob,
           ReleaseSlot, Waits
  <2>4. ASSUME NEW r \in Reapers, ReaperStep(r) PROVE Lifecycle!Next
    BY <2>2, <2>4 DEF ReaperStep, SelectExpired, RecoverJob, Waits
  <2> QED
    BY <2>3, <2>4 DEF Next, DetectDeadlock, Expire, Waits, vars
<1> QED
  BY <1>1, LocksInvariance, SlotsExact, PTL DEF Spec, CommitsFollowLifecycle

-----------------------------------------------------------------------------
(* Deadlocks                                                                *)

\* A job has one place in the order of the leases and in that of the ages.
LEMMA OneCurrent ==
  ASSUME LocksInv, NEW x \in Transactions, NEW j \in Current(x), NEW k \in Current(x)
  PROVE  j = k
<1> SUFFICES ASSUME j # k PROVE FALSE
  OBVIOUS
<1>1. tx[x].todo \subseteq Jobs /\ j \in tx[x].todo /\ k \in tx[x].todo
  BY DEF LocksInv, TypeOK, Transaction, Current, First
<1>2. CASE x \in Reapers
  <2>1. <<j, k>> \in lease_order /\ <<k, j>> \in lease_order
    BY <1>2, <1>1 DEF Current, First
  <2> QED
    BY <2>1 DEF LocksInv, TypeOK
<1>3. CASE x \notin Reapers
  <2>1. <<j, k>> \in ByAge /\ <<k, j>> \in ByAge
    BY <1>3, <1>1 DEF Current, First
  <2>2. j < k /\ k < j /\ j \in Nat /\ k \in Nat
    BY <1>1, <2>1, QueueLocksAssumption DEF ByAge
  <2> QED
    BY <2>2
<1> QED
  BY <1>2, <1>3

\* A process waits for one row, and so for at most one transaction.
THEOREM OneBlocker ==
  Spec => [](\A x \in Transactions : \A y, z \in Blockers(x) : y = z)
<1>1. LocksInv => \A x \in Transactions : \A y, z \in Blockers(x) : y = z
  <2> SUFFICES ASSUME LocksInv, NEW x \in Transactions,
                      NEW y \in Blockers(x), NEW z \in Blockers(x)
               PROVE  y = z
    OBVIOUS
  <2>1. PICK j \in Current(x) :
          \/ tx[x].step = "acking" /\ y \in RowHolders(j, x)
          \/ tx[x].step # "acking" /\ y \in QuotaHolders(j, x)
    BY DEF Blockers
  <2>2. PICK k \in Current(x) :
          \/ tx[x].step = "acking" /\ z \in RowHolders(k, x)
          \/ tx[x].step # "acking" /\ z \in QuotaHolders(k, x)
    BY DEF Blockers
  <2>3. j = k
    BY OneCurrent
  <2> QED
    BY <2>1, <2>2, <2>3 DEF RowHolders, QuotaHolders, LocksInv, LocksExclusive
<1> QED
  BY <1>1, LocksInvariance, PTL

\* Who is in a circle holds a quota row and waits for another one.
LEMMA CircleAcross ==
  ASSUME LocksInv, NEW S \in Circles, NEW x \in S
  PROVE  /\ x \in Transactions
         /\ tx[x].step \in {"waiting", "recovering"}
         /\ \E t \in tx[x].quotas, j \in Current(x) : TenantOf[j] # t
<1>1. ASSUME NEW u \in S
      PROVE  /\ u \in Transactions /\ Locked(u, tx[u])
             /\ tx[u].step \in {"acking", "waiting", "owning", "recovering"}
             /\ tx[u].rows # {} \/ tx[u].quotas # {}
  <2>1. u \in Transactions /\ Blockers(u) # {}
    BY DEF Circles, Blocked
  <2>2. PICK v \in S : u \in Blockers(v)
    BY DEF Circles
  <2> QED
    BY <2>1, <2>2 DEF LocksInv, Blockers, RowHolders, QuotaHolders
<1>2. \A u \in S : tx[u].step \in {"waiting", "owning", "recovering"}
  BY <1>1 DEF Locked
<1>3. PICK y \in S : x \in Blockers(y)
  BY DEF Circles
<1>4. PICK t \in tx[x].quotas : TRUE
  BY <1>2, <1>3 DEF Blockers, QuotaHolders
<1>5. tx[x].step \in {"waiting", "recovering"}
  BY <1>1, <1>2, <1>4 DEF Locked
<1>6. PICK z \in Transactions \ {x}, j \in Current(x) : TenantOf[j] \in tx[z].quotas
  BY <1>5 DEF Circles, Blocked, Blockers, QuotaHolders
<1>7. TenantOf[j] # t
  BY <1>1, <1>6 DEF LocksInv, LocksExclusive
<1> QED
  BY <1>1, <1>4, <1>5, <1>6, <1>7

\* Acknowledgements never deadlock, nor does a claim that holds no quota row: each
\* transaction in a circle holds a tenant's quota row and waits for another tenant's.
THEOREM CirclesAcrossTenants == Spec => []DeadlocksAcrossTenants
<1>1. LocksInv => DeadlocksAcrossTenants
  BY CircleAcross DEF DeadlocksAcrossTenants
<1> QED
  BY <1>1, LocksInvariance, PTL

-----------------------------------------------------------------------------
(* Batches of one                                                           *)

\* A claim of one candidate has no other one to go on with.
SingleCandidate ==
  \A w \in Workers : tx[w].step \in {"claiming", "waiting"} =>
    tx[w].quotas = {} /\ \A j, k \in tx[w].todo : j = k

\* A batch of one lease locks its quota row last.
SingleLease ==
  \A r \in Reapers : tx[r].step = "recovering" =>
    (tx[r].todo = {} \/ tx[r].quotas = {}) /\ \A j, k \in tx[r].todo : j = k

LEMMA BatchOfOne ==
  ASSUME NEW S, IsFiniteSet(S), NEW order, NEW j \in Batch(S, 1, order), NEW k \in S
  PROVE  <<k, j>> \notin order
<1> DEFINE before == {i \in S : <<i, j>> \in order}
<1>1. Cardinality(before) < 1 /\ IsFiniteSet(before)
  BY FS_Subset DEF Batch
<1>2. Cardinality(before) = 0
  BY <1>1, FS_CardinalityType
<1>3. before = {}
  BY <1>1, <1>2, FS_EmptySet
<1> QED
  BY <1>3

\* Only x moves.
LEMMA OthersStay ==
  ASSUME LocksInv, NEW x \in Transactions, NEW state, Become(x, state)
  PROVE  tx'[x] = state /\ \A y \in Transactions \ {x} : tx'[y] = tx[y]
BY DEF LocksInv, TypeOK, Become

LEMMA OneProcessMoves ==
  ASSUME LocksInv, [Next]_vars
  PROVE  \/ UNCHANGED tx
         \/ \E x \in Transactions :
              /\ \/ x \in Workers /\ (WorkerStep(x) \/ BeginAck(x))
                 \/ x \in Reapers /\ ReaperStep(x)
                 \/ Become(x, Down)
              /\ \A y \in Transactions \ {x} : tx'[y] = tx[y]
<1>1. ASSUME NEW w \in Workers, WorkerStep(w) \/ BeginAck(w)
      PROVE  \A y \in Transactions \ {w} : tx'[y] = tx[y]
  <2>1. \E state : Become(w, state)
    BY <1>1, Zenon DEF WorkerStep, SelectCandidates, ReserveSlot, GetQuota, NextCandidate,
       Reserved, CommitClaim, BeginAck, LockOwnedJob, ReleaseSlot, CommitAck
  <2> QED
    BY <2>1, WorkerRunning, OthersStay
<1>2. ASSUME NEW r \in Reapers, ReaperStep(r)
      PROVE  \A y \in Transactions \ {r} : tx'[y] = tx[y]
  <2>1. \E state : Become(r, state)
    BY <1>2, Zenon DEF ReaperStep, SelectExpired, RecoverJob, CommitRecovery
  <2> QED
    BY <2>1, ReaperRunning, OthersStay
<1>3. ASSUME DetectDeadlock
      PROVE  \E x \in Transactions : Become(x, Down) /\ \A y \in Transactions \ {x} : tx'[y] = tx[y]
  <2>1. PICK S \in Circles : \E x \in S : Become(x, Down)
    BY <1>3 DEF DetectDeadlock
  <2>2. PICK x \in S : Become(x, Down)
    BY <2>1
  <2>3. x \in Transactions
    BY DEF Circles, Blocked
  <2> QED
    BY <2>2, <2>3, OthersStay
<1> QED
  BY <1>1, <1>2, <1>3, WorkerRunning, ReaperRunning DEF Next, Expire, vars

LEMMA SingleCandidateSelected ==
  ASSUME LocksInv, CandidateLimit = 1, NEW w \in Workers, SelectCandidates(w)
  PROVE  tx'[w].quotas = {} /\ \A j, k \in tx'[w].todo : j = k
<1> DEFINE B == Batch(Claimable(w), 1, ByAge)
           state == [Idle EXCEPT !.step = "claiming", !.todo = B, !.rows = B]
<1>1. Become(w, state)
  BY DEF SelectCandidates
<1>2. tx'[w].quotas = {} /\ tx'[w].todo = B
  <2>1. state.quotas = {} /\ state.todo = B
    BY DEF Idle
  <2> HIDE DEF state
  <2> QED
    BY <1>1, <2>1, WorkerRunning, OthersStay
<1>3. ASSUME NEW j \in B, NEW k \in B, j # k PROVE FALSE
  <2>1. IsFiniteSet(Claimable(w)) /\ j \in Claimable(w) /\ k \in Claimable(w)
    BY QueueLocksAssumption, FS_Subset DEF Claimable, Batch
  <2>2. <<j, k>> \notin ByAge /\ <<k, j>> \notin ByAge
    BY <2>1, BatchOfOne
  <2>3. j \in Jobs /\ k \in Jobs /\ j \in Nat /\ k \in Nat
    BY <2>1, QueueLocksAssumption DEF Claimable
  <2> QED
    BY <1>3, <2>2, <2>3 DEF ByAge
<1> QED
  BY <1>2, <1>3

LEMMA SingleCandidateKept ==
  ASSUME CandidateLimit = 1, LocksInv, SingleCandidate, [Next]_vars
  PROVE  SingleCandidate'
<1> SUFFICES ASSUME NEW w \in Workers, tx'[w].step \in {"claiming", "waiting"}
             PROVE  tx'[w].quotas = {} /\ \A j, k \in tx'[w].todo : j = k
  BY DEF SingleCandidate
<1>0. /\ w \in Transactions /\ w \notin Reapers
      /\ ~(Idle.step \in {"claiming", "waiting"}) /\ ~(Down.step \in {"claiming", "waiting"})
  BY WorkerRunning DEF Idle, Down
<1>1. CASE tx'[w] = tx[w]
  BY <1>1 DEF SingleCandidate
<1>2. CASE Become(w, Down)
  BY <1>0, <1>2, OthersStay
<1>3. CASE WorkerStep(w) \/ BeginAck(w)
  <2>1. CASE SelectCandidates(w)
    BY <2>1, SingleCandidateSelected
  <2>2. CASE ReserveSlot(w) \/ GetQuota(w)
    <3>1. tx[w].step \in {"claiming", "waiting"}
      BY <2>2 DEF ReserveSlot, GetQuota
    <3>2. PICK j \in Current(w) :
            \/ Become(w, [tx[w] EXCEPT !.step = "waiting"])
            \/ Reserved(w, j)
            \/ \E quotas : NextCandidate(w, j, quotas)
      BY <2>2 DEF ReserveSlot, GetQuota
    <3>3. tx[w].todo = {j}
      BY <3>1 DEF SingleCandidate, Current, First
    <3>4. CASE Become(w, [tx[w] EXCEPT !.step = "waiting"])
      <4>1. tx'[w] = [tx[w] EXCEPT !.step = "waiting"]
        BY <1>0, <3>4, OthersStay
      <4>2. tx'[w].quotas = tx[w].quotas /\ tx'[w].todo = tx[w].todo
        BY <4>1, WorkerRunning DEF Transaction
      <4> QED
        BY <3>1, <4>2 DEF SingleCandidate
    <3>5. CASE Reserved(w, j)
      <4>1. tx'[w] = [tx[w] EXCEPT !.step = "reserved", !.todo = {j},
                                   !.quotas = @ \cup {TenantOf[j]}]
        BY <1>0, <3>5, OthersStay DEF Reserved
      <4>2. tx'[w].step = "reserved"
        BY <4>1, WorkerRunning DEF Transaction
      <4> QED
        BY <4>2
    <3>6. CASE \E quotas : NextCandidate(w, j, quotas)
      <4>1. Become(w, Idle)
        BY <3>3, <3>6 DEF NextCandidate
      <4> QED
        BY <1>0, <4>1, OthersStay
    <3> QED
      BY <3>2, <3>4, <3>5, <3>6
  <2>3. CASE CommitClaim(w)
    <3>1. PICK j, attempt : Become(w, [Idle EXCEPT !.step = "executing", !.todo = {j},
                                                   !.attempt = attempt])
      BY <2>3, Zenon DEF CommitClaim
    <3> DEFINE state == [Idle EXCEPT !.step = "executing", !.todo = {j}, !.attempt = attempt]
    <3>2. state.step = "executing"
      BY DEF Idle
    <3> HIDE DEF state
    <3> QED
      BY <1>0, <3>1, <3>2, OthersStay DEF state
  <2>4. CASE BeginAck(w)
    <3>1. PICK live : Become(w, [tx[w] EXCEPT !.step = "acking", !.live = live])
      BY <2>4, Zenon DEF BeginAck
    <3>2. tx'[w] = [tx[w] EXCEPT !.step = "acking", !.live = live]
      BY <1>0, <3>1, OthersStay
    <3> QED
      BY <3>2, WorkerRunning DEF Transaction
  <2>5. CASE LockOwnedJob(w)
    <3>1. PICK rows : Become(w, Idle) \/ Become(w, [tx[w] EXCEPT !.step = "owning", !.rows = rows])
      BY <2>5, Zenon DEF LockOwnedJob
    <3>2. tx'[w] = Idle \/ tx'[w] = [tx[w] EXCEPT !.step = "owning", !.rows = rows]
      BY <1>0, <3>1, OthersStay
    <3> QED
      BY <1>0, <3>2, WorkerRunning DEF Transaction
  <2>6. CASE ReleaseSlot(w)
    <3>1. PICK quotas : Become(w, [tx[w] EXCEPT !.step = "released", !.quotas = quotas])
      BY <2>6, Zenon DEF ReleaseSlot
    <3>2. tx'[w] = [tx[w] EXCEPT !.step = "released", !.quotas = quotas]
      BY <1>0, <3>1, OthersStay
    <3> QED
      BY <3>2, WorkerRunning DEF Transaction
  <2>7. CASE CommitAck(w)
    BY <1>0, <2>7, OthersStay DEF CommitAck
  <2> QED
    BY <1>3, <2>1, <2>2, <2>3, <2>4, <2>5, <2>6, <2>7 DEF WorkerStep
<1> QED
  BY <1>0, <1>1, <1>2, <1>3, OneProcessMoves

\* With one candidate for each claim, workers take part in no deadlock.
THEOREM ClaimsOfOneNeverDeadlock ==
  ASSUME CandidateLimit = 1
  PROVE  Spec => [](\A S \in Circles : S \subseteq Reapers)
<1>1. Init => SingleCandidate
  BY WorkerRunning, LocksInitially DEF Init, Idle, SingleCandidate
<1>2. LocksInv /\ SingleCandidate /\ [Next]_vars => SingleCandidate'
  BY SingleCandidateKept
<1>3. LocksInv /\ SingleCandidate => \A S \in Circles : S \subseteq Reapers
  BY CircleAcross DEF SingleCandidate, LocksInv, Locked, Transactions
<1> QED
  BY <1>1, <1>2, <1>3, LocksInvariance, PTL DEF Spec

LEMMA SingleLeaseKept ==
  ASSUME ReaperBatch = 1, LocksInv, SingleLease, [Next]_vars
  PROVE  SingleLease'
<1> SUFFICES ASSUME NEW r \in Reapers, tx'[r].step = "recovering"
             PROVE  /\ tx'[r].todo = {} \/ tx'[r].quotas = {}
                    /\ \A j, k \in tx'[r].todo : j = k
  BY DEF SingleLease
<1>0. r \in Transactions /\ r \notin Workers /\ Idle.step # "recovering" /\ Down.step # "recovering"
  BY ReaperRunning DEF Idle, Down
<1>1. CASE tx'[r] = tx[r]
  BY <1>1 DEF SingleLease
<1>2. CASE Become(r, Down)
  BY <1>0, <1>2, OthersStay
<1>3. CASE SelectExpired(r)
  <2> DEFINE B == Batch(Recoverable(r), 1, lease_order)
             state == [Idle EXCEPT !.step = "recovering", !.todo = B, !.rows = B]
  <2>1. Become(r, state)
    BY <1>3 DEF SelectExpired
  <2>2. tx'[r].quotas = {} /\ tx'[r].todo = B
    <3>1. state.quotas = {} /\ state.todo = B
      BY DEF Idle
    <3> HIDE DEF state
    <3> QED
      BY <1>0, <2>1, <3>1, OthersStay
  <2>3. ASSUME NEW j \in B, NEW k \in B, j # k PROVE FALSE
    <3>1. Recoverable(r) \subseteq Running /\ j \in Recoverable(r) /\ k \in Recoverable(r)
      BY DEF Recoverable, Batch, LocksInv, TypeOK
    <3>2. IsFiniteSet(Recoverable(r))
      BY <3>1, QueueLocksAssumption, FS_Subset DEF Running
    <3>3. <<j, k>> \notin lease_order /\ <<k, j>> \notin lease_order
      BY <3>1, <3>2, BatchOfOne
    <3> QED
      BY <2>3, <3>1, <3>3 DEF LocksInv, TypeOK
  <2> QED
    BY <2>2, <2>3
<1>4. CASE RecoverJob(r)
  <2>1. PICK j \in Current(r) :
          Become(r, [tx[r] EXCEPT !.quotas = @ \cup {TenantOf[j]}, !.todo = @ \ {j}])
    BY <1>4 DEF RecoverJob
  <2>2. tx'[r] = [tx[r] EXCEPT !.quotas = @ \cup {TenantOf[j]}, !.todo = @ \ {j}]
    BY <1>0, <2>1, OthersStay
  <2>3. tx'[r].todo = tx[r].todo \ {j}
    BY <2>2, ReaperRunning DEF Transaction
  <2>4. tx[r].todo \ {j} = {}
    BY <1>4 DEF SingleLease, Current, First, RecoverJob
  <2> QED
    BY <2>3, <2>4
<1>5. CASE CommitRecovery(r)
  BY <1>0, <1>5, OthersStay DEF CommitRecovery
<1> QED
  BY <1>0, <1>1, <1>2, <1>3, <1>4, <1>5, OneProcessMoves DEF ReaperStep

\* With one lease for each batch, reapers take part in no deadlock.
THEOREM BatchesOfOneNeverDeadlock ==
  ASSUME ReaperBatch = 1
  PROVE  Spec => [](\A S \in Circles : S \subseteq Workers)
<1>1. Init => SingleLease
  BY ReaperRunning, LocksInitially DEF Init, Idle, SingleLease
<1>2. LocksInv /\ SingleLease /\ [Next]_vars => SingleLease'
  BY SingleLeaseKept
<1>3. LocksInv /\ SingleLease => \A S \in Circles : S \subseteq Workers
  BY CircleAcross DEF SingleLease, LocksInv, Locked, Transactions, Current, First
<1> QED
  BY <1>1, <1>2, <1>3, LocksInvariance, PTL DEF Spec

\* With batches of one for both, transactions never wait for each other in a circle: a
\* deadlock ends no process.
THEOREM NoDeadlockWithBatchesOfOne ==
  ASSUME CandidateLimit = 1, ReaperBatch = 1
  PROVE  Spec => [](Circles = {})
<1>1. (\A S \in Circles : S \subseteq Reapers) /\ (\A S \in Circles : S \subseteq Workers)
        => Circles = {}
  BY QueueLocksAssumption DEF Circles
<1> QED
  BY <1>1, ClaimsOfOneNeverDeadlock, BatchesOfOneNeverDeadlock, PTL

=============================================================================
