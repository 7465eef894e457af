-------------------------- MODULE DashboardProofs ---------------------------
(* Proofs about JobStream, and about Dashboard as the client of its streams,  *)
(* for any number of tenants, connections and tokens.                         *)
EXTENDS Dashboard, TLAPS

-----------------------------------------------------------------------------
(* The inductive invariant of the streams                                   *)

IdsUnique == \A e, f \in events : e.id = f.id => e = f

\* The cursor is where the stream began or at an event it sent, and nothing that was
\* sent follows it; what is listed does.
CursorInv(s) ==
  LET st == stream[s] IN
  /\ st.phase = "unused" => st.batch = {} /\ st.sent = {}
  /\ \/ st.cursor = st.start
     \/ \E f \in st.sent : st.cursor.created_at = f.created_at /\ st.cursor.id = f.id
  /\ \A f \in st.sent : ~Precedes(st.cursor, f)
  /\ \A e \in st.batch : Precedes(st.cursor, e)

\* What precedes a listed event is listed too, or was committed later.
BatchInv(s) ==
  LET st == stream[s] IN
  \A e \in st.batch, g \in events :
    /\ g.tenant = st.tenant
    /\ Precedes(st.cursor, g)
    /\ Precedes(g, e)
    => g \in st.batch \/ e.commit < g.commit

StreamInv ==
  /\ StreamTypeOK /\ IdsUnique
  /\ SentOnceInOrder /\ OnlyOvertakenEventsMissed
  /\ \A s \in Sockets : CursorInv(s) /\ BatchInv(s)

-----------------------------------------------------------------------------
(* (created_at, id) order                                                   *)

LEMMA EventTypes ==
  ASSUME NEW e \in Events
  PROVE  /\ e.created_at \in Int /\ e.id \in Int /\ e.commit \in Nat
         /\ e.id \in EventIds /\ e.tenant \in Tenants
<1>1. e.created_at \in Nat /\ e.id \in EventIds /\ e.commit \in Nat /\ e.tenant \in Tenants
  BY DEF Events
<1>2. \A i \in EventIds : i \in Int
  BY StreamAssumption
<1> QED
  BY <1>1, <1>2

LEMMA EventFacts ==
  ASSUME StreamTypeOK, NEW e \in events
  PROVE  /\ e.created_at \in Int /\ e.id \in Int /\ e.commit \in Nat
         /\ e.id \in EventIds /\ e.tenant \in Tenants /\ e \in Events
         /\ e.commit <= commits /\ commits \in Nat
<1>1. e \in Events /\ e.commit <= commits /\ commits \in Nat
  BY DEF StreamTypeOK
<1> QED
  BY <1>1, EventTypes

LEMMA CursorFacts ==
  ASSUME StreamTypeOK, NEW s \in Sockets
  PROVE  /\ stream[s].cursor.created_at \in Int /\ stream[s].cursor.id \in Int
         /\ stream[s].start.created_at \in Int /\ stream[s].start.id \in Int
BY DEF StreamTypeOK, Streams, Cursors

-----------------------------------------------------------------------------
(* Writers                                                                  *)

LEMMA WriterKeepsInv ==
  ASSUME StreamInv, WriterStep
  PROVE  StreamInv'
<1>1. PICK began \in 0..now, ids \in (SUBSET NewIds) \ {{}} :
        \E tenantOf \in [ids -> Tenants] : CommitTransaction(began, tenantOf)
  BY Zenon DEF WriterStep
<1>2. PICK tenantOf \in [ids -> Tenants] : CommitTransaction(began, tenantOf)
  BY <1>1
<1> DEFINE new(i) == [created_at |-> began, id |-> i, tenant |-> tenantOf[i],
                      commit |-> commits + 1]
<1>3. /\ commits' = commits + 1 /\ now' = now /\ stream' = stream
      /\ events' = events \cup {new(i) : i \in ids}
  BY <1>2 DEF CommitTransaction
<1>4. /\ now \in 0..MaxNow /\ MaxNow \in Nat /\ commits \in Nat /\ events \subseteq Events
      /\ \A e \in events : e.created_at <= now /\ e.commit <= commits
      /\ stream \in [Sockets -> Streams] /\ began \in Nat /\ began <= now
  BY StreamAssumption DEF StreamInv, StreamTypeOK
<1>5. ids \subseteq EventIds /\ \A i \in ids : \A e \in events : e.id # i
  BY DEF NewIds
<1>6. \A i \in ids : /\ new(i) \in Events /\ new(i).created_at <= now
                     /\ new(i).commit = commits + 1 /\ new(i).id = i
  BY <1>4, <1>5 DEF Events
<1> HIDE DEF new
<1>7. StreamTypeOK'
  <2>1. \A e \in events' : e \in Events /\ e.created_at <= now /\ e.commit <= commits + 1
    <3> SUFFICES ASSUME NEW e \in events'
                 PROVE  e \in Events /\ e.created_at <= now /\ e.commit <= commits + 1
      OBVIOUS
    <3>1. CASE e \in events
      BY <1>4, <3>1 DEF Events
    <3>2. CASE e \notin events
      BY <1>3, <1>4, <1>6, <3>2
    <3> QED
      BY <3>1, <3>2
  <2> QED
    BY <1>3, <1>4, <2>1 DEF StreamTypeOK
<1>8. \A e \in events' \ events : /\ e.commit = commits + 1 /\ e \in Events
                                  /\ \A f \in events : f.id # e.id
  BY <1>3, <1>5, <1>6
<1>9. IdsUnique'
  <2> SUFFICES ASSUME NEW e \in events', NEW f \in events', e.id = f.id PROVE e = f
    BY DEF IdsUnique
  <2>1. CASE e \in events /\ f \in events
    BY <2>1 DEF StreamInv, IdsUnique
  <2>2. CASE e \notin events /\ f \notin events
    BY <1>3, <1>6, <2>2
  <2> QED
    BY <1>8, <2>1, <2>2
<1>10. \A s \in Sockets :
         /\ stream[s].batch \cup stream[s].sent \subseteq events
         /\ stream[s].batch \cup stream[s].sent
              \subseteq {e \in events : e.tenant = stream[s].tenant}
  BY DEF StreamInv, SentOnceInOrder
<1>11. SentOnceInOrder'
  BY <1>3, <1>10 DEF StreamInv, SentOnceInOrder
<1>12. OnlyOvertakenEventsMissed'
  <2> SUFFICES ASSUME NEW s \in Sockets, NEW e \in events',
                      stream[s].phase # "unused", e.tenant = stream[s].tenant,
                      Precedes(stream[s].start, e), ~Precedes(stream[s].cursor, e)
               PROVE  \/ e \in stream[s].sent
                      \/ \E f \in stream[s].sent : Precedes(e, f) /\ f.commit < e.commit
    BY <1>3 DEF OnlyOvertakenEventsMissed
  <2>1. CASE e \in events
    BY <2>1 DEF StreamInv, OnlyOvertakenEventsMissed
  <2>2. CASE e \notin events
    <3>1. stream[s].cursor # stream[s].start
      OBVIOUS
    <3>2. PICK f \in stream[s].sent :
            stream[s].cursor.created_at = f.created_at /\ stream[s].cursor.id = f.id
      BY <3>1 DEF StreamInv, CursorInv
    <3>3. f \in events /\ f.id # e.id /\ f.commit < e.commit
      BY <1>4, <1>8, <1>10, <2>2, EventFacts DEF StreamInv
    <3>4. ~Precedes(f, e)
      BY <3>2 DEF Precedes
    <3>5. /\ e.created_at \in Int /\ e.id \in Int /\ f.created_at \in Int /\ f.id \in Int
      BY <1>8, <2>2, <3>3, EventTypes, EventFacts DEF StreamInv
    <3> QED
      BY <3>3, <3>4, <3>5 DEF Precedes
  <2> QED
    BY <2>1, <2>2
<1>13. ASSUME NEW s \in Sockets
       PROVE  CursorInv(s)' /\ BatchInv(s)'
  <2>1. CursorInv(s)'
    BY <1>3 DEF StreamInv, CursorInv
  <2>2. BatchInv(s)'
    <3> SUFFICES ASSUME NEW e \in stream[s].batch, NEW g \in events',
                        g.tenant = stream[s].tenant, Precedes(stream[s].cursor, g),
                        Precedes(g, e)
                 PROVE  g \in stream[s].batch \/ e.commit < g.commit
      BY <1>3 DEF BatchInv
    <3>1. CASE g \in events
      BY <3>1 DEF StreamInv, BatchInv
    <3>2. CASE g \notin events
      BY <1>4, <1>8, <1>10, <3>2, EventFacts DEF StreamInv
    <3> QED
      BY <3>1, <3>2
  <2> QED
    BY <2>1, <2>2
<1> QED
  BY <1>7, <1>9, <1>11, <1>12, <1>13 DEF StreamInv

-----------------------------------------------------------------------------
(* Handlers                                                                 *)

\* A step of one connection: the invariant's parts for it alone.
LEMMA SocketKeepsInv ==
  ASSUME StreamInv, NEW s \in Sockets, NEW new \in Streams,
         stream' = [stream EXCEPT ![s] = new], UNCHANGED <<now, events, commits>>,
         new.batch \cup new.sent \subseteq {e \in events : e.tenant = new.tenant},
         \A e \in new.batch, f \in new.sent : Precedes(f, e),
         \A e \in events :
           /\ new.phase # "unused" /\ e.tenant = new.tenant
           /\ Precedes(new.start, e) /\ ~Precedes(new.cursor, e)
           => e \in new.sent \/ \E f \in new.sent : Precedes(e, f) /\ f.commit < e.commit,
         CursorInv(s)', BatchInv(s)'
  PROVE  StreamInv'
<1>1. /\ stream \in [Sockets -> Streams] /\ stream' \in [Sockets -> Streams]
      /\ stream'[s] = new /\ \A r \in Sockets \ {s} : stream'[r] = stream[r]
  BY DEF StreamInv, StreamTypeOK
<1>2. StreamTypeOK' /\ IdsUnique'
  BY <1>1 DEF StreamInv, StreamTypeOK, IdsUnique
<1>3. SentOnceInOrder'
  BY <1>1 DEF StreamInv, SentOnceInOrder
<1>4. OnlyOvertakenEventsMissed'
  BY <1>1 DEF StreamInv, OnlyOvertakenEventsMissed
<1>5. \A r \in Sockets : CursorInv(r)' /\ BatchInv(r)'
  BY <1>1 DEF StreamInv, CursorInv, BatchInv
<1> QED
  BY <1>2, <1>3, <1>4, <1>5 DEF StreamInv

\* A poll lists the first rows after the cursor.
LEMMA ListKeepsInv ==
  ASSUME StreamInv, NEW s \in Sockets, ListEvents(s)
  PROVE  StreamInv'
<1> DEFINE st == stream[s]
<1>1. PICK B \in Batches(s) : stream' = [stream EXCEPT ![s] = [st EXCEPT !.batch = B]]
  BY DEF ListEvents
<1>2. /\ B \subseteq Pending(s)
      /\ \A e \in B, f \in Pending(s) \ B : Precedes(e, f)
  BY DEF Batches
<1> DEFINE new == [st EXCEPT !.batch = B]
<1>3. /\ StreamTypeOK /\ stream \in [Sockets -> Streams] /\ st \in Streams
      /\ events \subseteq Events
  BY DEF StreamInv, StreamTypeOK
<1>4. Pending(s) = {e \in events : e.tenant = st.tenant /\ Precedes(st.cursor, e)}
  BY DEF Pending
<1>5. /\ new \in Streams /\ new.phase = st.phase /\ new.tenant = st.tenant
      /\ new.start = st.start /\ new.cursor = st.cursor /\ new.sent = st.sent
      /\ new.batch = B
  BY <1>2, <1>3, <1>4 DEF Streams
<1>6. st.phase = "open" /\ UNCHANGED <<now, events, commits>>
  BY DEF ListEvents
<1>i. /\ CursorInv(s) /\ st.sent \subseteq {e \in events : e.tenant = st.tenant}
      /\ \A e \in events :
           /\ st.phase # "unused" /\ e.tenant = st.tenant
           /\ Precedes(st.start, e) /\ ~Precedes(st.cursor, e)
           => e \in st.sent \/ \E f \in st.sent : Precedes(e, f) /\ f.commit < e.commit
  BY DEF StreamInv, SentOnceInOrder, OnlyOvertakenEventsMissed
<1> HIDE DEF new
<1>7. stream'[s] = new /\ stream' = [stream EXCEPT ![s] = new]
  BY <1>1, <1>3 DEF new
<1> HIDE DEF st
<1>8. \A e \in B, f \in st.sent : Precedes(f, e)
  <2> SUFFICES ASSUME NEW e \in B, NEW f \in st.sent PROVE Precedes(f, e)
    OBVIOUS
  <2>1. Precedes(st.cursor, e) /\ ~Precedes(st.cursor, f) /\ e \in events /\ f \in events
    BY <1>2, <1>4, <1>i DEF CursorInv, st
  <2>2. /\ e.created_at \in Int /\ e.id \in Int /\ f.created_at \in Int /\ f.id \in Int
        /\ st.cursor.created_at \in Int /\ st.cursor.id \in Int
    BY <1>3, <2>1, EventFacts, CursorFacts DEF st
  <2> QED
    BY <2>1, <2>2 DEF Precedes
<1>9. CursorInv(s)'
  BY <1>2, <1>4, <1>5, <1>6, <1>7, <1>i DEF CursorInv, st
<1>10. BatchInv(s)'
  <2> SUFFICES ASSUME NEW e \in B, NEW g \in events, g.tenant = st.tenant,
                      Precedes(st.cursor, g), Precedes(g, e)
               PROVE  g \in B
    BY <1>5, <1>6, <1>7 DEF BatchInv
  <2>1. g \in Pending(s) /\ e \in events
    BY <1>2, <1>4
  <2>2. ~Precedes(e, g)
    BY <1>3, <2>1, EventFacts DEF Precedes
  <2> QED
    BY <1>2, <2>1, <2>2
<1>11. new.batch \cup new.sent \subseteq {e \in events : e.tenant = new.tenant}
  BY <1>2, <1>4, <1>5, <1>i
<1> QED
  BY <1>5, <1>6, <1>7, <1>8, <1>9, <1>10, <1>11, <1>i, SocketKeepsInv

\* Sending the first listed row moves the cursor to it.
LEMMA SendKeepsInv ==
  ASSUME StreamInv, NEW s \in Sockets, SendEvent(s)
  PROVE  StreamInv'
<1> DEFINE st == stream[s]
<1>1. PICK e \in st.batch :
        /\ \A f \in st.batch \ {e} : Precedes(e, f)
        /\ stream' = [stream EXCEPT ![s] =
             [st EXCEPT !.batch = st.batch \ {e}, !.sent = st.sent \cup {e},
                        !.cursor = CursorAfter(s, e)]]
  BY DEF SendEvent
<1> DEFINE new == [st EXCEPT !.batch = st.batch \ {e}, !.sent = st.sent \cup {e},
                             !.cursor = CursorAfter(s, e)]
<1>3. /\ StreamTypeOK /\ stream \in [Sockets -> Streams] /\ st \in Streams
      /\ events \subseteq Events
  BY DEF StreamInv, StreamTypeOK
<1>i. /\ CursorInv(s) /\ BatchInv(s)
      /\ st.batch \cup st.sent \subseteq {f \in events : f.tenant = st.tenant}
      /\ \A x \in st.batch, f \in st.sent : Precedes(f, x)
      /\ \A g \in events :
           /\ st.phase # "unused" /\ g.tenant = st.tenant
           /\ Precedes(st.start, g) /\ ~Precedes(st.cursor, g)
           => g \in st.sent \/ \E f \in st.sent : Precedes(g, f) /\ f.commit < g.commit
  BY DEF StreamInv, SentOnceInOrder, OnlyOvertakenEventsMissed
<1>4. e \in events /\ e \in Events /\ e.created_at \in Int /\ e.id \in Int /\ e.tenant = st.tenant
  BY <1>3, <1>i, EventFacts
<1>c. /\ CursorAfter(s, e) \in Cursors
      /\ CursorAfter(s, e).created_at = e.created_at /\ CursorAfter(s, e).id = e.id
  <2>1. e.created_at \in Int /\ e.id \in Nat
    BY <1>4, StreamAssumption DEF Events
  <2> QED
    BY <2>1 DEF CursorAfter, Cursors
<1>5. /\ new \in Streams /\ new.phase = st.phase /\ new.tenant = st.tenant
      /\ new.start = st.start /\ new.cursor = CursorAfter(s, e)
      /\ new.sent = st.sent \cup {e} /\ new.batch = st.batch \ {e}
  BY <1>3, <1>4, <1>c DEF Streams
<1>6. st.phase = "open" /\ UNCHANGED <<now, events, commits>>
  BY DEF SendEvent
<1> HIDE DEF new
<1>7. stream'[s] = new /\ stream' = [stream EXCEPT ![s] = new]
  BY <1>1, <1>3 DEF new
<1>s. \A g : Precedes(new.cursor, g) <=> Precedes(e, g)
  BY <1>5, <1>c DEF Precedes
<1> HIDE DEF st
<1>p. ~Precedes(e, e)
  BY <1>4 DEF Precedes
<1>8. \A f \in st.sent : Precedes(f, e) /\ ~Precedes(e, f)
  <2> SUFFICES ASSUME NEW f \in st.sent PROVE Precedes(f, e) /\ ~Precedes(e, f)
    OBVIOUS
  <2>1. Precedes(f, e) /\ f \in events
    BY <1>i
  <2> QED
    BY <1>3, <1>4, <2>1, EventFacts DEF Precedes
<1>9. CursorInv(s)'
  <2>1. \A f \in new.sent : ~Precedes(e, f)
    BY <1>5, <1>8, <1>p
  <2>2. \A f \in new.batch : Precedes(e, f)
    BY <1>1, <1>5 DEF st
  <2>3. \E f \in new.sent : new.cursor.created_at = f.created_at /\ new.cursor.id = f.id
    BY <1>5, <1>c
  <2> QED
    BY <1>5, <1>6, <1>7, <1>s, <2>1, <2>2, <2>3 DEF CursorInv
<1>10. \A g \in events : Precedes(e, g) => Precedes(st.cursor, g)
  <2> SUFFICES ASSUME NEW g \in events, Precedes(e, g) PROVE Precedes(st.cursor, g)
    OBVIOUS
  <2>1. Precedes(st.cursor, e)
    BY <1>1, <1>i DEF CursorInv, st
  <2>2. /\ g.created_at \in Int /\ g.id \in Int
        /\ st.cursor.created_at \in Int /\ st.cursor.id \in Int
    BY <1>3, EventFacts, CursorFacts DEF st
  <2> QED
    BY <1>4, <2>1, <2>2 DEF Precedes
<1>11. BatchInv(s)'
  <2> SUFFICES ASSUME NEW x \in new.batch, NEW g \in events, g.tenant = st.tenant,
                      Precedes(e, g), Precedes(g, x)
               PROVE  g \in new.batch \/ x.commit < g.commit
    BY <1>5, <1>6, <1>7, <1>s DEF BatchInv
  <2>1. g \in st.batch \/ x.commit < g.commit
    BY <1>5, <1>10, <1>i DEF BatchInv, st
  <2> QED
    BY <1>5, <1>p, <2>1
<1>12. new.batch \cup new.sent \subseteq {f \in events : f.tenant = new.tenant}
  BY <1>4, <1>5, <1>i, <1>1 DEF st
<1>13. \A x \in new.batch, f \in new.sent : Precedes(f, x)
  BY <1>1, <1>5, <1>i DEF st
<1>14. ASSUME NEW g \in events, g.tenant = new.tenant, Precedes(new.start, g),
              ~Precedes(new.cursor, g)
       PROVE  g \in new.sent \/ \E f \in new.sent : Precedes(g, f) /\ f.commit < g.commit
  <2>1. CASE ~Precedes(st.cursor, g)
    BY <1>5, <1>6, <1>i, <1>14, <2>1 DEF st
  <2>2. CASE Precedes(st.cursor, g) /\ g # e
    <3>1. ~Precedes(e, g) /\ g.id # e.id
      BY <1>4, <1>14, <1>s, <2>2 DEF StreamInv, IdsUnique
    <3>2. Precedes(g, e)
      BY <1>3, <1>4, <3>1, EventFacts DEF Precedes
    <3>3. g \notin st.batch
      BY <1>1, <2>2, <3>1 DEF st
    <3>4. e.commit < g.commit
      BY <1>1, <1>5, <1>14, <1>i, <2>2, <3>2, <3>3 DEF BatchInv, st
    <3> QED
      BY <1>5, <3>2, <3>4
  <2>3. CASE g = e
    BY <1>5, <2>3
  <2> QED
    BY <2>1, <2>2, <2>3
<1> QED
  BY <1>5, <1>6, <1>7, <1>9, <1>11, <1>12, <1>13, <1>14, SocketKeepsInv

\* A connection that is accepted, refused or ended lists and sends nothing.
LEMMA OtherHandlersKeepInv ==
  ASSUME StreamInv, NEW s \in Sockets,
         (\E t \in Tenants : Accept(s, t)) \/ Refuse(s) \/ EndStream(s)
  PROVE  StreamInv'
<1> DEFINE st == stream[s]
<1>3. /\ StreamTypeOK /\ stream \in [Sockets -> Streams] /\ st \in Streams
      /\ now \in 0..MaxNow /\ MaxNow \in Nat /\ Lookback \in Nat
  BY StreamAssumption DEF StreamInv, StreamTypeOK
<1>i. /\ CursorInv(s)
      /\ st.batch \cup st.sent \subseteq {f \in events : f.tenant = st.tenant}
      /\ \A g \in events :
           /\ st.phase # "unused" /\ g.tenant = st.tenant
           /\ Precedes(st.start, g) /\ ~Precedes(st.cursor, g)
           => g \in st.sent \/ \E f \in st.sent : Precedes(g, f) /\ f.commit < g.commit
  BY DEF StreamInv, SentOnceInOrder, OnlyOvertakenEventsMissed
<1>1. ASSUME NEW t \in Tenants, Accept(s, t)
      PROVE  StreamInv'
  <2> DEFINE start == [created_at |-> now - Lookback, id |-> 0]
             new == [st EXCEPT !.phase = "open", !.tenant = t, !.start = start, !.cursor = start]
  <2>1. /\ st.phase = "unused" /\ stream' = [stream EXCEPT ![s] = new]
        /\ UNCHANGED <<now, events, commits>>
    BY <1>1 DEF Accept
  <2>2. start \in Cursors
    BY <1>3 DEF Cursors
  <2> HIDE DEF start
  <2>3. /\ new \in Streams /\ new.cursor = new.start /\ new.batch = st.batch
        /\ new.sent = st.sent /\ new.phase = "open"
    BY <1>3, <2>2 DEF Streams
  <2> HIDE DEF new
  <2>4. new.batch = {} /\ new.sent = {}
    BY <1>i, <2>1, <2>3 DEF CursorInv
  <2>5. stream'[s] = new
    BY <1>3, <2>1
  <2> HIDE DEF st
  <2>6. CursorInv(s)' /\ BatchInv(s)'
    BY <2>3, <2>4, <2>5 DEF CursorInv, BatchInv
  <2> QED
    BY <2>1, <2>3, <2>4, <2>6, SocketKeepsInv
<1>2. CASE Refuse(s) \/ EndStream(s)
  <2> DEFINE new == [st EXCEPT !.phase = "ended", !.batch = {}]
  <2>1. /\ stream' = [stream EXCEPT ![s] = new]
        /\ UNCHANGED <<now, events, commits>>
        /\ st.phase = "unused" => st.sent = {}
    <3>1. CASE EndStream(s)
      BY <1>i, <3>1 DEF EndStream, CursorInv
    <3>2. CASE Refuse(s)
      <4>1. st.batch = {} /\ st.sent = {}
        BY <1>i, <3>2 DEF Refuse, CursorInv
      <4>2. [st EXCEPT !.phase = "ended"] = new
        BY <1>3, <4>1 DEF Streams
      <4> QED
        BY <3>2, <4>1, <4>2 DEF Refuse
    <3> QED
      BY <1>2, <3>1, <3>2
  <2>2. /\ new \in Streams /\ new.cursor = st.cursor /\ new.start = st.start /\ new.batch = {}
        /\ new.sent = st.sent /\ new.phase = "ended" /\ new.tenant = st.tenant
    BY <1>3 DEF Streams
  <2> HIDE DEF new
  <2>3. stream'[s] = new
    BY <1>3, <2>1
  <2> HIDE DEF st
  <2>4. CursorInv(s)' /\ BatchInv(s)'
    BY <1>i, <2>2, <2>3 DEF CursorInv, BatchInv, st
  <2>5. ASSUME NEW g \in events, g.tenant = new.tenant, Precedes(new.start, g),
               ~Precedes(new.cursor, g)
        PROVE  g \in new.sent \/ \E f \in new.sent : Precedes(g, f) /\ f.commit < g.commit
    <3>1. CASE st.phase = "unused"
      <4>1. st.cursor = st.start
        BY <1>i, <2>1, <3>1 DEF CursorInv, st
      <4> QED
        BY <2>2, <2>5, <4>1
    <3>2. CASE st.phase # "unused"
      BY <1>i, <2>2, <2>5, <3>2
    <3> QED
      BY <3>1, <3>2
  <2>6. new.batch \cup new.sent \subseteq {f \in events : f.tenant = new.tenant}
    BY <1>i, <2>2
  <2>7. \A x \in new.batch, f \in new.sent : Precedes(f, x)
    BY <2>2
  <2> QED
    BY <2>1, <2>2, <2>4, <2>5, <2>6, <2>7, SocketKeepsInv
<1> QED
  BY <1>1, <1>2

-----------------------------------------------------------------------------
(* The invariant                                                            *)

LEMMA StreamInitial == StreamInit => StreamInv
<1> SUFFICES ASSUME StreamInit PROVE StreamInv
  OBVIOUS
<1>1. StreamTypeOK
  BY StreamAssumption DEF StreamInit, StreamTypeOK, Streams, NoCursor, Cursors
<1> QED
  BY <1>1 DEF StreamInit, StreamInv, IdsUnique, SentOnceInOrder, OnlyOvertakenEventsMissed,
              CursorInv, BatchInv

LEMMA StreamStep == StreamInv /\ [StreamNext]_streamVars => StreamInv'
<1> SUFFICES ASSUME StreamInv, [StreamNext]_streamVars PROVE StreamInv'
  OBVIOUS
<1>1. CASE UNCHANGED streamVars
  BY <1>1 DEF streamVars, StreamInv, StreamTypeOK, IdsUnique, SentOnceInOrder,
              OnlyOvertakenEventsMissed, CursorInv, BatchInv
<1>2. CASE Tick
  <2>1. StreamTypeOK'
    <3>1. now' = now + 1 /\ now < MaxNow /\ now \in Nat /\ MaxNow \in Nat
      BY <1>2, StreamAssumption DEF Tick, StreamInv, StreamTypeOK
    <3>2. \A e \in events : e.created_at \in Int /\ e.created_at <= now
      BY EventFacts DEF StreamInv, StreamTypeOK
    <3> QED
      BY <1>2, <3>1, <3>2 DEF Tick, StreamInv, StreamTypeOK
  <2> QED
    BY <1>2, <2>1 DEF Tick, StreamInv, IdsUnique, SentOnceInOrder,
                      OnlyOvertakenEventsMissed, CursorInv, BatchInv
<1>3. CASE WriterStep
  BY <1>3, WriterKeepsInv
<1>4. ASSUME NEW s \in Sockets,
             \/ \E t \in Tenants : Accept(s, t)
             \/ Refuse(s) \/ PollStep(s) \/ EndStream(s)
      PROVE  StreamInv'
  BY <1>4, ListKeepsInv, SendKeepsInv, OtherHandlersKeepInv DEF PollStep
<1> QED
  BY <1>1, <1>2, <1>3, <1>4 DEF StreamNext

\* Whoever its clients are and whatever they do, a connection of job_stream misses an event
\* only if its transaction was overtaken by that of an event that follows it in cursor order.
THEOREM StreamMissesOnlyOvertaken == StreamSpec => []OnlyOvertakenEventsMissed
<1>1. StreamInv => OnlyOvertakenEventsMissed
  BY DEF StreamInv
<1> QED
  BY <1>1, StreamInitial, StreamStep, PTL DEF StreamSpec

\* Whoever its clients are, a connection sends no event twice, and in the cursor's order.
THEOREM StreamSendsInOrder == StreamSpec => []SentOnceInOrder
<1>1. StreamInv => SentOnceInOrder
  BY DEF StreamInv
<1> QED
  BY <1>1, StreamInitial, StreamStep, PTL DEF StreamSpec

-----------------------------------------------------------------------------
(* Dashboard as a client of the streams                                     *)

\* Of a socket: who owns it, whose token it has, and what its handler was told.
ClientInv(s) ==
  LET c == client[s] IN
  /\ c.phase = "unused" <=> c.owner = "nobody"
  /\ c.phase # "unused" => c.token \in Tokens
  /\ c.owner = "live" =>
       token # Null /\ c.token = token /\ c.phase \in {"connecting", "open", "closed"}
  /\ c.phase \in {"connecting", "open"} => c.owner = "live" /\ s = socket
  /\ c.phase = "open" => stream[s].phase # "unused"
  /\ c.phase = "open" \/ stream[s].phase = "open" =>
       c.phase # "unused" /\ stream[s].tenant = TokenTenant[c.token]
  /\ c.handled \subseteq stream[s].sent

\* Of a mounted dashboard: the latest socket is the effect's own, and a timer is set only
\* when it is closed.
MountInv ==
  /\ token # Null => socket \in Sockets /\ client[socket].owner = "live"
  /\ timer = TRUE => token # Null /\ client[socket].phase = "closed"

Fresh(v) == v.tenant = TokenTenant[token] /\ client[socket].handled \subseteq v.seen

\* What was asked for since the last message is on its way, or on the screen.
FetchInv ==
  /\ fetch # NoFetch => fetch.token \in Tokens
  /\ SocketOpen /\ unserved = FALSE =>
       IF fetch = NoFetch THEN Fresh(view)
       ELSE fetch.token = token /\ (fetch.answer # NoView => Fresh(fetch.answer))

DashboardInv ==
  /\ TypeOK /\ StreamInv
  /\ \A s \in Sockets : ClientInv(s)
  /\ MountInv /\ FetchInv /\ ShownStateIsTrue

LEMMA ViewFacts ==
  /\ NoView \in Views /\ NoFetch \in [token : Tokens \cup {Null}, answer : Views]
  /\ NoFetch.token = Null /\ NoFetch.answer = NoView
  /\ \A t \in Tokens : /\ Ask(t) \in [token : Tokens \cup {Null}, answer : Views]
                       /\ Ask(t).token = t /\ Ask(t).answer = NoView /\ Ask(t) # NoFetch
<1>1. NoView \in Views
  BY DEF NoView, Views
<1> QED
  BY <1>1, DashboardAssumption DEF NoFetch, Ask

\* The server's part of a step, which leaves the browser's state alone.
LEMMA ServerKeepsInv ==
  ASSUME DashboardInv, StreamInv', steps' \in 0..MaxSteps,
         UNCHANGED <<token, logins, socket, client, timer, shown, view, fetch, unserved>>,
         \A s \in Sockets :
           /\ stream[s].sent \subseteq stream'[s].sent
           /\ stream[s].phase # "unused" =>
                /\ stream'[s].phase # "unused" /\ stream'[s].tenant = stream[s].tenant
                /\ stream'[s].phase = "open" => stream[s].phase = "open"
           /\ stream[s].phase = "unused" /\ stream'[s].phase = "open" =>
                client[s].phase # "unused" /\ stream'[s].tenant = TokenTenant[client[s].token]
  PROVE  DashboardInv'
<1>1. TypeOK'
  BY DEF DashboardInv, TypeOK, StreamInv
<1>2. \A s \in Sockets : ClientInv(s)'
  BY DEF DashboardInv, ClientInv
<1>3. MountInv' /\ FetchInv' /\ ShownStateIsTrue'
  BY DEF DashboardInv, MountInv, FetchInv, ShownStateIsTrue, SocketOpen, Fresh
<1> QED
  BY <1>1, <1>2, <1>3 DEF DashboardInv

ServerStep ==
  \/ Tick /\ UNCHANGED clientVars
  \/ /\ WriterStep /\ Uncaused
     /\ UNCHANGED <<token, logins, socket, client, timer, shown, view, fetch, unserved>>
  \/ \E s \in Sockets : AcceptSocket(s) \/ Poll(s) \/ RefuseSocket(s) \/ EndSocket(s)

\* Whatever browsers do, the server does what the stream handler does.
LEMMA ServerStreams ==
  ASSUME DashboardInv, ServerStep
  PROVE  StreamNext
<1>1. ASSUME NEW s \in Sockets, AcceptSocket(s)
      PROVE  StreamNext
  <2>1. client[s].token \in Tokens
    BY <1>1 DEF AcceptSocket, DashboardInv, ClientInv
  <2>2. TokenTenant[client[s].token] \in Tenants
    BY <2>1, DashboardAssumption
  <2> QED
    BY <1>1, <2>2 DEF AcceptSocket, StreamNext
<1> QED
  BY <1>1 DEF ServerStep, Poll, RefuseSocket, EndSocket, StreamNext

LEMMA ServerStepsKeepInv ==
  ASSUME DashboardInv, ServerStep
  PROVE  DashboardInv'
<1>0. /\ StreamInv' /\ stream \in [Sockets -> Streams] /\ steps \in 0..MaxSteps /\ MaxSteps \in Nat
  BY ServerStreams, StreamStep, DashboardAssumption DEF DashboardInv, TypeOK, StreamTypeOK
<1>c. /\ UNCHANGED <<token, logins, socket, client, timer, shown, view, fetch, unserved>>
      /\ steps' \in 0..MaxSteps
  BY <1>0 DEF ServerStep, clientVars, Uncaused, AcceptSocket, Poll, RefuseSocket, EndSocket
<1>1. CASE stream' = stream
  BY <1>0, <1>c, <1>1, ServerKeepsInv
<1>2. ASSUME NEW s \in Sockets, NEW new \in Streams,
             stream' = [stream EXCEPT ![s] = new],
             stream[s].sent \subseteq new.sent,
             stream[s].phase # "unused" =>
               /\ new.phase # "unused" /\ new.tenant = stream[s].tenant
               /\ new.phase = "open" => stream[s].phase = "open",
             stream[s].phase = "unused" /\ new.phase = "open" =>
               client[s].phase # "unused" /\ new.tenant = TokenTenant[client[s].token]
      PROVE  DashboardInv'
  <2>1. stream'[s] = new /\ \A r \in Sockets \ {s} : stream'[r] = stream[r]
    BY <1>0, <1>2
  <2> QED
    BY <1>0, <1>c, <1>2, <2>1, ServerKeepsInv
<1>3. ASSUME NEW s \in Sockets, AcceptSocket(s)
      PROVE  DashboardInv'
  <2> DEFINE t == TokenTenant[client[s].token]
             start == [created_at |-> now - Lookback, id |-> 0]
             new == [stream[s] EXCEPT !.phase = "open", !.tenant = t, !.start = start,
                                      !.cursor = start]
  <2>1. /\ stream[s].phase = "unused" /\ stream' = [stream EXCEPT ![s] = new]
        /\ client[s].phase = "connecting"
    BY <1>3 DEF AcceptSocket, Accept
  <2>2. t \in Tenants /\ start \in Cursors
    <3>1. client[s].token \in Tokens
      BY <2>1 DEF DashboardInv, ClientInv
    <3>2. now \in Nat /\ Lookback \in Nat
      BY StreamAssumption DEF DashboardInv, TypeOK, StreamTypeOK
    <3> QED
      BY <3>1, <3>2, DashboardAssumption DEF Cursors
  <2> HIDE DEF t, start
  <2>3. new \in Streams /\ new.sent = stream[s].sent /\ new.tenant = t
    BY <1>0, <2>2 DEF Streams
  <2> HIDE DEF new
  <2> QED
    BY <1>2, <2>1, <2>3 DEF t
<1>4. ASSUME NEW s \in Sockets, RefuseSocket(s) \/ EndSocket(s)
      PROVE  DashboardInv'
  <2>1. CASE RefuseSocket(s)
    <3> DEFINE new == [stream[s] EXCEPT !.phase = "ended"]
    <3>1. stream' = [stream EXCEPT ![s] = new] /\ stream[s].phase = "unused"
      BY <2>1 DEF RefuseSocket, Refuse
    <3>2. new \in Streams /\ new.sent = stream[s].sent /\ new.phase = "ended"
      BY <1>0 DEF Streams
    <3> HIDE DEF new
    <3> QED
      BY <1>2, <3>1, <3>2
  <2>2. CASE EndSocket(s)
    <3> DEFINE new == [stream[s] EXCEPT !.phase = "ended", !.batch = {}]
    <3>1. stream' = [stream EXCEPT ![s] = new] /\ stream[s].phase = "open"
      BY <2>2 DEF EndSocket, EndStream
    <3>2. /\ new \in Streams /\ new.sent = stream[s].sent /\ new.phase = "ended"
          /\ new.tenant = stream[s].tenant
      BY <1>0 DEF Streams
    <3> HIDE DEF new
    <3> QED
      BY <1>2, <3>1, <3>2
  <2> QED
    BY <1>4, <2>1, <2>2
<1>5. ASSUME NEW s \in Sockets, Poll(s)
      PROVE  DashboardInv'
  <2>1. stream' \in [Sockets -> Streams]
    BY <1>0 DEF StreamInv, StreamTypeOK
  <2>2. \A r \in Sockets \ {s} : stream'[r] = stream[r]
    BY <1>0, <1>5 DEF Poll, PollStep, ListEvents, SendEvent
  <2>3. /\ stream'[s].phase = stream[s].phase /\ stream'[s].tenant = stream[s].tenant
        /\ stream[s].sent \subseteq stream'[s].sent
    <3>1. stream[s] \in Streams
      BY <1>0
    <3>2. CASE ListEvents(s)
      <4>1. PICK B : stream' = [stream EXCEPT ![s].batch = B]
        BY <3>2 DEF ListEvents
      <4>2. stream'[s] = [stream[s] EXCEPT !.batch = B]
        BY <1>0, <4>1
      <4> QED
        BY <3>1, <4>2 DEF Streams
    <3>3. CASE SendEvent(s)
      <4>1. PICK e : stream'[s] = [stream[s] EXCEPT !.batch = @ \ {e}, !.sent = @ \cup {e},
                                                    !.cursor = CursorAfter(s, e)]
        BY <1>0, <3>3 DEF SendEvent
      <4> QED
        BY <3>1, <4>1 DEF Streams
    <3> QED
      BY <1>5, <3>2, <3>3 DEF Poll, PollStep
  <2>4. stream[s].phase = "open"
    BY <1>5 DEF Poll, PollStep, ListEvents, SendEvent
  <2> QED
    BY <1>0, <1>c, <2>2, <2>3, <2>4, ServerKeepsInv
<1> QED
  BY <1>1, <1>3, <1>4, <1>5 DEF ServerStep, Tick, WriterStep, CommitTransaction

-----------------------------------------------------------------------------
(* The browser's steps                                                      *)

\* A step of the browser leaves the streams alone; what each has to keep.
LEMMA BrowserKeepsInv ==
  ASSUME DashboardInv, UNCHANGED streamVars,
         token' \in Tokens \cup {Null}, logins' \in [Tokens -> {"none", "pending", "done"}],
         socket' \in Sockets \cup {Null}, client' \in [Sockets -> Clients],
         timer' \in BOOLEAN, shown' \in ShownStates, view' \in Views,
         fetch' \in [token : Tokens \cup {Null}, answer : Views],
         unserved' \in BOOLEAN, steps' \in 0..MaxSteps,
         \A s \in Sockets : ClientInv(s)', MountInv', FetchInv', ShownStateIsTrue'
  PROVE  DashboardInv'
<1>1. StreamInv'
  BY StreamStep DEF DashboardInv
<1>2. \A s \in Sockets : client'[s].phase \in {"connecting", "open"} =>
        token' # Null /\ s = socket'
  BY DEF ClientInv
<1> QED
  BY <1>1, <1>2 DEF DashboardInv, TypeOK, StreamInv

\* Asking for the list.
LEMMA InvalidateFacts ==
  ASSUME DashboardInv, token # Null, Invalidate
  PROVE  /\ fetch' \in [token : Tokens \cup {Null}, answer : Views]
         /\ fetch' # NoFetch => fetch'.token \in Tokens
         /\ unserved' \in BOOLEAN
         /\ unserved' = FALSE => /\ fetch' # NoFetch /\ fetch'.token = token
                                 /\ fetch'.answer = NoView
<1>1. token \in Tokens /\ fetch \in [token : Tokens \cup {Null}, answer : Views]
  BY DEF DashboardInv, TypeOK
<1> QED
  BY <1>1, ViewFacts DEF Invalidate, DashboardInv, FetchInv

\* What the browser's types say of the present state.
LEMMA Types ==
  ASSUME DashboardInv
  PROVE  /\ token \in Tokens \cup {Null} /\ logins \in [Tokens -> {"none", "pending", "done"}]
         /\ socket \in Sockets \cup {Null} /\ client \in [Sockets -> Clients]
         /\ timer \in BOOLEAN /\ shown \in ShownStates /\ view \in Views
         /\ fetch \in [token : Tokens \cup {Null}, answer : Views]
         /\ unserved \in BOOLEAN /\ steps \in 0..MaxSteps /\ MaxSteps \in Nat
         /\ events \subseteq Events /\ Null \notin Tokens /\ Null \notin Tenants
BY DashboardAssumption, StreamAssumption DEF DashboardInv, TypeOK, StreamTypeOK

\* Steps of the query cache.
LEMMA FetchStepsKeepInv ==
  ASSUME DashboardInv,
         AnswerFetch \/ ReceiveFetch \/ FailFetch \/ ForgetView \/ CreateJobSucceeds
  PROVE  DashboardInv'
<1>0. UNCHANGED <<streamVars, token, logins, socket, client, timer, shown>>
  BY DEF AnswerFetch, ReceiveFetch, FailFetch, ForgetView, CreateJobSucceeds
<1>1. ASSUME view' \in Views, fetch' \in [token : Tokens \cup {Null}, answer : Views],
             unserved' \in BOOLEAN, steps' \in 0..MaxSteps, FetchInv'
      PROVE  DashboardInv'
  <2>1. (\A s \in Sockets : ClientInv(s)') /\ MountInv' /\ ShownStateIsTrue'
    BY <1>0 DEF DashboardInv, ClientInv, MountInv, ShownStateIsTrue, SocketOpen, streamVars
  <2> QED
    BY <1>0, <1>1, <2>1, Types, BrowserKeepsInv
<1>2. SocketOpen' = SocketOpen
  BY <1>0 DEF SocketOpen
<1>3. CASE AnswerFetch
  <2> DEFINE t == TokenTenant[fetch.token]
             answer == [tenant |-> t, seen |-> {e \in events : e.tenant = t}]
  <2>1. /\ fetch # NoFetch /\ fetch' = [fetch EXCEPT !.answer = answer]
        /\ UNCHANGED <<view, unserved, steps>>
    BY <1>3 DEF AnswerFetch
  <2>2. fetch.token \in Tokens /\ t \in Tenants
    BY <2>1, DashboardAssumption DEF DashboardInv, FetchInv
  <2>3. answer \in Views /\ answer.tenant = t /\ answer.seen = {e \in events : e.tenant = t}
    BY <2>2, Types DEF Views
  <2> HIDE DEF answer
  <2>4. /\ fetch' \in [token : Tokens \cup {Null}, answer : Views]
        /\ fetch'.token = fetch.token /\ fetch'.answer = answer
    BY <2>1, <2>2, <2>3, Types
  <2>5. fetch' # NoFetch
    BY <2>2, <2>4, ViewFacts, Types
  <2>6. ASSUME SocketOpen, fetch.token = token
        PROVE  client[socket].handled \subseteq answer.seen
    <3>1. token # Null /\ socket \in Sockets /\ client[socket].phase = "open"
      BY <2>6 DEF SocketOpen, DashboardInv, MountInv
    <3>2. /\ client[socket].token = token /\ stream[socket].tenant = TokenTenant[token]
          /\ client[socket].handled \subseteq stream[socket].sent
      BY <3>1 DEF DashboardInv, MountInv, ClientInv
    <3>3. stream[socket].sent \subseteq {e \in events : e.tenant = stream[socket].tenant}
      BY <3>1 DEF DashboardInv, StreamInv, SentOnceInOrder
    <3> QED
      BY <2>3, <2>6, <3>2, <3>3
  <2>7. FetchInv'
    BY <1>0, <1>2, <2>1, <2>2, <2>3, <2>4, <2>5, <2>6 DEF DashboardInv, FetchInv, Fresh
  <2> QED
    BY <1>1, <2>1, <2>4, <2>7, Types
<1>4. CASE ReceiveFetch
  <2>1. /\ fetch.answer # NoView /\ view' = fetch.answer /\ fetch' = NoFetch
        /\ UNCHANGED <<unserved, steps>>
    BY <1>4 DEF ReceiveFetch
  <2>2. view' \in Views /\ fetch # NoFetch
    BY <2>1, Types, ViewFacts
  <2>3. FetchInv'
    BY <1>0, <1>2, <2>1, <2>2 DEF DashboardInv, FetchInv, Fresh
  <2> QED
    BY <1>1, <2>1, <2>2, <2>3, Types, ViewFacts
<1>5. CASE FailFetch
  <2>1. fetch' = NoFetch /\ unserved' = TRUE /\ view' = view /\ steps' \in 0..MaxSteps
    BY <1>5, Types DEF FailFetch, Uncaused
  <2>2. FetchInv'
    BY <2>1 DEF FetchInv
  <2> QED
    BY <1>1, <2>1, <2>2, Types, ViewFacts
<1>6. CASE ForgetView
  <2>1. token = Null /\ view' = NoView /\ UNCHANGED <<fetch, unserved, steps>>
    BY <1>6 DEF ForgetView
  <2>2. FetchInv'
    BY <1>0, <2>1 DEF DashboardInv, FetchInv, SocketOpen
  <2> QED
    BY <1>1, <2>1, <2>2, Types, ViewFacts
<1>7. CASE CreateJobSucceeds
  <2>1. token # Null /\ view' = view /\ steps' \in 0..MaxSteps /\ Invalidate
    BY <1>7, Types DEF CreateJobSucceeds, Uncaused
  <2>2. FetchInv'
    BY <1>0, <2>1, InvalidateFacts DEF FetchInv
  <2> QED
    BY <1>1, <2>1, <2>2, Types, InvalidateFacts
<1> QED
  BY <1>3, <1>4, <1>5, <1>6, <1>7

\* The open socket and its messages ask for the list.
LEMMA OpenSocketKeepsInv ==
  ASSUME DashboardInv, NEW s \in Sockets, OnOpen(s) \/ OnMessage(s)
  PROVE  DashboardInv'
<1> DEFINE c == client[s]
<1>0. c \in Clients /\ client \in [Sockets -> Clients]
  BY Types
<1>1. /\ Invalidate /\ c.phase \in {"connecting", "open"}
      /\ UNCHANGED <<streamVars, token, logins, socket, timer, view, steps>>
  BY DEF OnOpen, OnMessage
<1>2. token # Null /\ s = socket /\ c.owner = "live" /\ c.token = token /\ token \in Tokens
  BY <1>1, Types DEF DashboardInv, ClientInv
<1>3. \E new \in Clients :
        /\ client' = [client EXCEPT ![s] = new]
        /\ new.phase = "open" /\ new.token = c.token /\ new.owner = c.owner
        /\ new.handled \subseteq stream[s].sent
        /\ stream[s].phase # "unused" /\ stream[s].tenant = TokenTenant[c.token]
        /\ shown' = "connected" \/ (shown' = shown /\ c.phase = "open")
  <2>1. CASE OnOpen(s)
    <3> DEFINE new == [c EXCEPT !.phase = "open"]
    <3>1. client' = [client EXCEPT ![s] = new] /\ shown' = "connected" /\ stream[s].phase = "open"
      BY <2>1 DEF OnOpen
    <3>2. /\ new \in Clients /\ new.phase = "open" /\ new.token = c.token
          /\ new.owner = c.owner /\ new.handled = c.handled
      BY <1>0 DEF Clients
    <3>3. c.handled \subseteq stream[s].sent /\ stream[s].tenant = TokenTenant[c.token]
      BY <3>1 DEF DashboardInv, ClientInv
    <3> HIDE DEF new, c
    <3> QED
      BY <3>1, <3>2, <3>3
  <2>2. CASE OnMessage(s)
    <3>1. PICK e \in stream[s].sent \ c.handled :
            client' = [client EXCEPT ![s].handled = @ \cup {e}]
      BY <2>2 DEF OnMessage
    <3> DEFINE new == [c EXCEPT !.handled = c.handled \cup {e}]
    <3>2. client' = [client EXCEPT ![s] = new] /\ c.phase = "open" /\ shown' = shown
      BY <2>2, <3>1 DEF OnMessage
    <3>3. /\ c.handled \subseteq stream[s].sent /\ stream[s].tenant = TokenTenant[c.token]
          /\ stream[s].phase # "unused"
      BY <3>2 DEF DashboardInv, ClientInv
    <3>4. e \in Events
      BY Types DEF DashboardInv, StreamInv, SentOnceInOrder
    <3>5. /\ new \in Clients /\ new.phase = "open" /\ new.token = c.token
          /\ new.owner = c.owner /\ new.handled = c.handled \cup {e}
      BY <1>0, <3>2, <3>4 DEF Clients
    <3> HIDE DEF new, c
    <3> QED
      BY <3>1, <3>2, <3>3, <3>5
  <2> QED
    BY <2>1, <2>2
<1>4. PICK new \in Clients :
        /\ client' = [client EXCEPT ![s] = new]
        /\ new.phase = "open" /\ new.token = c.token /\ new.owner = c.owner
        /\ new.handled \subseteq stream[s].sent
        /\ stream[s].phase # "unused" /\ stream[s].tenant = TokenTenant[c.token]
        /\ shown' = "connected" \/ (shown' = shown /\ c.phase = "open")
  BY <1>3
<1>5. /\ client' \in [Sockets -> Clients] /\ client'[s] = new
      /\ \A r \in Sockets \ {s} : client'[r] = client[r]
  BY <1>0, <1>4
<1>6. \A r \in Sockets : ClientInv(r)'
  BY <1>1, <1>2, <1>4, <1>5 DEF DashboardInv, ClientInv, streamVars
<1>7. MountInv'
  BY <1>1, <1>2, <1>4, <1>5 DEF DashboardInv, MountInv
<1>8. FetchInv'
  BY <1>1, <1>2, InvalidateFacts DEF FetchInv
<1>9. ShownStateIsTrue' /\ shown' \in ShownStates
  BY <1>1, <1>2, <1>4, <1>5, Types DEF DashboardInv, ShownStateIsTrue, SocketOpen, ShownStates
<1> QED
  BY <1>1, <1>2, <1>5, <1>6, <1>7, <1>8, <1>9, Types, InvalidateFacts, BrowserKeepsInv

\* The close event of a socket, of this effect or of one that was cleaned up.
LEMMA CloseKeepsInv ==
  ASSUME DashboardInv, NEW s \in Sockets, OnClose(s) \/ LoseConnection(s)
  PROVE  DashboardInv'
<1> DEFINE c == client[s]
           new == [c EXCEPT !.phase = "closed"]
<1>0. c \in Clients /\ client \in [Sockets -> Clients] /\ timer \in BOOLEAN
  BY Types
<1>1. /\ c.phase \in {"closing", "connecting", "open"} /\ Closed(s) /\ steps' \in 0..MaxSteps
  BY Types DEF OnClose, LoseConnection, Uncaused
<1>2. /\ client' = [client EXCEPT ![s] = new] /\ shown' = ShownAfterClose(s)
      /\ UNCHANGED <<streamVars, token, logins, socket, view, fetch, unserved>>
  BY <1>1 DEF Closed
<1>t. /\ timer' \in BOOLEAN
      /\ timer' = TRUE => timer = TRUE \/ c.owner = "live"
  <2>1. timer' = (timer \/ c.owner = "live")
    BY <1>1 DEF Closed, Reconnects
  <2> QED
    BY <1>0, <2>1
<1>3. /\ new \in Clients /\ new.phase = "closed" /\ new.token = c.token
      /\ new.owner = c.owner /\ new.handled = c.handled
  BY <1>0 DEF Clients
<1>4. /\ c.owner = "live" => shown' = "reconnecting"
      /\ c.owner = "replaced" => shown' = "disconnected"
      /\ c.owner \notin {"live", "replaced"} => shown' = shown
  BY <1>2 DEF ShownAfterClose
<1>5. c.owner = "live" => s = socket /\ token # Null
  BY <1>1 DEF DashboardInv, ClientInv
<1> HIDE DEF new
<1>6. /\ client' \in [Sockets -> Clients] /\ client'[s] = new
      /\ \A r \in Sockets \ {s} : client'[r] = client[r]
  BY <1>0, <1>2, <1>3
<1>7. \A r \in Sockets : ClientInv(r)'
  BY <1>1, <1>2, <1>3, <1>6 DEF DashboardInv, ClientInv, streamVars
<1>8. MountInv'
  BY <1>2, <1>3, <1>5, <1>6, <1>t DEF DashboardInv, MountInv
<1>9. FetchInv'
  <2>1. ASSUME SocketOpen'
        PROVE  SocketOpen /\ client'[socket] = client[socket]
    BY <1>2, <1>3, <1>6, <2>1 DEF SocketOpen, DashboardInv, MountInv
  <2> QED
    BY <1>2, <2>1 DEF DashboardInv, FetchInv, Fresh
<1>10. shown' \in ShownStates
  BY <1>4, Types DEF ShownStates
<1>11. ShownStateIsTrue'
  <2> SUFFICES ASSUME token # Null
               PROVE  /\ shown' = "connected" => client'[socket].phase = "open"
                      /\ client'[socket].phase = "open" /\ shown' # "connected" =>
                           /\ shown' = "disconnected"
                           /\ \E r \in Sockets : client'[r].owner = "replaced"
                                                 /\ client'[r].phase = "closed"
    BY <1>2 DEF ShownStateIsTrue, SocketOpen
  <2>1. socket \in Sockets /\ client[socket].owner = "live"
    BY DEF DashboardInv, MountInv
  <2>2. CASE c.owner = "live"
    BY <1>3, <1>4, <1>5, <1>6, <2>2
  <2>3. CASE c.owner = "replaced"
    BY <1>3, <1>4, <1>6, <2>3
  <2>4. CASE c.owner \notin {"live", "replaced"}
    <3>1. socket # s /\ shown' = shown /\ client'[socket] = client[socket]
      BY <1>4, <1>6, <2>1, <2>4
    <3>2. \A r \in Sockets : client[r].owner = "replaced" => client'[r] = client[r]
      BY <1>6, <2>4
    <3> QED
      BY <3>1, <3>2 DEF DashboardInv, ShownStateIsTrue, SocketOpen
  <2> QED
    BY <2>2, <2>3, <2>4
<1> QED
  BY <1>1, <1>2, <1>t, <1>6, <1>7, <1>8, <1>9, <1>10, <1>11, Types, BrowserKeepsInv

\* The cleanup leaves no socket opening or open, and none that is live.
LEMMA CleanupFacts ==
  ASSUME DashboardInv, NEW owner \in {"replaced", "unmounted"}, NEW s \in Sockets
  PROVE  LET c == CleanedUp(owner)[s] IN
         /\ CleanedUp(owner) \in [Sockets -> Clients]
         /\ c.phase \notin {"connecting", "open"} /\ c.owner # "live"
         /\ c.token = client[s].token /\ c.handled = client[s].handled
         /\ c.phase = "unused" <=> client[s].phase = "unused"
         /\ c.owner = "nobody" <=> client[s].owner = "nobody"
<1>1. \A r \in Sockets :
        LET c == CleanedUp(owner)[r]
        IN  /\ c \in Clients
            /\ c.phase \notin {"connecting", "open"} /\ c.owner # "live"
            /\ c.token = client[r].token /\ c.handled = client[r].handled
            /\ c.phase = "unused" <=> client[r].phase = "unused"
            /\ c.owner = "nobody" <=> client[r].owner = "nobody"
  <2> TAKE r \in Sockets
  <2> DEFINE old == client[r]
             p == IF old.phase \in {"connecting", "open"} THEN "closing" ELSE old.phase
             o == IF old.owner = "live" \/ (old.owner = "replaced" /\ owner = "unmounted")
                  THEN owner ELSE old.owner
  <2>1. CleanedUp(owner)[r] = [old EXCEPT !.phase = p, !.owner = o]
    BY DEF CleanedUp
  <2>2. old \in Clients
    BY Types
  <2>3. /\ p \in {"unused", "closing", "closed"} /\ (p = "unused" <=> old.phase = "unused")
        /\ o \in {"nobody", "replaced", "unmounted"} /\ (o = "nobody" <=> old.owner = "nobody")
    BY <2>2 DEF Clients
  <2> HIDE DEF p, o
  <2> QED
    BY <2>1, <2>2, <2>3 DEF Clients
<1>2. CleanedUp(owner) \in [Sockets -> Clients]
  BY <1>1 DEF CleanedUp
<1> QED
  BY <1>1, <1>2

\* A new socket of the effect, on clients none of which is opening, open or live
\* but, for the same token, closed.
LEMMA ConnectKeepsInv ==
  ASSUME DashboardInv, NEW s \in Sockets, NEW t \in Tokens, NEW c \in [Sockets -> Clients],
         IsNew(s), Connect(s, t, c), token' = t,
         \A r \in Sockets :
           /\ c[r].phase \notin {"connecting", "open"}
           /\ c[r].owner = "live" => c[r].token = t /\ c[r].phase = "closed"
           /\ c[r].token = client[r].token /\ c[r].handled = client[r].handled
           /\ c[r].phase = "unused" <=> client[r].phase = "unused"
           /\ c[r].owner = "nobody" <=> client[r].owner = "nobody",
         UNCHANGED <<streamVars, view, steps>>,
         logins' \in [Tokens -> {"none", "pending", "done"}],
         shown' \in ShownStates \ {"connected"},
         fetch' \in [token : Tokens \cup {Null}, answer : Views],
         fetch' # NoFetch => fetch'.token \in Tokens,
         unserved' \in BOOLEAN
  PROVE  DashboardInv'
<1> DEFINE new == [c[s] EXCEPT !.phase = "connecting", !.token = t, !.owner = "live"]
<1>1. /\ socket' = s /\ timer' = FALSE /\ client' = [c EXCEPT ![s] = new]
  BY DEF Connect
<1>2. /\ new \in Clients /\ new.phase = "connecting" /\ new.token = t
      /\ new.owner = "live" /\ new.handled = client[s].handled
  BY DEF Clients
<1> HIDE DEF new
<1>3. /\ client' \in [Sockets -> Clients] /\ client'[s] = new
      /\ \A r \in Sockets \ {s} : client'[r] = c[r]
  BY <1>1, <1>2
<1>4. client[s].phase = "unused"
  BY StreamAssumption DEF IsNew
<1>5. stream[s].phase # "open"
  BY <1>4 DEF DashboardInv, ClientInv
<1>6. ASSUME NEW r \in Sockets
      PROVE  ClientInv(r)'
  <2>1. ClientInv(r) /\ t # Null /\ stream' = stream
    BY Types DEF DashboardInv, streamVars
  <2>2. CASE r = s
    BY <1>1, <1>2, <1>3, <1>5, <2>1, <2>2 DEF ClientInv
  <2>3. CASE r # s
    BY <1>1, <1>3, <2>1, <2>3 DEF ClientInv
  <2> QED
    BY <2>2, <2>3
<1>7. ~SocketOpen' /\ token' # Null
  BY <1>1, <1>2, <1>3, Types DEF SocketOpen
<1>8. MountInv' /\ FetchInv' /\ ShownStateIsTrue'
  BY <1>1, <1>2, <1>3, <1>7 DEF MountInv, FetchInv, ShownStateIsTrue
<1> QED
  BY <1>1, <1>3, <1>6, <1>8, Types, BrowserKeepsInv

\* Logging in and out, and the timer.
LEMMA LoginStepsKeepInv ==
  ASSUME DashboardInv,
         (\E t \in Tokens : SubmitLogin(t) \/ ApplyToken(t)) \/ ClearAuth \/ Reconnect
  PROVE  DashboardInv'
<1>1. ASSUME NEW t \in Tokens, SubmitLogin(t)
      PROVE  DashboardInv'
  <2>1. /\ UNCHANGED <<streamVars, token, socket, client, timer, shown, view, fetch, unserved>>
        /\ logins' \in [Tokens -> {"none", "pending", "done"}] /\ steps' \in 0..MaxSteps
    BY <1>1, Types DEF SubmitLogin, Uncaused
  <2>2. (\A s \in Sockets : ClientInv(s)') /\ MountInv' /\ FetchInv' /\ ShownStateIsTrue'
    BY <2>1 DEF DashboardInv, ClientInv, MountInv, FetchInv, Fresh, ShownStateIsTrue,
                SocketOpen, streamVars
  <2> QED
    BY <2>1, <2>2, Types, BrowserKeepsInv
<1>2. ASSUME NEW t \in Tokens, ApplyToken(t)
      PROVE  DashboardInv'
  <2> DEFINE c == IF token = Null THEN client ELSE CleanedUp("replaced")
  <2>1. PICK s \in Sockets : IsNew(s) /\ Connect(s, t, c)
    BY <1>2, Zenon DEF ApplyToken
  <2>2. /\ token' = t /\ UNCHANGED <<streamVars, view, steps>>
        /\ logins' \in [Tokens -> {"none", "pending", "done"}]
    BY <1>2, Types DEF ApplyToken
  <2>3. c \in [Sockets -> Clients]
    BY Types, CleanupFacts DEF CleanedUp
  <2>4. ASSUME NEW r \in Sockets
        PROVE  /\ c[r].phase \notin {"connecting", "open"} /\ c[r].owner # "live"
               /\ c[r].token = client[r].token /\ c[r].handled = client[r].handled
               /\ c[r].phase = "unused" <=> client[r].phase = "unused"
               /\ c[r].owner = "nobody" <=> client[r].owner = "nobody"
    <3>1. CASE token = Null
      BY <3>1 DEF DashboardInv, ClientInv
    <3>2. CASE token # Null
      BY <3>2, CleanupFacts
    <3> QED
      BY <3>1, <3>2
  <2>5. /\ shown' \in ShownStates \ {"connected"}
        /\ fetch' \in [token : Tokens \cup {Null}, answer : Views]
        /\ fetch' # NoFetch => fetch'.token \in Tokens
        /\ unserved' \in BOOLEAN
    <3>1. CASE token = Null
      BY <1>2, <3>1, Types, ViewFacts DEF ApplyToken, FetchOnMount, ShownStates,
                                              DashboardInv, FetchInv
    <3>2. CASE token # Null
      BY <1>2, <3>2, Types DEF ApplyToken, ShownStates, DashboardInv, FetchInv
    <3> QED
      BY <3>1, <3>2
  <2> HIDE DEF c
  <2> QED
    BY <2>1, <2>2, <2>3, <2>4, <2>5, ConnectKeepsInv
<1>3. CASE ClearAuth
  <2>1. /\ token' = Null /\ client' = CleanedUp("unmounted") /\ timer' = FALSE
        /\ UNCHANGED <<streamVars, logins, socket, shown, view, fetch, unserved>>
        /\ steps' \in 0..MaxSteps
    BY <1>3, Types DEF ClearAuth, Uncaused
  <2>2. \A s \in Sockets :
          /\ client'[s].phase \notin {"connecting", "open"} /\ client'[s].owner # "live"
          /\ client'[s].token = client[s].token /\ client'[s].handled = client[s].handled
          /\ client'[s].phase = "unused" <=> client[s].phase = "unused"
          /\ client'[s].owner = "nobody" <=> client[s].owner = "nobody"
    BY <2>1, CleanupFacts
  <2>3. client' \in [Sockets -> Clients]
    BY <2>1, Types, CleanupFacts DEF CleanedUp
  <2>4. \A s \in Sockets : ClientInv(s)'
    BY <2>1, <2>2 DEF DashboardInv, ClientInv, streamVars
  <2>5. MountInv' /\ FetchInv' /\ ShownStateIsTrue'
    BY <2>1 DEF DashboardInv, MountInv, FetchInv, SocketOpen, ShownStateIsTrue
  <2> QED
    BY <2>1, <2>3, <2>4, <2>5, Types, BrowserKeepsInv
<1>4. CASE Reconnect
  <2>1. PICK s \in Sockets : IsNew(s) /\ Connect(s, token, client)
    BY <1>4 DEF Reconnect
  <2>2. timer = TRUE
    BY <1>4, Types, Zenon DEF Reconnect
  <2>3. token # Null /\ token \in Tokens /\ socket \in Sockets /\ client[socket].phase = "closed"
    BY <2>2, Types DEF DashboardInv, MountInv
  <2>4. \A r \in Sockets :
          /\ client[r].phase \notin {"connecting", "open"}
          /\ client[r].owner = "live" => client[r].token = token /\ client[r].phase = "closed"
    BY <2>3 DEF DashboardInv, ClientInv
  <2>5. /\ UNCHANGED <<streamVars, token, logins, view, fetch, unserved, steps>>
        /\ shown' \in ShownStates \ {"connected"}
    BY <1>4 DEF Reconnect, ShownStates
  <2>6. fetch # NoFetch => fetch.token \in Tokens
    BY DEF DashboardInv, FetchInv
  <2> QED
    BY <2>1, <2>3, <2>4, <2>5, <2>6, Types, ConnectKeepsInv
<1> QED
  BY <1>1, <1>2, <1>3, <1>4

LEMMA DashboardInitial == Init => DashboardInv
<1> SUFFICES ASSUME Init PROVE DashboardInv
  OBVIOUS
<1>1. StreamInv
  BY StreamInitial DEF Init
<1>2. TypeOK
  <2> DEFINE new == [phase |-> "unused", token |-> Null, owner |-> "nobody", handled |-> {}]
  <2>1. client = [s \in Sockets |-> new] /\ new \in Clients /\ new.phase = "unused"
    BY DEF Init, Clients
  <2> HIDE DEF new
  <2>2. /\ client \in [Sockets -> Clients]
        /\ \A s \in Sockets : client[s].phase \notin {"connecting", "open"}
    BY <2>1
  <2>3. steps \in 0..MaxSteps /\ shown \in ShownStates /\ StreamTypeOK
    BY <1>1, DashboardAssumption DEF Init, ShownStates, StreamInv
  <2>4. view \in Views /\ fetch \in [token : Tokens \cup {Null}, answer : Views]
    BY ViewFacts DEF Init
  <2> QED
    BY <2>2, <2>3, <2>4 DEF Init, TypeOK
<1>3. \A s \in Sockets : ClientInv(s)
  BY DEF Init, StreamInit, ClientInv
<1>4. MountInv /\ FetchInv /\ ShownStateIsTrue
  BY DEF Init, MountInv, FetchInv, ShownStateIsTrue, SocketOpen
<1> QED
  BY <1>1, <1>2, <1>3, <1>4 DEF DashboardInv

LEMMA DashboardStep ==
  ASSUME DashboardInv, [Next]_vars
  PROVE  DashboardInv' /\ [StreamNext]_streamVars
<1>1. CASE UNCHANGED vars
  <2>1. UNCHANGED streamVars /\ UNCHANGED clientVars
    BY <1>1 DEF vars
  <2>2. (\A s \in Sockets : ClientInv(s)') /\ MountInv' /\ FetchInv' /\ ShownStateIsTrue'
    BY <2>1 DEF DashboardInv, ClientInv, MountInv, FetchInv, Fresh, ShownStateIsTrue,
                SocketOpen, streamVars, clientVars
  <2>3. DashboardInv'
    BY <2>1, <2>2, Types, BrowserKeepsInv DEF clientVars
  <2> QED
    BY <2>1, <2>3
<1>2. CASE ServerStep
  BY <1>2, ServerStepsKeepInv, ServerStreams
<1>3. CASE AnswerFetch \/ ReceiveFetch \/ FailFetch \/ ForgetView \/ CreateJobSucceeds
  BY <1>3, FetchStepsKeepInv DEF AnswerFetch, ReceiveFetch, FailFetch, ForgetView,
                                 CreateJobSucceeds
<1>4. CASE (\E t \in Tokens : SubmitLogin(t) \/ ApplyToken(t)) \/ ClearAuth \/ Reconnect
  <2>1. UNCHANGED streamVars
    BY <1>4 DEF SubmitLogin, ApplyToken, ClearAuth, Reconnect
  <2> QED
    BY <1>4, <2>1, LoginStepsKeepInv
<1>5. ASSUME NEW s \in Sockets, OnOpen(s) \/ OnMessage(s) \/ OnClose(s) \/ LoseConnection(s)
      PROVE  DashboardInv' /\ UNCHANGED streamVars
  <2>1. UNCHANGED streamVars
    BY <1>5 DEF OnOpen, OnMessage, OnClose, LoseConnection, Closed
  <2> QED
    BY <1>5, <2>1, OpenSocketKeepsInv, CloseKeepsInv
<1> QED
  BY <1>1, <1>2, <1>3, <1>4, <1>5 DEF Next, SocketStep, ServerStep

LEMMA DashboardInvariance == Spec => []DashboardInv
<1>1. DashboardInv /\ [Next]_vars => DashboardInv'
  BY DashboardStep
<1> QED
  BY <1>1, DashboardInitial, PTL DEF Spec

-----------------------------------------------------------------------------
(* Theorems                                                                 *)

\* The variables have their types, and of all sockets the tab ever opened none but the
\* mounted effect's latest is opening or open.
THEOREM DashboardTypes == Spec => []TypeOK
<1>1. DashboardInv => TypeOK
  BY DEF DashboardInv
<1> QED
  BY <1>1, DashboardInvariance, PTL

\* Whatever the sockets of the tab do, the server behind them behaves as the stream handler
\* that JobStream specifies by itself.
THEOREM DashboardStreams == Spec => StreamSpec
<1>1. Init => StreamInit
  BY DEF Init
<1>2. DashboardInv /\ [Next]_vars => [StreamNext]_streamVars
  BY DashboardStep
<1> QED
  BY <1>1, <1>2, DashboardInvariance, PTL DEF Spec, StreamSpec

\* Polls, batches and equal timestamps lose no event: one is missed only if its
\* transaction was overtaken by that of an event that follows it in cursor order.
THEOREM OnlyOvertakenMissed == Spec => []OnlyOvertakenEventsMissed
BY DashboardStreams, StreamMissesOnlyOvertaken, PTL

\* A connection gets committed events of its own tenant, each once and in cursor order.
THEOREM SentInOrder == Spec => []SentOnceInOrder
BY DashboardStreams, StreamSendsInOrder, PTL

\* However requests, messages, closes and token changes interleave: while the socket is
\* open and no fetch is under way, the dashboard shows the list of its own tenant with every
\* event that socket delivered, unless a fetch failed or one that was asked for met the
\* first load of the list.
THEOREM QuietListFresh == Spec => []QuietListIsFresh
<1>1. DashboardInv => QuietListIsFresh
  <2> SUFFICES ASSUME DashboardInv, SocketOpen, fetch = NoFetch, ~unserved
               PROVE  /\ view.tenant = TokenTenant[token]
                      /\ client[socket].handled \subseteq view.seen
    BY DEF QuietListIsFresh
  <2>1. unserved = FALSE
    BY Types
  <2> QED
    BY <2>1 DEF DashboardInv, FetchInv, Fresh
<1> QED
  BY <1>1, DashboardInvariance, PTL

\* The screen says "connected" only while the effect's socket is open, and says something
\* else of an open socket only after the late close of a replaced token's socket.
THEOREM ShownStateTrue == Spec => []ShownStateIsTrue
<1>1. DashboardInv => ShownStateIsTrue
  BY DEF DashboardInv
<1> QED
  BY <1>1, DashboardInvariance, PTL
=============================================================================
