----------------------------- MODULE Dashboard ------------------------------
(***************************************************************************)
(* A browser tab that shows the job list of the user who is logged in: the *)
(* access token, the effect that keeps a socket to the stream open, and    *)
(* the cached job list that the stream's messages invalidate.              *)
(*                                                                         *)
(* The socket, React's effects and the query cache are outside src; they   *)
(* are modelled as the hooks use them.  The job list is represented by the *)
(* set of committed events it reflects.                                    *)
(***************************************************************************)
EXTENDS JobStream

CONSTANTS
  Tokens,
  TokenTenant, \* the tenant of the user a token was issued to
  MaxSteps     \* bound: steps that nothing makes happen (see Uncaused)

ASSUME DashboardAssumption ==
  /\ TokenTenant \in [Tokens -> Tenants]
  /\ MaxSteps \in Nat
  /\ Null \notin Tokens \cup Sockets

VARIABLES
  token,    \* useAuth's state; the dashboard is mounted while there is one
  logins,   \* how far the login or signup that brings each token has come
  socket,   \* the latest socket of the effect
  client,   \* what the browser knows of each socket
  timer,    \* reconnectTimer is set
  shown,    \* the stream state on the screen
  view,     \* the cached job list
  fetch,    \* the request for it that is under way
  unserved, \* no fetch began since something asked for one
  steps     \* uncaused steps so far

clientVars ==
  <<token, logins, socket, client, timer, shown, view, fetch, unserved, steps>>
vars == <<streamVars, clientVars>>

ShownStates == {"connecting", "connected", "reconnecting", "disconnected"}

\* Whose callbacks a socket has: of the effect that runs, of an effect that was cleaned
\* up for another token, of a screen that is gone.
Clients == [phase : {"unused", "connecting", "open", "closing", "closed"},
            token : Tokens \cup {Null},
            owner : {"nobody", "live", "replaced", "unmounted"},
            handled : SUBSET Events]

NoView == [tenant |-> Null, seen |-> {}]
Views == [tenant : Tenants \cup {Null}, seen : SUBSET Events]

NoFetch == [token |-> Null, answer |-> NoView]

Init ==
  /\ StreamInit
  /\ token = Null
  /\ logins = [t \in Tokens |-> "none"]
  /\ socket = Null
  /\ client = [s \in Sockets |-> [phase |-> "unused", token |-> Null, owner |-> "nobody",
                                  handled |-> {}]]
  /\ timer = FALSE
  /\ shown = "connecting"
  /\ view = NoView
  /\ fetch = NoFetch
  /\ unserved = FALSE
  /\ steps = 0

\* What users, writers and failures do, together at most MaxSteps times.
Uncaused ==
  /\ steps < MaxSteps
  /\ steps' = steps + 1

-----------------------------------------------------------------------------
(* The query cache                                                          *)

Ask(t) == [token |-> t, answer |-> NoView]

\* invalidateQueries: a fetch under way is replaced, but the first one, while there is no
\* data yet, goes on.
Invalidate ==
  IF view = NoView /\ fetch # NoFetch
  THEN unserved' = TRUE /\ UNCHANGED fetch
  ELSE fetch' = Ask(token) /\ unserved' = FALSE

\* A query that is mounted fetches, or joins the fetch under way.
FetchOnMount(t) ==
  IF fetch # NoFetch
  THEN unserved' = TRUE /\ UNCHANGED fetch
  ELSE fetch' = Ask(t) /\ unserved' = FALSE

\* The server reads the list with the token of the request.
AnswerFetch ==
  /\ fetch # NoFetch /\ fetch.answer = NoView
  /\ LET t == TokenTenant[fetch.token]
     IN  fetch' = [fetch EXCEPT !.answer =
                     [tenant |-> t, seen |-> {e \in events : e.tenant = t}]]
  /\ UNCHANGED <<streamVars, token, logins, socket, client, timer, shown, view,
                 unserved, steps>>

ReceiveFetch ==
  /\ fetch.answer # NoView
  /\ view' = fetch.answer
  /\ fetch' = NoFetch
  /\ UNCHANGED <<streamVars, token, logins, socket, client, timer, shown, unserved,
                 steps>>

\* retry is off: the list stays as it was.
FailFetch ==
  /\ fetch # NoFetch
  /\ Uncaused
  /\ fetch' = NoFetch
  /\ unserved' = TRUE
  /\ UNCHANGED <<streamVars, token, logins, socket, client, timer, shown, view>>

\* Nobody shows the list for long enough.
ForgetView ==
  /\ token = Null /\ fetch = NoFetch /\ view # NoView
  /\ view' = NoView
  /\ UNCHANGED <<streamVars, token, logins, socket, client, timer, shown, fetch,
                 unserved, steps>>

\* createJobMutation: its onSuccess asks for the list again.
CreateJobSucceeds ==
  /\ token # Null
  /\ Uncaused
  /\ Invalidate
  /\ UNCHANGED <<streamVars, token, logins, socket, client, timer, shown, view>>

-----------------------------------------------------------------------------
(* The effect of useJobStatusStream                                         *)

\* The socket that a "new WebSocket" creates.
IsNew(s) == \A r \in Sockets : client[r].phase = "unused" <=> s <= r

\* Mutant: the cleanup forgets the socket.
CleanedUpTimerOnly(owner) ==
  [s \in Sockets |->
     [client[s] EXCEPT !.owner = IF @ = "live" THEN owner ELSE @]]

\* The effect's cleanup: its socket closes, its timer is cleared.  A screen that is
\* unmounted takes earlier effects with it.
CleanedUp(owner) ==
  [s \in Sockets |->
     [client[s] EXCEPT
        !.phase = IF @ \in {"connecting", "open"} THEN "closing" ELSE @,
        !.owner = IF @ = "live" \/ (@ = "replaced" /\ owner = "unmounted")
                  THEN owner ELSE @]]

\* connect() of the effect for token t, on the sockets c.
Connect(s, t, c) ==
  /\ socket' = s
  /\ client' = [c EXCEPT ![s].phase = "connecting", ![s].token = t, ![s].owner = "live"]
  /\ timer' = FALSE

\* onSuccess of login or signup.  Both forms can be pending, so a token can replace
\* another one while the dashboard is mounted; the list is then not asked for again.
ApplyToken(t) ==
  /\ logins[t] = "pending"
  /\ logins' = [logins EXCEPT ![t] = "done"]
  /\ token' = t
  /\ \E s \in Sockets :
       IsNew(s) /\ Connect(s, t,
         IF token = Null THEN client ELSE CleanedUp("replaced"))
  /\ IF token = Null
     THEN shown' = "connecting" /\ FetchOnMount(t)
     ELSE /\ shown' = IF shown = "disconnected" THEN "reconnecting" ELSE "connecting"
          /\ UNCHANGED <<fetch, unserved>>
  /\ UNCHANGED <<streamVars, view, steps>>

\* The login screen is there while there is no token.
SubmitLogin(t) ==
  /\ token = Null
  /\ logins[t] = "none"
  /\ Uncaused
  /\ logins' = [logins EXCEPT ![t] = "pending"]
  /\ UNCHANGED <<streamVars, token, socket, client, timer, shown, view, fetch, unserved>>

\* logout, or a 401 or 403 of the current-user query, whichever token that had.
ClearAuth ==
  /\ token # Null
  /\ Uncaused
  /\ token' = Null
  /\ client' = CleanedUp("unmounted")
  /\ timer' = FALSE
  /\ UNCHANGED <<streamVars, logins, socket, shown, view, fetch, unserved>>

\* Mutant: what happened while no socket was open is not asked for.
OnOpenQuietly(s) ==
  /\ client[s].phase = "connecting" /\ stream[s].phase = "open"
  /\ client' = [client EXCEPT ![s].phase = "open"]
  /\ shown' = "connected"
  /\ UNCHANGED <<streamVars, token, logins, socket, timer, view, fetch, unserved, steps>>

OnOpen(s) ==
  /\ client[s].phase = "connecting" /\ stream[s].phase = "open"
  /\ client' = [client EXCEPT ![s].phase = "open"]
  /\ shown' = "connected"
  /\ Invalidate
  /\ UNCHANGED <<streamVars, token, logins, socket, timer, view, steps>>

\* Mutant: a message does not ask for the list.
OnMessageQuietly(s) ==
  /\ client[s].phase = "open"
  /\ \E e \in stream[s].sent \ client[s].handled :
       /\ \A f \in stream[s].sent \ client[s].handled : f = e \/ Precedes(e, f)
       /\ client' = [client EXCEPT ![s].handled = @ \cup {e}]
  /\ UNCHANGED <<streamVars, token, logins, socket, timer, shown, view, fetch, unserved,
                 steps>>

\* Messages arrive in the order they were sent.
OnMessage(s) ==
  /\ client[s].phase = "open"
  /\ \E e \in stream[s].sent \ client[s].handled :
       /\ \A f \in stream[s].sent \ client[s].handled : f = e \/ Precedes(e, f)
       /\ client' = [client EXCEPT ![s].handled = @ \cup {e}]
  /\ Invalidate
  /\ UNCHANGED <<streamVars, token, logins, socket, timer, shown, view, steps>>

\* Mutant: shouldReconnect is not looked at.
ShownAfterCloseAlways(s) == "reconnecting"

\* The old effect's callback sees its own shouldReconnect, and the screen's state.
ShownAfterClose(s) ==
  CASE client[s].owner = "live" -> "reconnecting"
    [] client[s].owner = "replaced" -> "disconnected"
    [] OTHER -> shown


\* shouldReconnect
Reconnects(s) == client[s].owner = "live"

\* The close event of a socket.
Closed(s) ==
  /\ client' = [client EXCEPT ![s].phase = "closed"]
  /\ shown' = ShownAfterClose(s)
  /\ timer' = (timer \/ Reconnects(s))
  /\ UNCHANGED <<streamVars, token, logins, socket, view, fetch, unserved>>

OnClose(s) ==
  /\ \/ client[s].phase = "closing"
     \/ client[s].phase \in {"connecting", "open"} /\ stream[s].phase = "ended"
  /\ Closed(s)
  /\ UNCHANGED steps

\* The network breaks; the server may not notice yet.
LoseConnection(s) ==
  /\ client[s].phase \in {"connecting", "open"} /\ stream[s].phase # "ended"
  /\ Uncaused
  /\ Closed(s)

Reconnect ==
  /\ timer
  /\ \E s \in Sockets : IsNew(s) /\ Connect(s, token, client)
  /\ shown' = IF shown = "disconnected" THEN "reconnecting" ELSE "connecting"
  /\ UNCHANGED <<streamVars, token, logins, view, fetch, unserved, steps>>
-----------------------------------------------------------------------------
(* Composition with the server                                              *)

\* The handshake reaches the server, which may refuse it.
AcceptSocket(s) ==
  /\ client[s].phase = "connecting"
  /\ Accept(s, TokenTenant[client[s].token])
  /\ UNCHANGED clientVars

RefuseSocket(s) ==
  /\ client[s].phase = "connecting"
  /\ Uncaused
  /\ Refuse(s)
  /\ UNCHANGED <<token, logins, socket, client, timer, shown, view, fetch, unserved>>

\* The handler notices a client that is gone, or fails by itself.
EndSocket(s) ==
  /\ EndStream(s)
  /\ IF client[s].phase \in {"closing", "closed"} THEN UNCHANGED steps
     ELSE Uncaused
  /\ UNCHANGED <<token, logins, socket, client, timer, shown, view, fetch, unserved>>

Poll(s) == PollStep(s) /\ UNCHANGED clientVars

SocketStep(s) ==
  \/ AcceptSocket(s)
  \/ Poll(s)
  \/ OnOpen(s)
  \/ OnMessage(s)
  \/ OnClose(s)

Next ==
  \/ Tick /\ UNCHANGED clientVars
  \/ /\ WriterStep /\ Uncaused
     /\ UNCHANGED <<token, logins, socket, client, timer, shown, view, fetch, unserved>>
  \/ \E s \in Sockets : SocketStep(s) \/ LoseConnection(s)
                        \/ RefuseSocket(s) \/ EndSocket(s)
  \/ AnswerFetch \/ ReceiveFetch \/ FailFetch \/ ForgetView
  \/ \E t \in Tokens : SubmitLogin(t) \/ ApplyToken(t)
  \/ ClearAuth
  \/ CreateJobSucceeds
  \/ Reconnect

Spec == Init /\ [][Next]_vars

\* The loops of the handler and the browser's event loop go on; nobody has to log in, to
\* write events or to fail.
Fairness ==
  /\ \A s \in Sockets : WF_vars(AcceptSocket(s)) /\ WF_vars(Poll(s)) /\ WF_vars(OnOpen(s))
                          /\ WF_vars(OnMessage(s)) /\ WF_vars(OnClose(s))
  /\ WF_vars(AnswerFetch) /\ WF_vars(ReceiveFetch) /\ WF_vars(Reconnect)

FairSpec == Spec /\ Fairness

-----------------------------------------------------------------------------
(* Properties                                                               *)

\* The variables hold values of their types, and no socket but the one of the mounted
\* dashboard's effect is opening or open.
TypeOK ==
  /\ StreamTypeOK
  /\ token \in Tokens \cup {Null}
  /\ logins \in [Tokens -> {"none", "pending", "done"}]
  /\ socket \in Sockets \cup {Null}
  /\ client \in [Sockets -> Clients]
  /\ timer \in BOOLEAN
  /\ shown \in ShownStates
  /\ view \in Views
  /\ fetch \in [token : Tokens \cup {Null}, answer : Views]
  /\ unserved \in BOOLEAN
  /\ steps \in 0..MaxSteps
  /\ \A s \in Sockets :
       client[s].phase \in {"connecting", "open"} => token # Null /\ s = socket

SocketOpen == token # Null /\ client[socket].phase = "open"

\* When no fetch is under way, the list shows every event the open socket delivered, and
\* the list of the right tenant, whoever was logged in before and however requests,
\* messages and token changes interleaved.  The exceptions are a list asked for again
\* while its first load was under way (the load is not repeated) and a failed fetch.
QuietListIsFresh ==
  SocketOpen /\ fetch = NoFetch /\ ~unserved =>
    /\ view.tenant = TokenTenant[token]
    /\ client[socket].handled \subseteq view.seen

\* "connected" is shown only while the effect's socket is open, and anything else is shown
\* of an open socket only if the late close of a replaced token's socket overwrote it.
ShownStateIsTrue ==
  token # Null =>
    /\ shown = "connected" => SocketOpen
    /\ SocketOpen /\ shown # "connected" =>
         /\ shown = "disconnected"
         /\ \E s \in Sockets : client[s].owner = "replaced" /\ client[s].phase = "closed"


\* A committed event ahead of the cursor of the dashboard's socket gets onto the screen,
\* unless the socket is lost or its list is not being loaded.
NewEventsAreShown ==
  \A i \in EventIds :
    SocketOpen /\ i \in {e.id : e \in Pending(socket)}
      ~> i \in {e.id : e \in view.seen} \/ unserved \/ ~SocketOpen

=============================================================================
