---------------------------- MODULE Credentials -----------------------------
(***************************************************************************)
(* Accounts and API keys: register, log in, create, use and revoke a key.  *)
(*                                                                         *)
(* Each request is one READ COMMITTED transaction, and its commit follows  *)
(* its response.  A row that an open transaction updated is locked until   *)
(* that transaction ends; a unique email makes an insert wait for an       *)
(* uncommitted row with the same email.                                    *)
(***************************************************************************)
EXTENDS Integers, FiniteSets

CONSTANTS
  Requests,
  Op,        \* which endpoint a request is for
  EmailOf,   \* of the account it registers or acts for, normalised
  KeyOf,     \* the key it uses or revokes, named by the request that creates it
  After,     \* the request whose response its client waits for, or Null
  Emails,
  Existing,  \* registrations and key creations that are committed at the start
  MaxAborts, \* bound: requests that die on the way
  MaxOperatorSteps, \* bound: accounts an operator deactivates, keys that expire
  Null

Ops == {"register", "login", "create_key", "use_key", "revoke_key"}
Responses == {"ok", "unauthorized", "forbidden", "conflict", "not_found"}

ASSUME CredentialsAssumption ==
  /\ Op \in [Requests -> Ops]
  /\ EmailOf \in [Requests -> Emails]
  /\ KeyOf \in [Requests -> Requests \cup {Null}]
  /\ After \in [Requests -> Requests \cup {Null}]
  /\ Existing \subseteq {r \in Requests : Op[r] \in {"register", "create_key"}}
  /\ \A q, r \in Existing :
       Op[q] = "register" /\ Op[r] = "register" /\ EmailOf[q] = EmailOf[r] => q = r
  /\ \A r \in Existing : Op[r] = "create_key" =>
       \E q \in Existing : Op[q] = "register" /\ EmailOf[q] = EmailOf[r]
  /\ \A r \in Requests : Op[r] \in {"use_key", "revoke_key"} =>
       KeyOf[r] \in Requests /\ Op[KeyOf[r]] = "create_key"
  /\ \A r \in Requests : After[r] # Null =>
       /\ Op[r] = "login" =>
            Op[After[r]] = "register" /\ EmailOf[After[r]] = EmailOf[r]
       /\ Op[r] \in {"use_key", "revoke_key"} => After[r] = KeyOf[r]
  /\ MaxAborts \in Nat /\ MaxOperatorSteps \in Nat
  /\ Null \notin Requests \cup Responses

VARIABLES
  users,   \* committed accounts: user, tenant, membership and quota of a registration
  keys,    \* committed rows of api_keys
  step,    \* how far each request has come
  read,    \* the row a request read and is going to update
  answer,  \* its response
  aborts,
  operator \* steps of operators and of the clock so far

vars == <<users, keys, step, read, answer, aborts, operator>>

\* Users and keys are named by the requests that insert them.
User == [user_active : BOOLEAN, tenant_active : BOOLEAN, logged_in : BOOLEAN]
NewUser == [user_active |-> TRUE, tenant_active |-> TRUE, logged_in |-> FALSE]
Key == [revoked : BOOLEAN, expired : BOOLEAN, used : BOOLEAN]
NewKey == [revoked |-> FALSE, expired |-> FALSE, used |-> FALSE]
Absent == [absent |-> TRUE]

Registrations == {r \in Requests : Op[r] = "register"}
Creations == {r \in Requests : Op[r] = "create_key"}

Answers == Responses \cup {Null}

\* "authenticated": the token was accepted.  "checked": the row to update was read.
\* "responded": everything is written, the commit is left.
Steps == {"new", "authenticated", "checked", "responded", "done", "refused", "aborted"}
Open == {"authenticated", "checked", "responded"}

Init ==
  /\ users = [r \in Registrations |-> IF r \in Existing THEN NewUser ELSE Absent]
  /\ keys = [r \in Creations |-> IF r \in Existing THEN NewKey ELSE Absent]
  /\ step = [r \in Requests |-> IF r \in Existing THEN "done" ELSE "new"]
  /\ read = [r \in Requests |-> Absent]
  /\ answer = [r \in Requests |-> IF r \in Existing THEN "ok" ELSE Null]
  /\ aborts = 0
  /\ operator = 0

-----------------------------------------------------------------------------
Goto(r, s) == step' = [step EXCEPT ![r] = s]

\* An HTTPException rolls back, the response follows.
Refuse(r, why) ==
  /\ Goto(r, "refused")
  /\ answer' = [answer EXCEPT ![r] = why]
  /\ UNCHANGED <<users, keys, read, aborts, operator>>

\* Mutant: no commit follows the response.
RespondOnly(r) ==
  /\ Goto(r, "done")
  /\ answer' = [answer EXCEPT ![r] = "ok"]
  /\ UNCHANGED <<users, keys, read, aborts, operator>>

\* The response is sent before the dependency commits.
Respond(r) ==
  /\ Goto(r, "responded")
  /\ answer' = [answer EXCEPT ![r] = "ok"]
  /\ UNCHANGED <<users, keys, read, aborts, operator>>

Proceed(r, s, row) ==
  /\ Goto(r, s)
  /\ read' = [read EXCEPT ![r] = row]
  /\ UNCHANGED <<users, keys, answer, aborts, operator>>

\* A client that needs another response first has got it: a signup logs in after the
\* registration, and a key is shown only by the response to its creation.
Ready(r) == After[r] # Null => answer[After[r]] = "ok"

\* Mutant: inactive users are not found.
ActiveAccount(e) ==
  {u \in Registrations : users[u] # Absent /\ users[u].user_active /\ EmailOf[u] = e}

\* get_user_by_email
Account(e) == {u \in Registrations : users[u] # Absent /\ EmailOf[u] = e}

-----------------------------------------------------------------------------
(* POST /auth/register                                                      *)

\* Mutant: no unique constraint.
NeverTaken(r) == FALSE

Taken(r) == Account(EmailOf[r]) # {}

\* The first flush inserts tenant and user: it waits for an uncommitted user of the same
\* email, and fails on a committed one.
Register(r) ==
  /\ Op[r] = "register" /\ step[r] = "new" /\ Ready(r)
  /\ \A q \in Registrations : EmailOf[q] = EmailOf[r] => step[q] # "responded"
  /\ IF Taken(r) THEN Refuse(r, "conflict") ELSE Respond(r)

-----------------------------------------------------------------------------
(* POST /auth/login                                                         *)

\* The password is right: any other is a request that is refused and changes nothing.
LookUpUser(r) ==
  /\ Op[r] = "login" /\ step[r] = "new" /\ Ready(r)
  /\ \/ Account(EmailOf[r]) = {} /\ Refuse(r, "unauthorized")
     \/ \E u \in Account(EmailOf[r]) :
          IF users[u].user_active THEN Proceed(r, "checked", users[u])
          ELSE Refuse(r, "forbidden")

HoldsUser(q, e) == Op[q] = "login" /\ step[q] = "responded" /\ EmailOf[q] = e

\* update_last_login_at waits for the row.
UpdateLastLogin(r) ==
  /\ Op[r] = "login" /\ step[r] = "checked"
  /\ \A q \in Requests : ~HoldsUser(q, EmailOf[r])
  /\ Respond(r)

\* Mutant: the UPDATE writes all columns of the user as they were read.
LoginWritesRow(current, copy) ==
  [copy EXCEPT !.logged_in = TRUE, !.tenant_active = current.tenant_active]

\* The UPDATE has the changed column only.
LoginWrites(current, copy) == [current EXCEPT !.logged_in = TRUE]

-----------------------------------------------------------------------------
(* /api-keys with an access token                                           *)

\* resolve_user_context
Authenticate(r) ==
  /\ Op[r] \in {"create_key", "revoke_key"} /\ step[r] = "new" /\ Ready(r)
  /\ \E u \in Account(EmailOf[r]) :
       IF users[u].user_active /\ users[u].tenant_active
       THEN Proceed(r, "authenticated", Absent)
       ELSE Refuse(r, "forbidden")

CreateKey(r) ==
  /\ Op[r] = "create_key" /\ step[r] = "authenticated"
  /\ Respond(r)

\* get_tenant_api_key_or_404: only keys of the user's tenant.  A key that is revoked
\* already is answered like one that is revoked now, without a write.
LookUpOwnKey(r) ==
  /\ Op[r] = "revoke_key" /\ step[r] = "authenticated"
  /\ LET k == KeyOf[r]
     IN  IF keys[k] = Absent \/ EmailOf[k] # EmailOf[r] THEN Refuse(r, "not_found")
         ELSE IF keys[k].revoked THEN Respond(r)
         ELSE Proceed(r, "checked", keys[k])

-----------------------------------------------------------------------------
(* A request with an X-API-Key header                                       *)

\* resolve_api_key_context up to its update.
LookUpKey(r) ==
  /\ Op[r] = "use_key" /\ step[r] = "new" /\ Ready(r)
  /\ LET k == KeyOf[r]
     IN  IF keys[k] = Absent THEN Refuse(r, "unauthorized")
         ELSE IF \E u \in Account(EmailOf[k]) : ~users[u].tenant_active
              THEN Refuse(r, "forbidden")
         ELSE IF keys[k].revoked \/ keys[k].expired THEN Refuse(r, "forbidden")
         ELSE Proceed(r, "checked", keys[k])

\* Mutant: the row stays locked when its transaction has ended.
HoldsKeyForEver(q, k) ==
  /\ Op[q] \in {"use_key", "revoke_key"}
  /\ step[q] \in {"responded", "done"} /\ KeyOf[q] = k /\ read[q] # Absent

\* The UPDATE of last_used_at, or of is_active and revoked_at, locks the key's row.
HoldsKey(q, k) ==
  /\ Op[q] \in {"use_key", "revoke_key"}
  /\ step[q] = "responded" /\ KeyOf[q] = k /\ read[q] # Absent

UpdateKey(r) ==
  /\ Op[r] \in {"use_key", "revoke_key"} /\ step[r] = "checked"
  /\ \A q \in Requests : ~HoldsKey(q, KeyOf[r])
  /\ Respond(r)

\* Mutant: the UPDATE writes all columns as they were read.
UseWritesRow(current, copy) == [copy EXCEPT !.used = TRUE, !.expired = current.expired]

UseWrites(current, copy) == [current EXCEPT !.used = TRUE]

-----------------------------------------------------------------------------
(* The end of the transaction                                               *)

\* session.commit() after the yield
Commit(r) ==
  /\ step[r] = "responded"
  /\ Goto(r, "done")
  /\ users' = [u \in Registrations |->
       CASE u = r -> NewUser
         [] Op[r] = "login" /\ u \in Account(EmailOf[r]) -> LoginWrites(users[u], read[r])
         [] OTHER -> users[u]]
  /\ keys' = [k \in Creations |->
       CASE k = r -> NewKey
         [] Op[r] = "use_key" /\ KeyOf[r] = k -> UseWrites(keys[k], read[r])
         [] Op[r] = "revoke_key" /\ KeyOf[r] = k -> [keys[k] EXCEPT !.revoked = TRUE]
         [] OTHER -> keys[k]]
  /\ UNCHANGED <<read, answer, aborts, operator>>

\* The commit fails, or the process dies.
AbortRequest(r) ==
  /\ step[r] \in Open
  /\ aborts < MaxAborts
  /\ aborts' = aborts + 1
  /\ Goto(r, "aborted")
  /\ UNCHANGED <<users, keys, read, answer, operator>>

\* No code clears is_active of a user or a tenant: it is done in the database, and waits
\* for the user's row as everybody does.
Deactivate(u) ==
  /\ operator < MaxOperatorSteps
  /\ operator' = operator + 1
  /\ users[u] # Absent
  /\ \/ /\ \A q \in Requests : ~HoldsUser(q, EmailOf[u])
        /\ users' = [users EXCEPT ![u].user_active = FALSE]
     \/ users' = [users EXCEPT ![u].tenant_active = FALSE]
  /\ UNCHANGED <<keys, step, read, answer, aborts>>

\* expires_at is over.
Expire(k) ==
  /\ operator < MaxOperatorSteps
  /\ operator' = operator + 1
  /\ keys[k] # Absent
  /\ keys' = [keys EXCEPT ![k].expired = TRUE]
  /\ UNCHANGED <<users, step, read, answer, aborts>>

HandleRequest(r) ==
  \/ Register(r)
  \/ LookUpUser(r) \/ UpdateLastLogin(r)
  \/ Authenticate(r) \/ CreateKey(r) \/ LookUpOwnKey(r)
  \/ LookUpKey(r) \/ UpdateKey(r)
  \/ Commit(r)

Next ==
  \/ \E r \in Requests : HandleRequest(r) \/ AbortRequest(r)
  \/ \E u \in Registrations : Deactivate(u)
  \/ \E k \in Creations : Expire(k)

Spec == Init /\ [][Next]_vars

\* A request that began goes on; PostgreSQL serves those that wait for a row.
Fairness ==
  \A r \in Requests : WF_vars(step[r] \in Open /\ HandleRequest(r))

FairSpec == Spec /\ Fairness

-----------------------------------------------------------------------------
(* Properties                                                               *)

\* The variables hold values of their types, and a row exists once its creation is done.
TypeOK ==
  /\ users \in [Registrations -> User \cup {Absent}]
  /\ keys \in [Creations -> Key \cup {Absent}]
  /\ step \in [Requests -> Steps]
  /\ read \in [Requests -> User \cup Key \cup {Absent}]
  /\ answer \in [Requests -> Answers]
  /\ aborts \in 0..MaxAborts
  /\ operator \in 0..MaxOperatorSteps
  /\ \A u \in Registrations : step[u] = "done" <=> users[u] # Absent
  /\ \A k \in Creations : step[k] = "done" <=> keys[k] # Absent

\* Of the registrations with one email at most one becomes an account, and one that is
\* refused as a duplicate is refused because of an account that stays: a registration
\* that waited for another one which then failed gets its own.
OneAccountPerEmail ==
  \A q \in Registrations :
    /\ users[q] # Absent => Account(EmailOf[q]) = {q}
    /\ answer[q] = "conflict" => Account(EmailOf[q]) # {}

\* A client that got its credential from a response (a signup that logs in, a key just
\* created) is refused as unknown only while the credential's transaction has not
\* committed, or failed to.
UnknownOnlyBeforeCommit ==
  [][\A r \in Requests :
       After[r] # Null /\ answer[r] # answer'[r] /\ answer'[r] = "unauthorized"
         => step[After[r]] \in {"responded", "aborted"}]_vars

\* A use of the key that is checked now is refused.
Barred(k) ==
  /\ keys[k] # Absent
  /\ \/ keys[k].revoked \/ keys[k].expired
     \/ \E u \in Account(EmailOf[k]) : ~users[u].tenant_active

\* A request that begins when its key is revoked, expired or of an inactive tenant is never
\* let in, whatever the requests that read the key before go on to write.  One that was
\* checked before is let in: resolve_api_key_context does not check again when its UPDATE
\* has waited for the row.
BarredKeysAdmitNoNewUse ==
  \A r \in {q \in Requests : Op[q] = "use_key"} :
    [](step[r] = "new" /\ Barred(KeyOf[r]) => [](answer[r] # "ok"))

\* A key that is revoked, and a user or tenant that is deactivated, stays so, whatever
\* requests that read the row before go on to write.
NothingReactivated ==
  [][/\ \A k \in Creations : keys[k] # Absent =>
          keys'[k] # Absent /\ (keys[k].revoked => keys'[k].revoked)
     /\ \A u \in Registrations : users[u] # Absent =>
          /\ users'[u] # Absent
          /\ ~users[u].user_active => ~users'[u].user_active
          /\ ~users[u].tenant_active => ~users'[u].tenant_active]_vars

\* No request that began waits for ever for a row.
EveryRequestEnds == \A r \in Requests : step[r] \in Open ~> step[r] \notin Open

=============================================================================
