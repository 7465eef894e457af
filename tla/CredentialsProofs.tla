------------------------- MODULE CredentialsProofs --------------------------
(* Proofs about Credentials, for any requests, emails, keys and order in      *)
(* which clients wait for each other, and any number of failures.             *)
EXTENDS Credentials, TLAPS

-----------------------------------------------------------------------------
(* The inductive invariant                                                  *)

\* A response "ok" is given with the last statement, before the commit.
AnswerInv ==
  \A r \in Requests : answer[r] = "ok" => step[r] \in {"responded", "done", "aborted"}

\* A request has read the key it is about to update; a revocation that read none found
\* the key revoked.
ReadInv ==
  \A r \in Requests :
    /\ step[r] \in {"new", "authenticated"} => read[r] = Absent
    /\ Op[r] \in {"use_key", "revoke_key"} /\ step[r] \in {"checked", "responded"} =>
         keys[KeyOf[r]] # Absent
    /\ Op[r] \in {"use_key", "revoke_key"} /\ step[r] = "checked" => read[r] # Absent
    /\ Op[r] = "use_key" /\ step[r] = "responded" => read[r] # Absent
    /\ Op[r] = "revoke_key" /\ step[r] = "responded" /\ read[r] = Absent =>
         keys[KeyOf[r]].revoked

\* A key's row has one writer.
KeyLockInv ==
  \A k \in Creations : \A q, r \in Requests : HoldsKey(q, k) /\ HoldsKey(r, k) => q = r

\* An email has one row, committed or not.
Inserted(q) == users[q] # Absent \/ step[q] = "responded"
EmailInv ==
  \A q, r \in Registrations :
    Inserted(q) /\ Inserted(r) /\ EmailOf[q] = EmailOf[r] => q = r

\* A duplicate was refused because of an account.
ConflictInv ==
  \A q \in Registrations : answer[q] = "conflict" =>
    \E u \in Registrations : users[u] # Absent /\ EmailOf[u] = EmailOf[q]

CredentialsInv ==
  TypeOK /\ AnswerInv /\ ReadInv /\ KeyLockInv /\ EmailInv /\ ConflictInv

-----------------------------------------------------------------------------
(* Rows                                                                     *)

LEMMA RowTypes ==
  /\ NewUser \in User /\ NewKey \in Key
  /\ Absent \notin User /\ Absent \notin Key
  /\ ~NewKey.revoked /\ NewUser.user_active /\ NewUser.tenant_active
BY DEF NewUser, User, NewKey, Key, Absent

\* What a write changes of a user, and what it keeps.
LEMMA UserWrites ==
  ASSUME NEW u \in User
  PROVE  /\ [u EXCEPT !.logged_in = TRUE] \in User
         /\ [u EXCEPT !.logged_in = TRUE].user_active = u.user_active
         /\ [u EXCEPT !.logged_in = TRUE].tenant_active = u.tenant_active
         /\ [u EXCEPT !.user_active = FALSE] \in User
         /\ ~[u EXCEPT !.user_active = FALSE].user_active
         /\ [u EXCEPT !.user_active = FALSE].tenant_active = u.tenant_active
         /\ [u EXCEPT !.tenant_active = FALSE] \in User
         /\ [u EXCEPT !.tenant_active = FALSE].user_active = u.user_active
         /\ ~[u EXCEPT !.tenant_active = FALSE].tenant_active
BY DEF User

\* What a write changes of a key, and what it keeps.
LEMMA KeyWrites ==
  ASSUME NEW k \in Key
  PROVE  /\ [k EXCEPT !.used = TRUE] \in Key
         /\ [k EXCEPT !.used = TRUE].revoked = k.revoked
         /\ [k EXCEPT !.used = TRUE].expired = k.expired
         /\ [k EXCEPT !.revoked = TRUE] \in Key
         /\ [k EXCEPT !.revoked = TRUE].revoked
         /\ [k EXCEPT !.revoked = TRUE].expired = k.expired
         /\ [k EXCEPT !.expired = TRUE] \in Key
         /\ [k EXCEPT !.expired = TRUE].revoked = k.revoked
         /\ [k EXCEPT !.expired = TRUE].expired
BY DEF Key

\* Requests are about keys that some request creates.
LEMMA KeysAreCreated ==
  /\ Registrations \subseteq Requests /\ Creations \subseteq Requests
  /\ \A r \in Requests : Op[r] \in {"use_key", "revoke_key"} => KeyOf[r] \in Creations
BY CredentialsAssumption DEF Registrations, Creations

-----------------------------------------------------------------------------
(* Steps of a request before its commit                                     *)

\* The tables stay, request r goes on to step s, with what it read and answers; s, row
\* and why fit together.
Advance(r, s, row, why) ==
  /\ step' = [step EXCEPT ![r] = s]
  /\ read' = [read EXCEPT ![r] = row]
  /\ answer' = [answer EXCEPT ![r] = why]
  /\ aborts' \in 0..MaxAborts
  /\ UNCHANGED <<users, keys, operator>>

\* s, row and why are what the invariant allows request r.
Allowed(r, s, row, why) ==
  /\ s \in Steps \ {"new", "done"} /\ row \in User \cup Key \cup {Absent} /\ why \in Answers
  /\ step[r] \notin {"done"}
  /\ why = "ok" => s \in {"responded", "aborted"}
  /\ why = "conflict" /\ Op[r] = "register" => Account(EmailOf[r]) # {}
  /\ s = "authenticated" => row = Absent
  /\ Op[r] \in {"use_key", "revoke_key"} =>
       /\ s \in {"checked", "responded"} => keys[KeyOf[r]] # Absent
       /\ s = "checked" => row # Absent
       /\ s = "responded" =>
            \/ row # Absent /\ \A q \in Requests : ~HoldsKey(q, KeyOf[r])
            \/ Op[r] = "revoke_key" /\ row = Absent /\ keys[KeyOf[r]].revoked
  /\ Op[r] = "register" /\ s = "responded" =>
       \A q \in Registrations : EmailOf[q] = EmailOf[r] => ~Inserted(q)

LEMMA AdvanceKeepsInv ==
  ASSUME CredentialsInv, NEW r \in Requests, NEW s, NEW row, NEW why,
         Advance(r, s, row, why), Allowed(r, s, row, why)
  PROVE  CredentialsInv'
<1>0. /\ step \in [Requests -> Steps] /\ answer \in [Requests -> Answers]
      /\ read \in [Requests -> User \cup Key \cup {Absent}]
  BY DEF CredentialsInv, TypeOK
<1>a. /\ step'[r] = s /\ read'[r] = row /\ answer'[r] = why
      /\ \A q \in Requests \ {r} :
           step'[q] = step[q] /\ read'[q] = read[q] /\ answer'[q] = answer[q]
      /\ users' = users /\ keys' = keys
  BY <1>0 DEF Advance
<1>1. TypeOK'
  <2>1. step' \in [Requests -> Steps] /\ answer' \in [Requests -> Answers]
        /\ read' \in [Requests -> User \cup Key \cup {Absent}]
    BY <1>0 DEF Advance, Allowed
  <2>2. \A q \in Requests : step'[q] = "done" <=> step[q] = "done"
    BY <1>a DEF Allowed
  <2> QED
    BY <2>1, <2>2, KeysAreCreated DEF TypeOK, CredentialsInv, Advance
<1>2. AnswerInv'
  BY <1>a DEF AnswerInv, CredentialsInv, Allowed
<1>3. ReadInv'
  <2> SUFFICES ASSUME NEW q \in Requests
               PROVE  (/\ step[q] \in {"new", "authenticated"} => read[q] = Absent
                       /\ Op[q] \in {"use_key", "revoke_key"}
                            /\ step[q] \in {"checked", "responded"} => keys[KeyOf[q]] # Absent
                       /\ Op[q] \in {"use_key", "revoke_key"} /\ step[q] = "checked" =>
                            read[q] # Absent
                       /\ Op[q] = "use_key" /\ step[q] = "responded" => read[q] # Absent
                       /\ Op[q] = "revoke_key" /\ step[q] = "responded" /\ read[q] = Absent =>
                            keys[KeyOf[q]].revoked)'
    BY DEF ReadInv
  <2>1. CASE q = r
    BY <1>a, <2>1 DEF Allowed
  <2>2. CASE q # r
    BY <1>a, <2>2 DEF ReadInv, CredentialsInv
  <2> QED
    BY <2>1, <2>2
<1>4. KeyLockInv'
  <2> SUFFICES ASSUME NEW k \in Creations, NEW p \in Requests, NEW q \in Requests,
                      HoldsKey(p, k)', HoldsKey(q, k)', p # q
               PROVE  FALSE
    BY DEF KeyLockInv
  <2>1. \A x \in Requests \ {r} : HoldsKey(x, k)' => HoldsKey(x, k)
    BY <1>a DEF HoldsKey
  <2>2. HoldsKey(r, k)' => \A x \in Requests : ~HoldsKey(x, k)
    BY <1>a DEF HoldsKey, Allowed
  <2> QED
    BY <2>1, <2>2 DEF KeyLockInv, CredentialsInv
<1>5. EmailInv'
  <2>1. \A x \in Registrations \ {r} : Inserted(x)' => Inserted(x)
    BY <1>a, KeysAreCreated DEF Inserted
  <2>2. r \in Registrations /\ Inserted(r)' =>
          \/ Inserted(r)
          \/ \A q \in Registrations : EmailOf[q] = EmailOf[r] => ~Inserted(q)
    BY <1>a DEF Inserted, Allowed, Registrations
  <2> QED
    BY <2>1, <2>2 DEF EmailInv, CredentialsInv
<1>6. ConflictInv'
  <2> SUFFICES ASSUME NEW q \in Registrations, answer'[q] = "conflict"
               PROVE  \E u \in Registrations : users[u] # Absent /\ EmailOf[u] = EmailOf[q]
    BY <1>a DEF ConflictInv
  <2>1. CASE q = r
    BY <1>a, <2>1 DEF Allowed, Account, Registrations
  <2>2. CASE q # r
    BY <1>a, <2>2, KeysAreCreated DEF ConflictInv, CredentialsInv
  <2> QED
    BY <2>1, <2>2
<1> QED
  BY <1>1, <1>2, <1>3, <1>4, <1>5, <1>6 DEF CredentialsInv


LEMMA RequestsAdvance ==
  ASSUME CredentialsInv, NEW r \in Requests,
         HandleRequest(r) \/ AbortRequest(r), ~Commit(r)
  PROVE  CredentialsInv'
<1>0. /\ step \in [Requests -> Steps] /\ answer \in [Requests -> Answers]
      /\ read \in [Requests -> User \cup Key \cup {Absent}]
      /\ users \in [Registrations -> User \cup {Absent}]
      /\ keys \in [Creations -> Key \cup {Absent}]
      /\ aborts \in 0..MaxAborts
  BY DEF CredentialsInv, TypeOK
<1>k. Op[r] \in {"use_key", "revoke_key"} => KeyOf[r] \in Creations
  BY KeysAreCreated
<1> DEFINE Goes(s, row, why) == Advance(r, s, row, why) /\ Allowed(r, s, row, why)
<1>g. ASSUME NEW s, NEW row, NEW why, Goes(s, row, why) PROVE CredentialsInv'
  BY <1>g, AdvanceKeepsInv
<1>x. read[r] \in User \cup Key \cup {Absent} /\ answer[r] \in Answers /\ step[r] \in Steps
  BY <1>0
<1>w. /\ read = [read EXCEPT ![r] = read[r]]
      /\ answer = [answer EXCEPT ![r] = answer[r]]
  BY <1>0
\* A refusal that is no conflict is always allowed.
<1>r. ASSUME NEW why \in Answers \ {"ok", "conflict"}, Refuse(r, why), step[r] # "done"
      PROVE  CredentialsInv'
  <2>1. Advance(r, "refused", read[r], why)
    BY <1>r, <1>0, <1>w DEF Refuse, Goto, Advance
  <2>2. Allowed(r, "refused", read[r], why)
    BY <1>r, <1>x DEF Allowed, Steps
  <2> QED
    BY <2>1, <2>2, <1>g
\* A response advances to the commit.
<1>s. ASSUME Respond(r) PROVE Advance(r, "responded", read[r], "ok")
  BY <1>s, <1>0, <1>w DEF Respond, Goto, Advance
<1>p. ASSUME NEW s, NEW row, Proceed(r, s, row) PROVE Advance(r, s, row, answer[r])
  BY <1>p, <1>0, <1>w DEF Proceed, Goto, Advance
<1>n. step[r] \in {"new", "authenticated", "checked"} => answer[r] # "ok"
  BY DEF CredentialsInv, AnswerInv
<1>c. answer[r] = "conflict" /\ Op[r] = "register" => Account(EmailOf[r]) # {}
  BY DEF CredentialsInv, ConflictInv, Registrations, Account
<1>1. CASE Register(r)
  <2>1. CASE Taken(r)
    <3>1. Advance(r, "refused", read[r], "conflict")
      BY <1>1, <2>1, <1>0, <1>w DEF Register, Refuse, Goto, Advance
    <3>2. Allowed(r, "refused", read[r], "conflict")
      BY <1>1, <2>1, <1>x DEF Register, Taken, Allowed, Steps, Answers, Responses
    <3> QED
      BY <3>1, <3>2, <1>g
  <2>2. CASE ~Taken(r)
    <3>1. Advance(r, "responded", read[r], "ok")
      BY <1>1, <2>2, <1>s DEF Register
    <3>2. Allowed(r, "responded", read[r], "ok")
      BY <1>1, <2>2, <1>x DEF Register, Taken, Account, Inserted, Allowed, Steps, Answers, Responses
    <3> QED
      BY <3>1, <3>2, <1>g
  <2> QED
    BY <2>1, <2>2
<1>2. CASE LookUpUser(r)
  <2>1. CASE Refuse(r, "unauthorized") \/ Refuse(r, "forbidden")
    BY <1>2, <2>1, <1>r DEF LookUpUser, Answers, Responses
  <2>2. CASE \E u \in Account(EmailOf[r]) : Proceed(r, "checked", users[u])
    <3>1. PICK u \in Account(EmailOf[r]) : Proceed(r, "checked", users[u])
      BY <2>2
    <3>2. Allowed(r, "checked", users[u], answer[r])
      BY <1>2, <1>0, <1>x, <1>n, <1>c DEF LookUpUser, Allowed, Steps, Account
    <3> QED
      BY <3>1, <3>2, <1>p, <1>g
  <2> QED
    BY <1>2, <2>1, <2>2 DEF LookUpUser
<1>3. CASE UpdateLastLogin(r)
  <2>1. Advance(r, "responded", read[r], "ok")
    BY <1>3, <1>s DEF UpdateLastLogin
  <2>2. Allowed(r, "responded", read[r], "ok")
    BY <1>3, <1>x DEF UpdateLastLogin, Allowed, Steps, Answers, Responses
  <2> QED
    BY <2>1, <2>2, <1>g
<1>4. CASE Authenticate(r)
  <2>1. CASE Refuse(r, "forbidden")
    BY <1>4, <2>1, <1>r DEF Authenticate, Answers, Responses
  <2>2. CASE Proceed(r, "authenticated", Absent)
    <3>1. Allowed(r, "authenticated", Absent, answer[r])
      BY <1>4, <1>x, <1>n, <1>c DEF Authenticate, Allowed, Steps
    <3> QED
      BY <2>2, <3>1, <1>p, <1>g
  <2> QED
    BY <1>4, <2>1, <2>2 DEF Authenticate
<1>5. CASE CreateKey(r)
  <2>1. Advance(r, "responded", read[r], "ok")
    BY <1>5, <1>s DEF CreateKey
  <2>2. Allowed(r, "responded", read[r], "ok")
    BY <1>5, <1>x DEF CreateKey, Allowed, Steps, Answers, Responses
  <2> QED
    BY <2>1, <2>2, <1>g
<1>6. CASE LookUpOwnKey(r)
  <2>1. Op[r] = "revoke_key" /\ step[r] = "authenticated" /\ read[r] = Absent
    BY <1>6 DEF LookUpOwnKey, CredentialsInv, ReadInv
  <2>2. CASE Refuse(r, "not_found")
    BY <2>1, <2>2, <1>r DEF Answers, Responses
  <2>3. CASE keys[KeyOf[r]] # Absent /\ keys[KeyOf[r]].revoked /\ Respond(r)
    <3>1. Allowed(r, "responded", read[r], "ok")
      BY <2>1, <2>3, <1>x DEF Allowed, Steps, Answers, Responses
    <3> QED
      BY <2>3, <3>1, <1>s, <1>g
  <2>4. CASE keys[KeyOf[r]] # Absent /\ Proceed(r, "checked", keys[KeyOf[r]])
    <3>1. Allowed(r, "checked", keys[KeyOf[r]], answer[r])
      BY <2>1, <2>4, <1>0, <1>k, <1>x, <1>n DEF Allowed, Steps
    <3> QED
      BY <2>4, <3>1, <1>p, <1>g
  <2> QED
    BY <1>6, <2>2, <2>3, <2>4 DEF LookUpOwnKey
<1>7. CASE LookUpKey(r)
  <2>1. Op[r] = "use_key" /\ step[r] = "new"
    BY <1>7 DEF LookUpKey
  <2>2. CASE Refuse(r, "unauthorized") \/ Refuse(r, "forbidden")
    BY <2>1, <2>2, <1>r DEF Answers, Responses
  <2>3. CASE keys[KeyOf[r]] # Absent /\ Proceed(r, "checked", keys[KeyOf[r]])
    <3>1. Allowed(r, "checked", keys[KeyOf[r]], answer[r])
      BY <2>1, <2>3, <1>0, <1>k, <1>x, <1>n DEF Allowed, Steps
    <3> QED
      BY <2>3, <3>1, <1>p, <1>g
  <2> QED
    BY <1>7, <2>2, <2>3 DEF LookUpKey
<1>8. CASE UpdateKey(r)
  <2>1. Advance(r, "responded", read[r], "ok")
    BY <1>8, <1>s DEF UpdateKey
  <2>2. keys[KeyOf[r]] # Absent /\ read[r] # Absent
    BY <1>8 DEF UpdateKey, CredentialsInv, ReadInv
  <2>3. Allowed(r, "responded", read[r], "ok")
    BY <1>8, <2>2, <1>x DEF UpdateKey, Allowed, Steps, Answers, Responses
  <2> QED
    BY <2>1, <2>3, <1>g
<1>9. CASE AbortRequest(r)
  <2>1. step' = [step EXCEPT ![r] = "aborted"] /\ aborts' \in 0..MaxAborts
    BY <1>9, CredentialsAssumption, <1>0 DEF AbortRequest, Goto
  <2>2. Advance(r, "aborted", read[r], answer[r])
    BY <1>9, <2>1, <1>w DEF AbortRequest, Advance
  <2>3. Allowed(r, "aborted", read[r], answer[r])
    BY <1>9, <1>x, <1>c DEF AbortRequest, Open, Allowed, Steps
  <2> QED
    BY <2>2, <2>3, <1>g
<1> QED
  BY <1>1, <1>2, <1>3, <1>4, <1>5, <1>6, <1>7, <1>8, <1>9 DEF HandleRequest


-----------------------------------------------------------------------------
(* Steps that change the tables                                             *)

\* Rows are never removed, and what is revoked, expired or deactivated stays so.
NothingUndone ==
  /\ \A k \in Creations : keys[k] # Absent =>
       /\ keys'[k] # Absent
       /\ keys[k].revoked => keys'[k].revoked
       /\ keys[k].expired => keys'[k].expired
  /\ \A u \in Registrations : users[u] # Absent =>
       /\ users'[u] # Absent
       /\ ~users[u].user_active => ~users'[u].user_active
       /\ ~users[u].tenant_active => ~users'[u].tenant_active

LEMMA CommitFacts ==
  ASSUME CredentialsInv, NEW r \in Requests, Commit(r)
  PROVE  /\ users' \in [Registrations -> User \cup {Absent}]
         /\ keys' \in [Creations -> Key \cup {Absent}]
         /\ \A u \in Registrations : users'[u] # Absent <=> users[u] # Absent \/ u = r
         /\ \A k \in Creations : keys'[k] # Absent <=> keys[k] # Absent \/ k = r
         /\ NothingUndone
<1>0. /\ users \in [Registrations -> User \cup {Absent}]
      /\ keys \in [Creations -> Key \cup {Absent}]
      /\ step[r] = "responded"
      /\ r \in Registrations => users[r] = Absent
      /\ r \in Creations => keys[r] = Absent
  BY DEF CredentialsInv, TypeOK, Commit
<1>1. ASSUME NEW u \in Registrations
      PROVE  /\ users'[u] \in User \cup {Absent}
             /\ users'[u] # Absent <=> users[u] # Absent \/ u = r
             /\ users[u] # Absent =>
                  /\ ~users[u].user_active => ~users'[u].user_active
                  /\ ~users[u].tenant_active => ~users'[u].tenant_active
  <2>1. CASE u = r
    <3>1. users'[u] = NewUser
      BY <2>1 DEF Commit, Registrations, Creations
    <3> QED
      BY <1>0, <2>1, <3>1, RowTypes, Zenon
  <2>2. CASE u # r /\ Op[r] = "login" /\ u \in Account(EmailOf[r])
    <3>1. users[u] \in User
      BY <1>0, <2>2 DEF Account
    <3>2. users'[u] = [users[u] EXCEPT !.logged_in = TRUE]
      BY <2>2 DEF Commit, LoginWrites
    <3>3. /\ users'[u] \in User
          /\ users'[u].user_active = users[u].user_active
          /\ users'[u].tenant_active = users[u].tenant_active
      BY <3>1, <3>2, UserWrites, Zenon
    <3> QED
      BY <2>2, <3>1, <3>3, RowTypes, Zenon
  <2>3. CASE u # r /\ ~(Op[r] = "login" /\ u \in Account(EmailOf[r]))
    BY <1>0, <2>3 DEF Commit
  <2> QED
    BY <2>1, <2>2, <2>3
<1>2. ASSUME NEW k \in Creations
      PROVE  /\ keys'[k] \in Key \cup {Absent}
             /\ keys'[k] # Absent <=> keys[k] # Absent \/ k = r
             /\ keys[k] # Absent =>
                  /\ keys[k].revoked => keys'[k].revoked
                  /\ keys[k].expired => keys'[k].expired
  <2>1. CASE k = r
    <3>1. keys'[k] = NewKey
      BY <2>1 DEF Commit, Registrations, Creations
    <3> QED
      BY <1>0, <2>1, <3>1, RowTypes, Zenon
  <2>2. CASE k # r /\ Op[r] \in {"use_key", "revoke_key"} /\ KeyOf[r] = k
    <3>1. keys[k] \in Key
      BY <1>0, <2>2 DEF CredentialsInv, ReadInv
    <3>2. keys'[k] = [keys[k] EXCEPT !.used = TRUE] \/ keys'[k] = [keys[k] EXCEPT !.revoked = TRUE]
      BY <2>2 DEF Commit, UseWrites
    <3>3. CASE keys'[k] = [keys[k] EXCEPT !.used = TRUE]
      <4>1. /\ keys'[k] \in Key /\ keys'[k].revoked = keys[k].revoked
            /\ keys'[k].expired = keys[k].expired
        BY <3>1, <3>3, KeyWrites, Zenon
      <4> QED
        BY <2>2, <3>1, <4>1, RowTypes, Zenon
    <3>4. CASE keys'[k] = [keys[k] EXCEPT !.revoked = TRUE]
      <4>1. /\ keys'[k] \in Key /\ keys'[k].revoked
            /\ keys'[k].expired = keys[k].expired
        BY <3>1, <3>4, KeyWrites, Zenon
      <4> QED
        BY <2>2, <3>1, <4>1, RowTypes, Zenon
    <3> QED
      BY <3>2, <3>3, <3>4
  <2>3. CASE k # r /\ ~(Op[r] \in {"use_key", "revoke_key"} /\ KeyOf[r] = k)
    BY <1>0, <2>3 DEF Commit
  <2> QED
    BY <2>1, <2>2, <2>3
<1>3. users' = [u \in Registrations |-> users'[u]] /\ keys' = [k \in Creations |-> keys'[k]]
  BY DEF Commit
<1> QED
  BY <1>1, <1>2, <1>3 DEF NothingUndone

LEMMA CommitKeepsInv ==
  ASSUME CredentialsInv, NEW r \in Requests, Commit(r)
  PROVE  CredentialsInv'
<1>0. /\ step \in [Requests -> Steps]
      /\ step[r] = "responded" /\ step' = [step EXCEPT ![r] = "done"]
      /\ UNCHANGED <<read, answer, aborts, operator>>
  BY DEF CredentialsInv, TypeOK, Commit, Goto
<1>a. step'[r] = "done" /\ \A q \in Requests \ {r} : step'[q] = step[q]
  BY <1>0
<1>1. TypeOK'
  <2>1. step' \in [Requests -> Steps]
    BY <1>0 DEF Steps
  <2> QED
    BY <1>0, <1>a, <2>1, CommitFacts, KeysAreCreated DEF TypeOK, CredentialsInv
<1>2. AnswerInv'
  BY <1>0, <1>a DEF AnswerInv, CredentialsInv
<1>3. ReadInv'
  BY <1>0, <1>a, CommitFacts, KeysAreCreated DEF ReadInv, CredentialsInv, NothingUndone
<1>4. KeyLockInv'
  BY <1>0, <1>a DEF KeyLockInv, HoldsKey, CredentialsInv
<1>5. EmailInv'
  <2>1. \A x \in Registrations : Inserted(x)' => Inserted(x)
    BY <1>0, <1>a, CommitFacts, KeysAreCreated DEF Inserted
  <2> QED
    BY <2>1 DEF EmailInv, CredentialsInv
<1>6. ConflictInv'
  BY <1>0, CommitFacts DEF ConflictInv, CredentialsInv, NothingUndone
<1> QED
  BY <1>1, <1>2, <1>3, <1>4, <1>5, <1>6 DEF CredentialsInv

LEMMA DeactivateFacts ==
  ASSUME CredentialsInv, NEW d \in Registrations, Deactivate(d)
  PROVE  /\ users' \in [Registrations -> User \cup {Absent}]
         /\ \A u \in Registrations : users'[u] # Absent <=> users[u] # Absent
         /\ NothingUndone
<1>0. /\ users \in [Registrations -> User \cup {Absent}] /\ users[d] \in User
      /\ keys' = keys
      /\ keys \in [Creations -> Key \cup {Absent}]
  BY DEF CredentialsInv, TypeOK, Deactivate
<1>1. \E row : row \in {[users[d] EXCEPT !.user_active = FALSE],
                        [users[d] EXCEPT !.tenant_active = FALSE]}
               /\ users' = [users EXCEPT ![d] = row]
  BY DEF Deactivate
<1>2. PICK row \in {[users[d] EXCEPT !.user_active = FALSE],
                    [users[d] EXCEPT !.tenant_active = FALSE]} :
               users' = [users EXCEPT ![d] = row]
  BY <1>1
<1>3. /\ row \in User /\ row # Absent
      /\ ~users[d].user_active => ~row.user_active
      /\ ~users[d].tenant_active => ~row.tenant_active
  <2>1. CASE row = [users[d] EXCEPT !.user_active = FALSE]
    <3>1. /\ row \in User /\ ~row.user_active
          /\ row.tenant_active = users[d].tenant_active
      BY <1>0, <2>1, UserWrites, Zenon
    <3> QED
      BY <3>1, RowTypes, Zenon
  <2>2. CASE row = [users[d] EXCEPT !.tenant_active = FALSE]
    <3>1. /\ row \in User /\ ~row.tenant_active
          /\ row.user_active = users[d].user_active
      BY <1>0, <2>2, UserWrites, Zenon
    <3> QED
      BY <3>1, RowTypes, Zenon
  <2> QED
    BY <2>1, <2>2
<1> QED
  BY <1>0, <1>2, <1>3, RowTypes DEF NothingUndone

LEMMA ExpireFacts ==
  ASSUME CredentialsInv, NEW e \in Creations, Expire(e)
  PROVE  /\ keys' \in [Creations -> Key \cup {Absent}]
         /\ \A k \in Creations : keys'[k] # Absent <=> keys[k] # Absent
         /\ NothingUndone
<1>0. /\ keys \in [Creations -> Key \cup {Absent}] /\ keys[e] \in Key
      /\ users' = users
  BY DEF CredentialsInv, TypeOK, Expire
<1> DEFINE row == [keys[e] EXCEPT !.expired = TRUE]
<1>1. keys' = [keys EXCEPT ![e] = row]
  BY DEF Expire
<1>2. row \in Key /\ row # Absent /\ row.revoked = keys[e].revoked /\ row.expired
  BY <1>0, KeyWrites, RowTypes, Zenon
<1>3. keys'[e] = row /\ \A k \in Creations \ {e} : keys'[k] = keys[k]
  BY <1>0, <1>1
<1>4. ASSUME NEW k \in Creations, keys[k] # Absent
      PROVE  /\ keys[k].revoked => keys'[k].revoked
             /\ keys[k].expired => keys'[k].expired
  BY <1>2, <1>3, <1>4, Zenon
<1> HIDE DEF row
<1> QED
  BY <1>0, <1>1, <1>2, <1>3, <1>4, RowTypes DEF NothingUndone

\* Operators and the clock change rows and no request.
LEMMA OutsideKeepsInv ==
  ASSUME CredentialsInv,
         (\E u \in Registrations : Deactivate(u)) \/ (\E k \in Creations : Expire(k))
  PROVE  CredentialsInv'
<1>1. /\ UNCHANGED <<step, read, answer, aborts>>
      /\ operator' \in 0..MaxOperatorSteps
  BY CredentialsAssumption DEF Deactivate, Expire, CredentialsInv, TypeOK
<1>2. /\ users' \in [Registrations -> User \cup {Absent}]
      /\ keys' \in [Creations -> Key \cup {Absent}]
      /\ \A u \in Registrations : users'[u] # Absent <=> users[u] # Absent
      /\ \A k \in Creations : keys'[k] # Absent <=> keys[k] # Absent
      /\ NothingUndone
  <2>1. CASE \E u \in Registrations : Deactivate(u)
    <3>1. keys' = keys
      BY <2>1 DEF Deactivate
    <3> QED
      BY <2>1, <3>1, DeactivateFacts DEF CredentialsInv, TypeOK
  <2>2. CASE \E k \in Creations : Expire(k)
    <3>1. users' = users
      BY <2>2 DEF Expire
    <3> QED
      BY <2>2, <3>1, ExpireFacts DEF CredentialsInv, TypeOK
  <2> QED
    BY <2>1, <2>2
<1>3. TypeOK'
  BY <1>1, <1>2 DEF TypeOK, CredentialsInv
<1>4. AnswerInv' /\ KeyLockInv'
  BY <1>1 DEF AnswerInv, KeyLockInv, HoldsKey, CredentialsInv
<1>5. ReadInv'
  BY <1>1, <1>2, KeysAreCreated DEF ReadInv, CredentialsInv, NothingUndone
<1>6. EmailInv' /\ ConflictInv'
  BY <1>1, <1>2 DEF EmailInv, Inserted, ConflictInv, CredentialsInv
<1> QED
  BY <1>3, <1>4, <1>5, <1>6 DEF CredentialsInv

-----------------------------------------------------------------------------
(* The theorems                                                             *)

LEMMA CredentialsInvariance == Spec => []CredentialsInv
<1>1. Init => CredentialsInv
  <2> SUFFICES ASSUME Init PROVE CredentialsInv
    OBVIOUS
  <2>0. MaxAborts \in Nat /\ MaxOperatorSteps \in Nat
    BY CredentialsAssumption
  <2>1. TypeOK
    BY <2>0, RowTypes, KeysAreCreated DEF Init, TypeOK, Steps, Answers, Responses
  <2>2. AnswerInv
    BY CredentialsAssumption DEF Init, AnswerInv, Responses
  <2>3. ReadInv
    BY DEF Init, ReadInv
  <2>4. KeyLockInv
    BY DEF Init, KeyLockInv, HoldsKey
  <2>5. EmailInv
    <3> SUFFICES ASSUME NEW q \in Registrations, NEW r \in Registrations,
                        Inserted(q), Inserted(r), EmailOf[q] = EmailOf[r]
                 PROVE  q = r
      BY DEF EmailInv
    <3>1. q \in Existing /\ r \in Existing
      BY KeysAreCreated DEF Init, Inserted
    <3> QED
      BY <3>1, CredentialsAssumption DEF Registrations
  <2>6. ConflictInv
    BY KeysAreCreated, CredentialsAssumption DEF Init, ConflictInv, Responses
  <2> QED
    BY <2>1, <2>2, <2>3, <2>4, <2>5, <2>6 DEF CredentialsInv
<1>2. CredentialsInv /\ [Next]_vars => CredentialsInv'
  <2> SUFFICES ASSUME CredentialsInv, [Next]_vars PROVE CredentialsInv'
    OBVIOUS
  <2>1. CASE UNCHANGED vars
    BY <2>1 DEF vars, CredentialsInv, TypeOK, AnswerInv, ReadInv, KeyLockInv, HoldsKey,
                EmailInv, Inserted, ConflictInv
  <2>2. ASSUME NEW r \in Requests, HandleRequest(r) \/ AbortRequest(r) PROVE CredentialsInv'
    BY <2>2, RequestsAdvance, CommitKeepsInv
  <2> QED
    BY <2>1, <2>2, OutsideKeepsInv DEF Next
<1> QED
  BY <1>1, <1>2, PTL DEF Spec

\* The tables and requests hold values of their types, and a row exists once its creation
\* is done.
THEOREM CredentialsTypes == Spec => []TypeOK
<1>1. CredentialsInv => TypeOK
  BY DEF CredentialsInv
<1> QED
  BY <1>1, CredentialsInvariance, PTL

\* However registrations of one email overlap, fail and wait for each other, at most one
\* becomes an account, and a conflict is answered only because of an account.
THEOREM AccountsUnique == Spec => []OneAccountPerEmail
<1>1. CredentialsInv => OneAccountPerEmail
  <2> SUFFICES ASSUME CredentialsInv, NEW q \in Registrations
               PROVE  /\ users[q] # Absent => Account(EmailOf[q]) = {q}
                      /\ answer[q] = "conflict" => Account(EmailOf[q]) # {}
    BY DEF OneAccountPerEmail
  <2>1. ASSUME users[q] # Absent PROVE Account(EmailOf[q]) = {q}
    BY <2>1 DEF CredentialsInv, EmailInv, Inserted, Account
  <2>2. ASSUME answer[q] = "conflict" PROVE Account(EmailOf[q]) # {}
    BY <2>2 DEF CredentialsInv, ConflictInv, Account
  <2> QED
    BY <2>1, <2>2
<1> QED
  BY <1>1, CredentialsInvariance, PTL

LEMMA StepsUndoNothing ==
  ASSUME CredentialsInv, Next
  PROVE  NothingUndone
<1>1. ASSUME NEW r \in Requests, HandleRequest(r) \/ AbortRequest(r), ~Commit(r)
      PROVE  UNCHANGED <<users, keys>>
  BY <1>1 DEF HandleRequest, Register, LookUpUser, UpdateLastLogin, Authenticate,
              CreateKey, LookUpOwnKey, LookUpKey, UpdateKey, AbortRequest,
              Refuse, Respond, Proceed
<1>2. UNCHANGED <<users, keys>> => NothingUndone
  BY DEF NothingUndone
<1> QED
  BY <1>1, <1>2, CommitFacts, DeactivateFacts, ExpireFacts DEF Next

\* A key that is revoked, and a user or tenant that is deactivated, stays so, also when a
\* request commits that read the row before.
THEOREM RevocationsFinal == Spec => NothingReactivated
<1>1. CredentialsInv /\ [Next]_vars =>
        [/\ \A k \in Creations : keys[k] # Absent =>
             keys'[k] # Absent /\ (keys[k].revoked => keys'[k].revoked)
         /\ \A u \in Registrations : users[u] # Absent =>
             /\ users'[u] # Absent
             /\ ~users[u].user_active => ~users'[u].user_active
             /\ ~users[u].tenant_active => ~users'[u].tenant_active]_vars
  BY StepsUndoNothing DEF NothingUndone
<1> QED
  BY <1>1, CredentialsInvariance, PTL DEF Spec, NothingReactivated

LEMMA BarredStays ==
  ASSUME CredentialsInv, [Next]_vars, NEW k \in Creations, Barred(k)
  PROVE  Barred(k)'
<1>1. CASE UNCHANGED vars
  BY <1>1 DEF vars, Barred, Account
<1>2. CASE Next
  <2>1. NothingUndone
    BY <1>2, StepsUndoNothing
  <2>2. keys'[k] # Absent
    BY <2>1 DEF NothingUndone, Barred
  <2>3. CASE keys[k].revoked \/ keys[k].expired
    BY <2>1, <2>2, <2>3 DEF NothingUndone, Barred
  <2>4. CASE \E u \in Account(EmailOf[k]) : ~users[u].tenant_active
    <3>1. PICK u \in Account(EmailOf[k]) : ~users[u].tenant_active
      BY <2>4
    <3>2. u \in Account(EmailOf[k])' /\ ~users'[u].tenant_active
      BY <2>1, <3>1 DEF NothingUndone, Account
    <3> QED
      BY <2>2, <3>2 DEF Barred
  <2> QED
    BY <2>3, <2>4 DEF Barred
<1> QED
  BY <1>1, <1>2

\* A use of a barred key that has not been checked, or was refused.
KeptOut(r) == step[r] \in {"new", "refused"} /\ Barred(KeyOf[r])

LEMMA KeptOutStays ==
  ASSUME CredentialsInv, [Next]_vars, NEW r \in Requests, Op[r] = "use_key", KeptOut(r)
  PROVE  KeptOut(r)'
<1>1. Barred(KeyOf[r])'
  BY BarredStays, KeysAreCreated DEF KeptOut
<1>2. step \in [Requests -> Steps]
  BY DEF CredentialsInv, TypeOK
<1>3. step'[r] \in {"new", "refused"}
  <2>1. ASSUME NEW q \in Requests \ {r}, HandleRequest(q) \/ AbortRequest(q)
        PROVE  step'[r] = step[r]
    BY <1>2, <2>1 DEF HandleRequest, Register, LookUpUser, UpdateLastLogin, Authenticate,
                CreateKey, LookUpOwnKey, LookUpKey, UpdateKey, Commit, AbortRequest,
                Refuse, Respond, Proceed, Goto
  <2>2. ASSUME HandleRequest(r) \/ AbortRequest(r)
        PROVE  step'[r] = "refused"
    <3>1. LookUpKey(r)
      BY <2>2 DEF KeptOut, HandleRequest, Register, LookUpUser, UpdateLastLogin, Authenticate,
                  CreateKey, LookUpOwnKey, UpdateKey, Commit, AbortRequest, Open
    <3>2. \E why \in Responses : Refuse(r, why)
      BY <3>1 DEF LookUpKey, KeptOut, Barred, Responses
    <3> QED
      BY <1>2, <3>2 DEF Refuse, Goto
  <2>3. ASSUME \/ \E u \in Registrations : Deactivate(u)
               \/ \E k \in Creations : Expire(k)
               \/ UNCHANGED vars
        PROVE  step'[r] = step[r]
    BY <2>3 DEF Deactivate, Expire, vars
  <2> QED
    BY <2>1, <2>2, <2>3 DEF Next, KeptOut
<1> QED
  BY <1>1, <1>3 DEF KeptOut

\* A request that begins when its key is revoked, expired or of an inactive tenant is never
\* let in.
THEOREM BarredKeysStayOut == Spec => BarredKeysAdmitNoNewUse
<1> SUFFICES ASSUME NEW r \in {q \in Requests : Op[q] = "use_key"}
             PROVE  Spec => [](step[r] = "new" /\ Barred(KeyOf[r]) => [](answer[r] # "ok"))
  BY DEF BarredKeysAdmitNoNewUse
<1>1. step[r] = "new" /\ Barred(KeyOf[r]) => KeptOut(r)
  BY DEF KeptOut
<1>2. CredentialsInv /\ KeptOut(r) /\ [Next]_vars => KeptOut(r)'
  BY KeptOutStays
<1>3. CredentialsInv /\ KeptOut(r) => answer[r] # "ok"
  BY DEF CredentialsInv, AnswerInv, KeptOut
<1> QED
  BY <1>1, <1>2, <1>3, CredentialsInvariance, PTL DEF Spec

\* A request whose client waited for its credential finds it once it is committed.
LEMMA CommittedIsKnown ==
  ASSUME CredentialsInv, Next, NEW r \in Requests, After[r] # Null,
         answer[r] # answer'[r], answer'[r] = "unauthorized"
  PROVE  step[After[r]] \in {"responded", "aborted"}
<1>0. answer \in [Requests -> Answers]
  BY DEF CredentialsInv, TypeOK
<1>1. LookUpUser(r) \/ LookUpKey(r)
  <2>1. ASSUME NEW q \in Requests, q # r, HandleRequest(q) PROVE answer'[r] = answer[r]
    BY <2>1, <1>0 DEF HandleRequest, Register, LookUpUser, UpdateLastLogin, Authenticate,
            CreateKey, LookUpOwnKey, LookUpKey, UpdateKey, Commit, Refuse, Respond, Proceed
  <2>2. ASSUME NEW q \in Requests, AbortRequest(q) PROVE answer'[r] = answer[r]
    BY <2>2 DEF AbortRequest
  <2>3. ASSUME \/ Register(r) \/ UpdateLastLogin(r) \/ Authenticate(r) \/ CreateKey(r)
               \/ LookUpOwnKey(r) \/ UpdateKey(r) \/ Commit(r)
        PROVE  answer'[r] # "unauthorized" \/ answer'[r] = answer[r]
    BY <2>3, <1>0 DEF Register, UpdateLastLogin, Authenticate, CreateKey, LookUpOwnKey,
                      UpdateKey, Commit, Refuse, Respond, Proceed
  <2>4. ASSUME \/ \E u \in Registrations : Deactivate(u)
               \/ \E k \in Creations : Expire(k)
        PROVE  answer'[r] = answer[r]
    BY <2>4 DEF Deactivate, Expire
  <2> QED
    BY <2>1, <2>2, <2>3, <2>4 DEF Next, HandleRequest
<1>2. After[r] \in Requests /\ answer[After[r]] = "ok"
  BY <1>1, CredentialsAssumption DEF LookUpUser, LookUpKey, Ready
<1>3. step[After[r]] \in {"responded", "done", "aborted"}
  BY <1>2 DEF CredentialsInv, AnswerInv
<1>4. ASSUME step[After[r]] = "done" PROVE FALSE
  <2>1. CASE LookUpUser(r)
    <3>1. After[r] \in Registrations /\ EmailOf[After[r]] = EmailOf[r]
      BY <1>2, <2>1, CredentialsAssumption DEF LookUpUser, Registrations
    <3>2. After[r] \in Account(EmailOf[r])
      BY <1>4, <3>1 DEF CredentialsInv, TypeOK, Account
    <3> QED
      BY <1>0, <2>1, <3>2 DEF LookUpUser, Refuse, Proceed
  <2>2. CASE LookUpKey(r)
    <3>1. After[r] \in Creations /\ KeyOf[r] = After[r]
      BY <1>2, <2>2, CredentialsAssumption, KeysAreCreated DEF LookUpKey
    <3>2. keys[KeyOf[r]] # Absent
      BY <1>4, <3>1 DEF CredentialsInv, TypeOK
    <3> QED
      BY <1>0, <2>2, <3>2 DEF LookUpKey, Refuse, Proceed
  <2> QED
    BY <1>1, <2>1, <2>2
<1> QED
  BY <1>3, <1>4

\* A client that got its credential from a response is refused as unknown only while that
\* credential is not committed.
THEOREM CredentialsKnown == Spec => UnknownOnlyBeforeCommit
<1>1. CredentialsInv /\ [Next]_vars =>
        [\A r \in Requests :
           After[r] # Null /\ answer[r] # answer'[r] /\ answer'[r] = "unauthorized"
             => step[After[r]] \in {"responded", "aborted"}]_vars
  BY CommittedIsKnown, Zenon
<1> QED
  BY <1>1, CredentialsInvariance, PTL DEF Spec, UnknownOnlyBeforeCommit

=============================================================================
