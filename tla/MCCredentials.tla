--------------------------- MODULE MCCredentials ----------------------------
(* Values of Credentials' constants for TLC.                                 *)
EXTENDS Credentials

CONSTANTS
  e1, e2,
  ann,            \* an account that exists
  signup, rival,  \* two registrations of one email
  login,          \* the signup's login
  key, use, reuse, revoke,  \* its user creates a key, uses it twice and revokes it
  stranger        \* ann tries to revoke that key

MCOp == [r \in Requests |->
  CASE r \in {ann, signup, rival} -> "register"
    [] r = login -> "login"
    [] r = key -> "create_key"
    [] r \in {use, reuse} -> "use_key"
    [] OTHER -> "revoke_key"]

MCEmailOf == [r \in Requests |-> IF r \in {ann, stranger} THEN e1 ELSE e2]

MCKeyOf == [r \in Requests |->
  IF r \in {use, reuse, revoke, stranger} THEN key ELSE Null]

MCAfter == [r \in Requests |->
  CASE r = login -> signup
    [] r = key -> login
    [] r \in {use, reuse, revoke, stranger} -> key
    [] OTHER -> Null]
=============================================================================
