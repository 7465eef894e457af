-------------------------- MODULE MCJobSubmission ---------------------------
(* Values of JobSubmission's constants for TLC.                              *)
EXTENDS JobSubmission

CONSTANTS r1, r2, r3, r4, t1, t2, k1, k2, a1

\* Three requests of the first tenant, two of them with the same key, which the second
\* tenant uses, too.
MCTenantOf == [r \in Requests |-> IF r = r4 THEN t2 ELSE t1]
MCKeyOf == [r \in Requests |-> IF r = r3 THEN k2 ELSE k1]

\* Two requests of the first tenant share an API key, the others use access tokens.
MCApiKeyOf == [r \in Requests |-> IF r \in {r2, r3} THEN a1 ELSE Null]

LimitOne == [t \in Tenants |-> 1]
LimitTwo == [t \in Tenants |-> 2]
=============================================================================
