---------------------------- MODULE MCDashboard -----------------------------
(* Values of Dashboard's constants for TLC.                                  *)
EXTENDS Dashboard

CONSTANTS t1, t2, k1, k2

\* Two users of different tenants.
MCTokenTenant == [k \in Tokens |-> IF k = k1 THEN t1 ELSE t2]

=============================================================================
