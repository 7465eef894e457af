------------------------- MODULE MCLifecycleMetrics -------------------------
(* Symmetry of LifecycleMetrics' constants for TLC.                          *)
EXTENDS LifecycleMetrics, TLC

\* Jobs and scrapes are interchangeable.
MetricsSymmetry == Permutations(Jobs) \cup Permutations(Scrapes)
=============================================================================
