------------------------------ MODULE Backoff ------------------------------
(***************************************************************************)
(* The retry delay of workers/worker.py, calculate_backoff_seconds, shared *)
(* by the workers and the lease reaper.  Seconds are whole numbers here:   *)
(* nothing the queue promises depends on fractions of one.                 *)
(***************************************************************************)
EXTENDS Integers

CONSTANTS BaseBackoff,  \* worker_base_backoff_seconds
          MaxBackoff,   \* worker_max_backoff_seconds
          Jitter        \* worker_jitter_seconds

ASSUME BackoffAssumption ==
  BaseBackoff \in Nat /\ MaxBackoff \in Nat /\ Jitter \in Nat

\* base * 2^max(attempts - 1, 0)
ExponentialDelay(attempts) ==
  BaseBackoff * 2 ^ (IF attempts > 1 THEN attempts - 1 ELSE 0)

\* Every delay the random jitter can produce: min(max_seconds, delay + jitter).
BackoffDelays(attempts) ==
  {d \in 0..MaxBackoff :
     \E r \in 0..Jitter :
        \/ d = ExponentialDelay(attempts) + r
        \/ d = MaxBackoff /\ ExponentialDelay(attempts) + r > MaxBackoff}
=============================================================================
