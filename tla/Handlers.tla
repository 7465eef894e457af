------------------------------ MODULE Handlers ------------------------------
(***************************************************************************)
(* The handler registry of workers/handlers.py: what executing a claimed   *)
(* job can end in.  "custom" stands for a handler a caller registers (the  *)
(* registry is a parameter of run_worker and process_one_job): it may      *)
(* return, raise RetryableJobError or any other exception, or raise        *)
(* NonRetryableJobError.  The default registry has no such handler.        *)
(***************************************************************************)
EXTENDS Integers

JobTypes == {"noop", "send_email", "webhook", "fail_once", "custom", "unknown"}

\* process_one_job treats RetryableJobError and an unexpected exception alike.
Outcomes == {"ok", "retryable", "non_retryable"}

\* payload_complete: the payload has the key the handler requires.
HandlerOutcomes(job_type, payload_complete, attempts) ==
  CASE job_type = "noop"      -> {"ok"}
    [] job_type \in {"send_email", "webhook"} ->
         IF payload_complete THEN {"ok"} ELSE {"non_retryable"}
    [] job_type = "fail_once" ->
         IF attempts = 1 THEN {"retryable"} ELSE {"ok"}
    [] job_type = "custom"    -> Outcomes
    [] OTHER                  -> {"non_retryable"}
=============================================================================
