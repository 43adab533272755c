------------------------------ MODULE JobCore ------------------------------
(***************************************************************************)
(* The vocabulary of the download scheduler: the job statuses and events   *)
(* of JobEntities.kt and JobCore.kt, the transition table                  *)
(* JobStateMachine.transition, and the decision JobRunner takes from a     *)
(* handler's result.                                                       *)
(***************************************************************************)
EXTENDS Integers

JobStatus ==
  {"PENDING", "RUNNING", "SUCCESS", "FAILED", "CANCELLED", "CANCELLING",
   "PAUSED", "BLOCKED"}

JobEvent ==
  {"CLAIMED", "HANDLER_SUCCESS", "HANDLER_FAILURE_RETRYABLE",
   "HANDLER_FAILURE_FINAL", "CANCEL_REQUESTED", "PAUSE_REQUESTED",
   "RESUME_REQUESTED", "BLOCKED_BY_PROTECTION"}

(* The rows of the table, <<from, event, to>>; a pair without a row keeps  *)
(* the current status.                                                     *)
TransitionRows ==
  { <<"PENDING", "CLAIMED",                   "RUNNING">>,
    <<"PENDING", "CANCEL_REQUESTED",          "CANCELLED">>,
    <<"PENDING", "PAUSE_REQUESTED",           "PAUSED">>,
    <<"RUNNING", "HANDLER_SUCCESS",           "SUCCESS">>,
    <<"RUNNING", "HANDLER_FAILURE_RETRYABLE", "PENDING">>,
    <<"RUNNING", "HANDLER_FAILURE_FINAL",     "FAILED">>,
    <<"RUNNING", "CANCEL_REQUESTED",          "CANCELLED">>,
    <<"RUNNING", "PAUSE_REQUESTED",           "PAUSED">>,
    <<"RUNNING", "BLOCKED_BY_PROTECTION",     "BLOCKED">>,
    <<"PAUSED",  "CLAIMED",                   "RUNNING">>,
    <<"PAUSED",  "RESUME_REQUESTED",          "PENDING">>,
    <<"PAUSED",  "CANCEL_REQUESTED",          "CANCELLED">>,
    <<"PAUSED",  "PAUSE_REQUESTED",           "PAUSED">>,
    <<"PENDING", "RESUME_REQUESTED",          "PENDING">>,
    <<"RUNNING", "RESUME_REQUESTED",          "RUNNING">> }

transition(current, event) ==
  IF \E to \in JobStatus : <<current, event, to>> \in TransitionRows
  THEN CHOOSE to \in JobStatus : <<current, event, to>> \in TransitionRows
  ELSE current

(* Changed: a cancelled task is not counted as finished.                   *)
CompletedUnlessCancelled(status) == status \in {"SUCCESS", "FAILED"}

(* syncBatchCompletion's test of a finished task.                          *)
Completed(status) == status \in {"SUCCESS", "FAILED", "CANCELLED"}

(* Changed: the failures are not looked at.                                *)
finalStatusWithoutFailures(statuses) ==
  IF statuses = {"CANCELLED"} THEN "CANCELLED" ELSE "SUCCESS"

(* The verdict syncBatchCompletion writes for a batch all of whose tasks   *)
(* are completed, given the set of their statuses.                         *)
finalStatus(statuses) ==
  IF statuses = {"CANCELLED"} THEN "CANCELLED"
  ELSE IF "FAILED" \in statuses THEN "FAILED" ELSE "SUCCESS"

(* What a JobHandler can answer: JobResult.Success, a recoverable and an   *)
(* unrecoverable JobResult.Failure, JobResult.Cancelled, JobResult.Blocked *)
(* and an exception that escapes handle().                                 *)
JobResult == {"Success", "Failure", "Fatal", "Cancelled", "Blocked", "Throw"}

(* Changed: one attempt too many.                                          *)
canRetryOnceMore(result, attempts, maxAttempts) ==
  result = "Failure" /\ attempts <= maxAttempts

(* Whether a failed execution, the attempts-th one, is retried.            *)
canRetry(result, attempts, maxAttempts) ==
  result = "Failure" /\ attempts < maxAttempts
============================================================================
