--------------------------- MODULE DownloadQueue ----------------------------
(***************************************************************************)
(* What the scheduler promises of a queue of downloads nobody interferes   *)
(* with, whatever threads, pools, polling, leases and crashes are behind   *)
(* it: a task is executed again and again until it has a verdict, at most  *)
(* MaxAttempts executions of it fail, and a batch is closed, once, with    *)
(* the verdict that follows from those of all its tasks.                   *)
(***************************************************************************)
EXTENDS JobCore

CONSTANTS Tasks, Batches, BatchOf, MaxAttempts

VARIABLES
  status,      (* of each task                                             *)
  failures,    (* executions of each task that failed                      *)
  verdict      (* of each batch, or Open                                   *)

qvars == <<status, failures, verdict>>

Open == "open"
members(b) == {t \in Tasks : BatchOf[t] = b}

QInit ==
  /\ status   = [t \in Tasks |-> "PENDING"]
  /\ failures = [t \in Tasks |-> 0]
  /\ verdict  = [b \in Batches |-> Open]

Move(t, from, to) ==
  /\ status[t] = from
  /\ status' = [status EXCEPT ![t] = to]

Claimed(t)   == Move(t, "PENDING", "RUNNING") /\ UNCHANGED <<failures, verdict>>
Succeeded(t) == Move(t, "RUNNING", "SUCCESS") /\ UNCHANGED <<failures, verdict>>
Blocked(t)   == Move(t, "RUNNING", "BLOCKED") /\ UNCHANGED <<failures, verdict>>
Cancelled(t) == Move(t, "RUNNING", "CANCELLED") /\ UNCHANGED <<failures, verdict>>

(* The execution was lost with the process.                                *)
Lost(t) == Move(t, "RUNNING", "PENDING") /\ UNCHANGED <<failures, verdict>>

Failed(t) ==
  /\ \/ Move(t, "RUNNING", "FAILED")
     \/ failures[t] + 1 < MaxAttempts /\ Move(t, "RUNNING", "PENDING")
  /\ failures' = [failures EXCEPT ![t] = @ + 1]
  /\ UNCHANGED verdict

Closed(b) ==
  /\ verdict[b] = Open
  /\ \A t \in members(b) : Completed(status[t])
  /\ verdict' = [verdict EXCEPT ![b] = finalStatus({status[t] : t \in members(b)})]
  /\ UNCHANGED <<status, failures>>

QNext ==
  \/ \E t \in Tasks : \/ Claimed(t) \/ Succeeded(t) \/ Blocked(t)
                      \/ Cancelled(t) \/ Lost(t) \/ Failed(t)
  \/ \E b \in Batches : Closed(b)

QSpec == QInit /\ [][QNext]_qvars
=============================================================================
