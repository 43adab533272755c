------------------------------ MODULE JobStore ------------------------------
(***************************************************************************)
(* The two tables the scheduler lives on, and the statements of BatchDao   *)
(* and TaskDao as functions from table values to table values.  Each is    *)
(* one SQL statement, hence atomic; whatever happens between two of them   *)
(* is up to the modules that use them.                                     *)
(*                                                                         *)
(* Of a row's clock only what the queries compare is kept: "age" says      *)
(* whether updatedAt lies in the future (a retry waiting for its back-off),*)
(* within the lease, or further back than SchedulerConfig's                *)
(* abandonedTimeoutMs.                                                     *)
(***************************************************************************)
EXTENDS JobCore, FiniteSets

CONSTANTS
  Tasks, Batches, Crawlers,
  BatchOf,      (* the batch of a task: TaskEntity.batchId                 *)
  CrawlerOf,    (* the source of a batch: BatchEntity.crawlerName          *)
  NoCrawler     (* ... null for a job that has no source                   *)

ASSUME FiniteAssumption == IsFiniteSet(Tasks) /\ IsFiniteSet(Batches)
ASSUME BatchOfAssumption == BatchOf \in [Tasks -> Batches]
ASSUME CrawlerOfAssumption ==
  /\ CrawlerOf \in [Batches -> Crawlers \cup {NoCrawler}]
  /\ NoCrawler \notin Crawlers

Absent == "absent"      (* no such row                                     *)

RowStatus == JobStatus \cup {Absent}
TaskRow   == [status : RowStatus, age : {"later", "fresh", "expired"},
              attempts : Nat]
TaskTable  == [Tasks -> TaskRow]
BatchTable == [Batches -> RowStatus]

TasksOf(b) == {t \in Tasks : BatchOf[t] = b}
crawlerName(t) == CrawlerOf[BatchOf[t]]

NoRow  == [status |-> Absent,    age |-> "fresh", attempts |-> 0]
NewRow == [status |-> "PENDING", age |-> "fresh", attempts |-> 0]

Rows(tk, b) == {t \in TasksOf(b) : tk[t].status # Absent}

(* UPDATE tasks SET ... WHERE id IN rows: absent rows are not touched.     *)
Update(tk, rows, row(_)) ==
  [t \in Tasks |-> IF t \in rows /\ tk[t].status # Absent
                   THEN row(tk[t]) ELSE tk[t]]

-----------------------------------------------------------------------------
(* TaskDao                                                                 *)

(* Changed: without AND t.updatedAt <= :now.                               *)
getRunnableTasksAtOnce(tk, bt) ==
  {t \in Tasks : /\ tk[t].status = "PENDING"
                 /\ bt[BatchOf[t]] \in {"PENDING", "RUNNING"}}

getRunnableTasks(tk, bt) ==
  {t \in Tasks : /\ tk[t].status = "PENDING"
                 /\ tk[t].age # "later"
                 /\ bt[BatchOf[t]] \in {"PENDING", "RUNNING"}}

getRunningTasks(tk) == {t \in Tasks : tk[t].status = "RUNNING"}

updateTaskStatus(tk, t, s) ==
  Update(tk, {t}, LAMBDA row : [row EXCEPT !.status = s, !.age = "fresh"])

markFailed(tk, t, n) ==
  Update(tk, {t}, LAMBDA row :
                    [status |-> "FAILED", age |-> "fresh", attempts |-> n])

markRetrying(tk, t, n) ==
  Update(tk, {t}, LAMBDA row :
                    [status |-> "PENDING", age |-> "later", attempts |-> n])

(* Changed: without AND status != 'SUCCESS'.                               *)
updateStatusForBatch(tk, b, s) ==
  Update(tk, TasksOf(b), LAMBDA row : [row EXCEPT !.status = s, !.age = "fresh"])

updateUnfinishedStatusForBatch(tk, b, s) ==
  Update(tk, {t \in TasksOf(b) : tk[t].status # "SUCCESS"},
         LAMBDA row : [row EXCEPT !.status = s, !.age = "fresh"])

resumeTasksForBatch(tk, b) ==
  Update(tk, {t \in TasksOf(b) : tk[t].status \in {"PAUSED", "BLOCKED"}},
         LAMBDA row : NewRow)

resetTasks(tk, ts) == Update(tk, ts, LAMBDA row : NewRow)

cancelTasks(tk, ts) ==
  Update(tk, {t \in ts : tk[t].status # "SUCCESS"},
         LAMBDA row : [row EXCEPT !.status = "CANCELLED", !.age = "fresh"])

insertTasks(tk, b) ==
  [t \in Tasks |-> IF t \in TasksOf(b) THEN NewRow ELSE tk[t]]

(* INSERT OR REPLACE of a batch deletes the row it replaces, and the       *)
(* foreign key of tasks cascades the deletion.                             *)
cascadeTasks(tk, b) ==
  [t \in Tasks |-> IF t \in TasksOf(b) THEN NoRow ELSE tk[t]]

-----------------------------------------------------------------------------
(* BatchDao                                                                *)

updateBatchStatus(bt, b, s) ==
  IF bt[b] = Absent THEN bt ELSE [bt EXCEPT ![b] = s]

getActiveBatches(bt)  == {b \in Batches : bt[b] \in {"RUNNING", "PENDING"}}
getBlockedBatches(bt) == {b \in Batches : bt[b] = "BLOCKED"}

hasActiveOrPendingBatches(bt) ==
  \E b \in Batches : bt[b] \in {"RUNNING", "PENDING", "PAUSED"}
=============================================================================
