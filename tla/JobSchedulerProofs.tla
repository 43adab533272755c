------------------------- MODULE JobSchedulerProofs -------------------------
(***************************************************************************)
(* The scheduler, for any tasks, batches, sources, coroutines and bounds.  *)
(*                                                                         *)
(* Type correctness: TypeOK is not inductive by itself: a coroutine's task *)
(* may be None, which no statement could use, so TypeInv adds that whoever *)
(* is at work has one.                                                     *)
(*                                                                         *)
(* One coroutine per task: WorkInv relates activeJobs to the coroutines    *)
(* inside run() and to the loop between launch and registration.           *)
(*                                                                         *)
(* What becomes of a row: TaskInv relates the queue of the loop and the    *)
(* coroutines' next writes to the table, RecoverInv does so for recovery.  *)
(*                                                                         *)
(* Where no request comes between, VerdictInv relates every status on its  *)
(* way to the tables to the rows, and where downloads run one at a time    *)
(* every step is then one of the queue of DownloadQueue, or none.          *)
(***************************************************************************)
EXTENDS JobScheduler, FiniteSetTheorems, SequenceTheorems, TLAPS

-----------------------------------------------------------------------------
(* What the statements of the two tables return: each maps a well-formed   *)
(* table to a well-formed table.                                           *)

(* JobStateMachine.transition has an answer for every status and event.    *)
LEMMA TransitionType ==
  ASSUME NEW current \in JobStatus, NEW event
  PROVE  transition(current, event) \in JobStatus
BY DEF transition

(* syncBatchCompletion's verdict is a status.                              *)
LEMMA FinalStatusType ==
  ASSUME NEW statuses
  PROVE  finalStatus(statuses) \in JobStatus
BY DEF finalStatus, JobStatus

(* A fresh row is a row.                                                   *)
LEMMA NewRowType == NewRow \in TaskRow /\ NoRow \in TaskRow
BY DEF NewRow, NoRow, TaskRow, RowStatus, JobStatus, Absent

(* The fields of a row of a well-formed table.                             *)
LEMMA TaskRowFields ==
  ASSUME NEW tk \in TaskTable, NEW t \in Tasks
  PROVE  /\ tk[t] \in TaskRow
         /\ tk[t].status \in RowStatus /\ tk[t].attempts \in Nat
BY DEF TaskTable, TaskRow

(* UPDATE tasks SET status = ... by id, by batch, by list.                 *)
LEMMA UpdateStatusType ==
  ASSUME NEW tk \in TaskTable, NEW s \in JobStatus
  PROVE  /\ \A t : updateTaskStatus(tk, t, s) \in TaskTable
         /\ \A b : updateUnfinishedStatusForBatch(tk, b, s) \in TaskTable
         /\ \A ts : cancelTasks(tk, ts) \in TaskTable
<1>1. ASSUME NEW t PROVE updateTaskStatus(tk, t, s) \in TaskTable
  BY DEF updateTaskStatus, Update, TaskTable, TaskRow, RowStatus
<1>2. ASSUME NEW b PROVE updateUnfinishedStatusForBatch(tk, b, s) \in TaskTable
  BY DEF updateUnfinishedStatusForBatch, Update, TaskTable, TaskRow, RowStatus
<1>3. ASSUME NEW ts PROVE cancelTasks(tk, ts) \in TaskTable
  BY DEF cancelTasks, Update, TaskTable, TaskRow, RowStatus, JobStatus
<1> QED
  BY <1>1, <1>2, <1>3

(* The statements that count an attempt.                                   *)
LEMMA AttemptType ==
  ASSUME NEW tk \in TaskTable, NEW t, NEW n \in Nat
  PROVE  /\ markFailed(tk, t, n) \in TaskTable
         /\ markRetrying(tk, t, n) \in TaskTable
<1>1. markFailed(tk, t, n) \in TaskTable
  BY DEF markFailed, Update, TaskTable, TaskRow, RowStatus, JobStatus
<1>2. markRetrying(tk, t, n) \in TaskTable
  BY DEF markRetrying, Update, TaskTable, TaskRow, RowStatus, JobStatus
<1> QED
  BY <1>1, <1>2

(* The statements that begin a task anew, or delete it.                    *)
LEMMA ResetType ==
  ASSUME NEW tk \in TaskTable
  PROVE  /\ \A b : resumeTasksForBatch(tk, b) \in TaskTable
         /\ \A ts : resetTasks(tk, ts) \in TaskTable
         /\ \A b : insertTasks(tk, b) \in TaskTable
         /\ \A b : cascadeTasks(tk, b) \in TaskTable
<1>1. ASSUME NEW b PROVE resumeTasksForBatch(tk, b) \in TaskTable
  BY NewRowType DEF resumeTasksForBatch, Update, TaskTable
<1>2. ASSUME NEW ts PROVE resetTasks(tk, ts) \in TaskTable
  BY NewRowType DEF resetTasks, Update, TaskTable
<1>3. ASSUME NEW b PROVE insertTasks(tk, b) \in TaskTable
  BY NewRowType DEF insertTasks, TaskTable
<1>4. ASSUME NEW b PROVE cascadeTasks(tk, b) \in TaskTable
  BY NewRowType DEF cascadeTasks, TaskTable
<1> QED
  BY <1>1, <1>2, <1>3, <1>4

(* BatchDao.updateStatus and its like.                                     *)
LEMMA UpdateBatchType ==
  ASSUME NEW bt \in BatchTable, NEW b \in Batches, NEW s \in JobStatus
  PROVE  updateBatchStatus(bt, b, s) \in BatchTable
BY DEF updateBatchStatus, BatchTable, RowStatus

-----------------------------------------------------------------------------

(* What the steps rely on beyond the types: a coroutine that is not idle   *)
(* has a task, and so has the polling loop while it needs one.             *)
HasTask ==
  /\ \A r \in Runners : runner[r].pc # "idle" => runner[r].task \in Tasks
  /\ poll.pc \in {"register", "recoverWrite"} => poll.task \in Tasks
  /\ poll.pc = "register" => poll.runner \in Runners

TypeInv == TypeOK /\ HasTask

(* The record of a coroutine that does not exist is well-formed.           *)
LEMMA IdleType == Idle \in RunnerState
BY DEF Idle, RunnerState, RunnerPc, InRun, Kinds, JobResult, JobStatus

(* ... and so is the polling loop between two cycles.                      *)
LEMMA WaitingType ==
  /\ Waiting \in PollState
  /\ [Waiting EXCEPT !.pc = "stopping"] \in PollState
  /\ [Waiting EXCEPT !.pc = "stopped"] \in PollState
BY DEF Waiting, PollState, PollPc, JobStatus, EmptyQueue, NotQueued

(* Giving one coroutine another well-formed record.                        *)
LEMMA BecomeType ==
  ASSUME TypeInv, NEW r \in Runners, NEW next \in RunnerState,
         next.pc # "idle" => next.task \in Tasks, Become(r, next)
  PROVE  /\ runner' \in [Runners -> RunnerState]
         /\ \A q \in Runners : runner'[q].pc # "idle" => runner'[q].task \in Tasks
BY DEF TypeInv, TypeOK, HasTask, Become

(* Going on to another program counter.                                    *)
LEMMA GotoType ==
  ASSUME TypeInv, NEW r \in Runners, NEW pc \in RunnerPc,
         runner[r].task \in Tasks, Goto(r, pc)
  PROVE  /\ runner' \in [Runners -> RunnerState]
         /\ \A q \in Runners : runner'[q].pc # "idle" => runner'[q].task \in Tasks
<1> DEFINE next == [runner[r] EXCEPT !.pc = pc]
<1>1. next \in RunnerState /\ next.task \in Tasks
  BY DEF TypeInv, TypeOK, RunnerState
<1>2. Become(r, next)
  BY DEF Goto
<1> HIDE DEF next
<1> QED
  BY <1>1, <1>2, BecomeType

(* The app starts in a well-formed state.                                  *)
LEMMA InitType == Init => TypeInv
<1> SUFFICES ASSUME Init PROVE TypeInv
  OBVIOUS
<1>1. task \in TaskTable
  BY NewRowType DEF Init, TaskTable
<1>2. batch \in BatchTable
  BY DEF Init, BatchTable, RowStatus, JobStatus
<1>3. poll \in PollState /\ poll.pc = "wait"
  BY WaitingType DEF Init, Waiting
<1>4. /\ runner \in [Runners -> RunnerState]
      /\ \A r \in Runners : runner[r].pc = "idle"
  BY IdleType DEF Init, Idle
<1>5. script \in [Clients -> Seq(Statement)]
  BY EmptySeq DEF Init
<1>6. requests \in 0..MaxRequests /\ crashes \in 0..MaxCrashes
  BY BoundAssumption DEF Init
<1>7. /\ activeJobs \in [Tasks -> Runners \cup {None, Dead}]
      /\ blockedCrawlers \subseteq Crawlers
      /\ globalPool \in Nat /\ crawlerPools \in [Crawlers -> Nat]
  BY DEF Init
<1> QED
  BY <1>1, <1>2, <1>3, <1>4, <1>5, <1>6, <1>7 DEF TypeInv, TypeOK, HasTask

(* The steps of the polling loop.                                          *)
LEMMA PollType == TypeInv /\ Poll => TypeInv'
<1> SUFFICES ASSUME TypeInv, Poll PROVE TypeInv'
  OBVIOUS
<1> USE DEF TypeInv, TypeOK, HasTask, pollVars, others, store, pools
<1>1. CASE Wake
  <2>1. poll' \in PollState /\ poll'.pc = "recover"
    BY <1>1 DEF Wake, PollState, PollPc, getRunningTasks
  <2> QED
    BY <1>1, <2>1 DEF Wake
<1>2. CASE RecoverWrite
  <2>1. poll' \in PollState /\ poll'.pc = "recover"
    BY <1>2 DEF RecoverWrite, PollState, PollPc, JobStatus
  <2>2. task' \in TaskTable
    <3>1. poll.target \in JobStatus
      BY DEF PollState, JobStatus
    <3> QED
      BY <1>2, <3>1, UpdateStatusType DEF RecoverWrite
  <2> QED
    BY <1>2, <2>1, <2>2 DEF RecoverWrite
<1>3. CASE SyncBlocked
  <2>1. poll' \in PollState /\ poll'.pc = "fetch"
    BY <1>3 DEF SyncBlocked, PollState, PollPc
  <2>2. blockedCrawlers' \subseteq Crawlers
    BY <1>3, CrawlerOfAssumption DEF SyncBlocked, getBlockedBatches
  <2> QED
    BY <1>3, <2>1, <2>2 DEF SyncBlocked
<1>4. CASE FetchRunnable
  <2>1. \A t \in Tasks : task[t].attempts \in Nat
    BY TaskRowFields
  <2>2. poll' \in PollState /\ poll'.pc \in {"empty", "launch"}
    BY <1>4, <2>1 DEF FetchRunnable, PollState, PollPc, getRunnableTasks
  <2> QED
    BY <1>4, <2>2 DEF FetchRunnable
<1>5. CASE CheckEmpty
  <2>1. poll' \in PollState /\ poll'.pc \in {"wait", "stopping"}
    BY <1>5, WaitingType DEF CheckEmpty, Waiting
  <2> QED
    BY <1>5, <2>1 DEF CheckEmpty
<1>6. CASE Register
  <2>1. poll' \in PollState /\ poll'.pc = "launch"
    BY <1>6 DEF Register, PollState, PollPc
  <2>2. activeJobs' \in [Tasks -> Runners \cup {None, Dead}]
    BY <1>6 DEF Register
  <2> QED
    BY <1>6, <2>1, <2>2 DEF Register
<1>7. CASE EndOfCycle
  <2>1. poll' \in PollState /\ poll'.pc = "wait"
    BY <1>7, WaitingType DEF EndOfCycle, Waiting
  <2> QED
    BY <1>7, <2>1 DEF EndOfCycle
<1>8. ASSUME NEW t \in Tasks, RecoverAbandoned(t) PROVE TypeInv'
  <2>1. recoveredStatus(BatchOf[t]) \in {"PENDING", "CANCELLED", "PAUSED", "BLOCKED"}
    BY DEF recoveredStatus
  <2>2. poll' \in PollState /\ poll'.pc \in {"recover", "recoverWrite"}
        /\ (poll'.pc = "recoverWrite" => poll'.task \in Tasks)
    BY <1>8, <2>1 DEF RecoverAbandoned, PollState, PollPc
  <2> QED
    BY <1>8, <2>2 DEF RecoverAbandoned
<1>9. ASSUME NEW t \in Tasks, SkipActive(t) PROVE TypeInv'
  <2>1. poll' \in PollState /\ poll'.pc = "launch"
    BY <1>9 DEF SkipActive, Popped, PollState
  <2> QED
    BY <1>9, <2>1 DEF SkipActive
<1>10. ASSUME NEW t \in Tasks, PoolFull(t) PROVE TypeInv'
  <2>1. poll' \in PollState /\ poll'.pc = "wait"
    BY <1>10, WaitingType DEF PoolFull, Waiting
  <2> QED
    BY <1>10, <2>1 DEF PoolFull
<1>11. ASSUME NEW t \in Tasks, Saturate(t) PROVE TypeInv'
  <2>1. crawlerName(t) \in Crawlers
    BY <1>11, CrawlerOfAssumption, BatchOfAssumption
       DEF Saturate, crawlerRoom, crawlerName
  <2>2. poll' \in PollState /\ poll'.pc = "launch"
    BY <1>11, <2>1 DEF Saturate, Popped, PollState
  <2> QED
    BY <1>11, <2>2 DEF Saturate
<1>12. ASSUME NEW t \in Tasks, NEW r \in Runners, Launch(t, r) PROVE TypeInv'
  <2>1. poll.queue[t] \in Nat
    BY <1>12 DEF Launch, Popped, PollState
  <2>2. poll' \in PollState /\ poll'.task = t /\ poll'.runner = r
        /\ poll'.pc = "register"
    BY <1>12 DEF Launch, PollState, PollPc
  <2> DEFINE next == [Idle EXCEPT !.pc = "launched", !.task = t,
                                  !.attempts = poll.queue[t]]
  <2>3. next \in RunnerState /\ next.task = t
    BY <2>1, IdleType DEF Idle, RunnerState, RunnerPc, InRun
  <2>4. Become(r, next)
    BY <1>12 DEF Launch, Become
  <2> HIDE DEF next
  <2>5. /\ runner' \in [Runners -> RunnerState]
        /\ \A q \in Runners : runner'[q].pc # "idle" => runner'[q].task \in Tasks
    BY <2>3, <2>4, BecomeType
  <2>6. globalPool' \in Nat
    BY <1>12 DEF Launch
  <2>7. crawlerPools' \in [Crawlers -> Nat]
    <3>1. CASE crawlerName(t) = NoCrawler
      BY <1>12, <3>1 DEF Launch
    <3>2. CASE crawlerName(t) # NoCrawler
      <4>1. crawlerPools' = [crawlerPools EXCEPT ![crawlerName(t)] = @ + 1]
        BY <1>12, <3>2 DEF Launch
      <4>2. \A n \in Nat : n + 1 \in Nat
        OBVIOUS
      <4> QED
        BY <4>1, <4>2
    <3> QED
      BY <3>1, <3>2
  <2> QED
    BY <1>12, <2>2, <2>5, <2>6, <2>7 DEF Launch
<1> QED
  BY <1>1, <1>2, <1>3, <1>4, <1>5, <1>6, <1>7, <1>8, <1>9, <1>10, <1>11, <1>12
     DEF Poll

(* A runner's step leaves the polling loop and the scripts alone; what it  *)
(* may change is checked piece by piece.                                   *)
LEMMA RunnerFrame ==
  ASSUME TypeInv,
         UNCHANGED <<poll, others>>,
         task' \in TaskTable, batch' \in BatchTable,
         activeJobs' \in [Tasks -> Runners \cup {None, Dead}],
         blockedCrawlers' \subseteq Crawlers,
         globalPool' \in Nat, crawlerPools' \in [Crawlers -> Nat],
         runner' \in [Runners -> RunnerState],
         \A q \in Runners : runner'[q].pc # "idle" => runner'[q].task \in Tasks
  PROVE  TypeInv'
BY DEF TypeInv, TypeOK, HasTask, others

(* The next record of a runner that goes on with its task.                 *)
LEMMA GoesOn ==
  ASSUME TypeInv, NEW r \in Runners, runner[r].pc # "idle",
         NEW next, Become(r, next), next \in RunnerState,
         next.task = runner[r].task
  PROVE  /\ runner' \in [Runners -> RunnerState]
         /\ \A q \in Runners : runner'[q].pc # "idle" => runner'[q].task \in Tasks
BY BecomeType DEF TypeInv, HasTask

(* A runner's record with new fields is a runner's record.                 *)
LEMMA NextRecord ==
  \A x \in RunnerState, pc \in RunnerPc, kind \in Kinds :
    /\ [x EXCEPT !.pc = pc, !.result = kind] \in RunnerState
    /\ [x EXCEPT !.pc = pc, !.result = kind].task = x.task
BY DEF RunnerState

(* ... also when it counts an attempt.                                     *)
LEMMA NextAttempt ==
  \A x \in RunnerState, pc \in RunnerPc, kind \in Kinds, n \in Nat :
    /\ [x EXCEPT !.pc = pc, !.result = kind, !.attempts = n] \in RunnerState
    /\ [x EXCEPT !.pc = pc, !.result = kind, !.attempts = n].task = x.task
BY DEF RunnerState

(* The steps of a JobRunner coroutine.                                     *)
LEMMA RunType == ASSUME NEW r \in Runners PROVE TypeInv /\ Run(r) => TypeInv'
<1> SUFFICES ASSUME TypeInv, Run(r) PROVE TypeInv'
  OBVIOUS
<1> DEFINE me == runner[r]
           RunnerType ==
             /\ runner' \in [Runners -> RunnerState]
             /\ \A q \in Runners :
                  runner'[q].pc # "idle" => runner'[q].task \in Tasks
<1>0. /\ task \in TaskTable /\ batch \in BatchTable
      /\ activeJobs \in [Tasks -> Runners \cup {None, Dead}]
      /\ blockedCrawlers \subseteq Crawlers
      /\ globalPool \in Nat /\ crawlerPools \in [Crawlers -> Nat]
  BY DEF TypeInv, TypeOK
<1>1. me.pc # "idle" /\ me \in RunnerState
  BY DEF Run, PreClaim, ClaimTask, ClaimBatch, PreExec, Handle, Latest, Write,
         BlockBatch, BlockCrawler, BlockEach, SyncTasks, SyncBatch, SyncWrite,
         Abort, NeverStarted, Complete, Rethrow, Release, At, Suspending,
         InRun, TypeInv, TypeOK
<1>2. me.task \in Tasks /\ batchOf(r) \in Batches
  BY <1>1, BatchOfAssumption DEF TypeInv, HasTask, batchOf
<1>3. ASSUME NEW pc \in RunnerPc, Goto(r, pc) PROVE RunnerType
  BY <1>2, <1>3, GotoType
<1>4. {"complete", "claimTask", "claimBatch", "limit", "handle", "latest",
       "write", "syncTasks", "syncBatch", "syncWrite", "blockBatch",
       "blockCrawler", "blockEach", "abort", "leaked", "rethrow", "release"}
        \subseteq RunnerPc
  BY DEF RunnerPc, InRun
<1> USE DEF runnerVars, store, pools
<1>5. CASE PreClaim(r)
  <2>1. RunnerType
    BY <1>5, <1>3, <1>4 DEF PreClaim
  <2> QED
    BY <1>0, <1>5, <2>1, RunnerFrame DEF PreClaim
<1>6. CASE ClaimTask(r)
  <2>1. RunnerType
    BY <1>6, <1>3, <1>4 DEF ClaimTask
  <2>2. transition("PENDING", "CLAIMED") \in JobStatus
    BY TransitionType DEF JobStatus
  <2>3. task' \in TaskTable
    BY <1>0, <1>6, <2>2, UpdateStatusType DEF ClaimTask
  <2> QED
    BY <1>0, <1>6, <2>1, <2>3, RunnerFrame DEF ClaimTask
<1>7. CASE ClaimBatch(r)
  <2>1. RunnerType
    BY <1>7, <1>3, <1>4 DEF ClaimBatch
  <2>2. batch' \in BatchTable
    BY <1>0, <1>2, <1>7, UpdateBatchType DEF ClaimBatch, JobStatus
  <2> QED
    BY <1>0, <1>7, <2>1, <2>2, RunnerFrame DEF ClaimBatch
<1>8. CASE PreExec(r)
  <2>1. RunnerType
    BY <1>8, <1>3, <1>4 DEF PreExec
  <2> QED
    BY <1>0, <1>8, <2>1, RunnerFrame DEF PreExec
<1>9. ASSUME NEW result \in JobResult, Handle(r, result) PROVE TypeInv'
  <2> DEFINE failed == [me EXCEPT !.pc = "write", !.result = "Fatal",
                                  !.attempts = me.attempts + 1]
             answered == [me EXCEPT !.pc = "latest", !.result = result]
  <2>1. /\ failed \in RunnerState /\ failed.task = me.task
        /\ answered \in RunnerState /\ answered.task = me.task
    <3>1. me.attempts + 1 \in Nat
      BY <1>1 DEF RunnerState
    <3>2. result \in Kinds /\ "Fatal" \in Kinds
      BY DEF Kinds, JobResult
    <3>3. "write" \in RunnerPc /\ "latest" \in RunnerPc
      BY <1>4
    <3>4. failed \in RunnerState
      BY <1>1, <3>1, <3>2, <3>3, NextAttempt
    <3>6. failed.task = me.task
      BY <1>1, SMT DEF RunnerState
    <3>5. answered \in RunnerState /\ answered.task = me.task
      BY <1>1, <3>2, <3>3, NextRecord
    <3> QED
      BY <3>4, <3>5, <3>6
  <2>2. Become(r, failed) \/ Become(r, answered)
    BY <1>9 DEF Handle
  <2> HIDE DEF failed, answered
  <2>3. RunnerType
    BY <1>1, <2>1, <2>2, GoesOn
  <2> QED
    BY <1>0, <1>9, <2>3, RunnerFrame DEF Handle
<1>10. CASE Latest(r)
  <2> DEFINE latest == readBack(rowOf(r), me.attempts)
             n == latest.attempts + 1
             counted(kind) == [me EXCEPT !.pc = "write", !.result = kind,
                                         !.attempts = n]
             moved(event) == [me EXCEPT !.pc = "write",
                                !.target = transition(latest.status, event)]
             written == [me EXCEPT !.pc = "write"]
             ended   == [me EXCEPT !.pc = "complete"]
             isNext(x) == x \in RunnerState /\ x.task = me.task
  <2>1. latest.status \in JobStatus /\ latest.attempts \in Nat
    <3>1. CASE rowOf(r).status = Absent
      BY <1>1, <3>1 DEF readBack, NewRow, JobStatus, RunnerState
    <3>2. CASE rowOf(r).status # Absent
      BY <1>0, <1>2, <3>2, TaskRowFields DEF readBack, rowOf, RowStatus
    <3> QED
      BY <3>1, <3>2
  <2>2. isNext(counted("Retry")) /\ isNext(counted("Fatal"))
    <3>1. n \in Nat
      BY <2>1
    <3>2. "Retry" \in Kinds /\ "Fatal" \in Kinds
      BY DEF Kinds, JobResult
    <3>3. "write" \in RunnerPc
      BY <1>4
    <3> HIDE DEF n
    <3>4. counted("Retry") \in RunnerState /\ counted("Fatal") \in RunnerState
      BY <1>1, <3>1, <3>2, <3>3, NextAttempt
    <3>5. counted("Retry").task = me.task /\ counted("Fatal").task = me.task
      BY <1>1, SMT DEF RunnerState
    <3> QED
      BY <3>4, <3>5
  <2>3. ASSUME NEW event PROVE isNext(moved(event))
    <3>1. transition(latest.status, event) \in JobStatus
      BY <2>1, TransitionType
    <3> HIDE DEF latest
    <3> QED
      BY <1>1, <3>1 DEF RunnerState, RunnerPc, InRun
  <2>4. isNext(written) /\ isNext(ended)
    BY <1>1 DEF RunnerState, RunnerPc, InRun
  <2>5. \/ Become(r, ended) \/ Become(r, written)
        \/ Become(r, counted("Retry")) \/ Become(r, counted("Fatal"))
        \/ Become(r, moved("CANCEL_REQUESTED"))
        \/ Become(r, moved("BLOCKED_BY_PROTECTION"))
    BY <1>10 DEF Latest
  <2>6. \E x : isNext(x) /\ Become(r, x)
    <3> HIDE DEF counted, moved, written, ended, isNext
    <3> QED
      BY <2>2, <2>3, <2>4, <2>5
  <2>7. RunnerType
    BY <1>1, <2>6, GoesOn
  <2> QED
    BY <1>0, <1>10, <2>7, RunnerFrame DEF Latest
<1>11. CASE Write(r)
  <2>1. RunnerType
    BY <1>11, <1>3, <1>4 DEF Write
  <2>2. task' \in TaskTable
    <3>1. me.attempts \in Nat /\ me.target \in JobStatus /\ "SUCCESS" \in JobStatus
      BY <1>1 DEF RunnerState, JobStatus
    <3>2. /\ updateTaskStatus(task, me.task, "SUCCESS") \in TaskTable
          /\ updateTaskStatus(task, me.task, me.target) \in TaskTable
      BY <1>0, <3>1, UpdateStatusType
    <3>3. /\ markFailed(task, me.task, me.attempts) \in TaskTable
          /\ markRetrying(task, me.task, me.attempts) \in TaskTable
      BY <1>0, <3>1, AttemptType
    <3> QED
      BY <1>11, <3>2, <3>3 DEF Write
  <2> QED
    BY <1>0, <1>11, <2>1, <2>2, RunnerFrame DEF Write
<1>12. CASE BlockBatch(r)
  <2>1. RunnerType
    BY <1>12, <1>3, <1>4 DEF BlockBatch
  <2>2. batch' \in BatchTable
    BY <1>0, <1>1, <1>2, <1>12, UpdateBatchType DEF BlockBatch, RunnerState
  <2> QED
    BY <1>0, <1>12, <2>1, <2>2, RunnerFrame DEF BlockBatch
<1>13. CASE BlockCrawler(r)
  <2> DEFINE crawler == CrawlerOf[batchOf(r)]
             next == [me EXCEPT !.pc = "blockEach",
                  !.todo = {b \in getActiveBatches(batch) : CrawlerOf[b] = crawler}]
  <2>1. next \in RunnerState /\ next.task = me.task
    BY <1>1 DEF RunnerState, RunnerPc, InRun, getActiveBatches
  <2>2. \/ Goto(r, "complete") /\ UNCHANGED blockedCrawlers
        \/ Become(r, next) /\ crawler \in Crawlers
           /\ blockedCrawlers' = blockedCrawlers \cup {crawler}
    BY <1>2, <1>13, CrawlerOfAssumption DEF BlockCrawler
  <2> HIDE DEF next
  <2>3. RunnerType
    BY <1>1, <1>3, <1>4, <2>1, <2>2, GoesOn
  <2>4. blockedCrawlers' \subseteq Crawlers
    BY <1>0, <2>2
  <2> QED
    BY <1>0, <1>13, <2>3, <2>4, RunnerFrame DEF BlockCrawler
<1>14. CASE BlockEach(r)
  <2>1. CASE Goto(r, "complete") /\ UNCHANGED batch
    <3>1. RunnerType
      BY <2>1, <1>3, <1>4
    <3> QED
      BY <1>0, <1>14, <2>1, <3>1, RunnerFrame DEF BlockEach
  <2>2. ASSUME NEW b \in me.todo, batch' = updateBatchStatus(batch, b, "BLOCKED"),
               Become(r, [me EXCEPT !.todo = @ \ {b}])
        PROVE  TypeInv'
    <3> DEFINE next == [me EXCEPT !.todo = @ \ {b}]
    <3>1. next \in RunnerState /\ next.task = me.task /\ b \in Batches
      BY <1>1 DEF RunnerState
    <3>2. batch' \in BatchTable
      BY <1>0, <2>2, <3>1, UpdateBatchType DEF JobStatus
    <3> HIDE DEF next
    <3>3. Become(r, next)
      BY <2>2 DEF next
    <3>4. RunnerType
      BY <1>1, <3>1, <3>3, GoesOn
    <3> QED
      BY <1>0, <1>14, <3>2, <3>4, RunnerFrame DEF BlockEach
  <2> QED
    BY <1>14, <2>1, <2>2 DEF BlockEach
<1>15. CASE SyncTasks(r)
  <2> DEFINE ended == [me EXCEPT !.pc = "complete"]
             decided(s) == [me EXCEPT !.pc = "syncBatch", !.target = s]
             isNext(x) == x \in RunnerState /\ x.task = me.task
  <2>1. isNext(ended)
    BY <1>1 DEF RunnerState, RunnerPc, InRun
  <2>2. ASSUME NEW s \in JobStatus PROVE isNext(decided(s))
    BY <1>1 DEF RunnerState, RunnerPc, InRun
  <2>3. \E x : isNext(x) /\ Become(r, x)
    <3>1. \/ Become(r, ended)
          \/ \E statuses : Become(r, decided(finalStatus(statuses)))
          \/ Become(r, decided("RUNNING"))
      BY <1>15 DEF SyncTasks
    <3>2. \A statuses : finalStatus(statuses) \in JobStatus
      BY FinalStatusType
    <3>3. "RUNNING" \in JobStatus
      BY DEF JobStatus
    <3> HIDE DEF ended, decided, isNext
    <3> QED
      BY <2>1, <2>2, <3>1, <3>2, <3>3
  <2>4. RunnerType
    BY <1>1, <2>3, GoesOn
  <2> QED
    BY <1>0, <1>15, <2>4, RunnerFrame DEF SyncTasks
<1>16. CASE SyncBatch(r)
  <2>1. RunnerType
    BY <1>16, <1>3, <1>4 DEF SyncBatch
  <2> QED
    BY <1>0, <1>16, <2>1, RunnerFrame DEF SyncBatch
<1>17. CASE SyncWrite(r)
  <2>1. RunnerType
    BY <1>17, <1>3, <1>4 DEF SyncWrite
  <2>2. batch' \in BatchTable
    BY <1>0, <1>1, <1>2, <1>17, UpdateBatchType DEF SyncWrite, RunnerState
  <2> QED
    BY <1>0, <1>17, <2>1, <2>2, RunnerFrame DEF SyncWrite
<1>18. CASE Abort(r) \/ NeverStarted(r)
  <2>1. RunnerType
    BY <1>18, <1>3, <1>4 DEF Abort, NeverStarted
  <2> QED
    BY <1>0, <1>18, <2>1, RunnerFrame DEF Abort, NeverStarted
<1>19. CASE Complete(r) \/ Rethrow(r)
  <2>1. RunnerType
    BY <1>19, <1>3, <1>4 DEF Complete, Rethrow
  <2>2. activeJobs' \in [Tasks -> Runners \cup {None, Dead}]
    BY <1>0, <1>19 DEF Complete, Rethrow
  <2> QED
    BY <1>0, <1>19, <2>1, <2>2, RunnerFrame DEF Complete, Rethrow
<1>20. CASE Release(r)
  <2>1. Idle.pc = "idle"
    BY DEF Idle
  <2>2. RunnerType
    BY <1>20, <2>1, IdleType, BecomeType DEF Release
  <2>3. \A n \in Nat : release(n) \in Nat
    BY DEF release
  <2>4. globalPool' \in Nat
    BY <1>0, <1>20, <2>3 DEF Release
  <2>5. crawlerPools' \in [Crawlers -> Nat]
    <3> DEFINE c == crawlerName(me.task)
    <3>1. \/ crawlerPools' = crawlerPools
          \/ crawlerPools' = [crawlerPools EXCEPT ![c] = release(@)]
      BY <1>20 DEF Release
    <3> HIDE DEF c
    <3> QED
      BY <1>0, <2>3, <3>1
  <2>6. activeJobs' \in [Tasks -> Runners \cup {None, Dead}]
    BY <1>0, <1>20 DEF Release
  <2> QED
    BY <1>0, <1>20, <2>2, <2>4, <2>5, <2>6, RunnerFrame DEF Release
<1> QED
  BY <1>5, <1>6, <1>7, <1>8, <1>9, <1>10, <1>11, <1>12, <1>13, <1>14, <1>15,
     <1>16, <1>17, <1>18, <1>19, <1>20
     DEF Run

(* A statement of a script is well-formed when its argument fits.          *)
LEMMA DoType ==
  ASSUME NEW op \in Operations, NEW b \in Batches,
         NEW arg \in JobStatus \cup Tasks \cup {None},
         op = "setBatch" => arg \in JobStatus,
         op = "setTasks" => arg \in {"PAUSED", "CANCELLED"}
  PROVE  Do(op, b, arg) \in Statement
BY DEF Do, Statement

(* The statements without an argument, and those that write a status.      *)
LEMMA PlainDoType ==
  ASSUME NEW b \in Batches
  PROVE  /\ \A op \in Operations \ {"setBatch", "setTasks"} :
              Do(op, b, None) \in Statement
         /\ \A s \in JobStatus : Do("setBatch", b, s) \in Statement
         /\ \A s \in {"PAUSED", "CANCELLED"} : Do("setTasks", b, s) \in Statement
<1>1. ASSUME NEW op \in Operations \ {"setBatch", "setTasks"}
      PROVE  Do(op, b, None) \in Statement
  BY DoType
<1>2. ASSUME NEW s \in JobStatus PROVE Do("setBatch", b, s) \in Statement
  BY DoType DEF Operations
<1>3. ASSUME NEW s \in {"PAUSED", "CANCELLED"} PROVE Do("setTasks", b, s) \in Statement
  BY DoType DEF Operations, JobStatus
<1> QED
  BY <1>1, <1>2, <1>3

(* Every script a request starts is a sequence of statements.              *)
LEMMA ScriptType ==
  ASSUME NEW b \in Batches
  PROVE  /\ \A s \in {"PAUSED", "CANCELLED"} : stopScript(b, s) \in Seq(Statement)
         /\ resumeScript(b) \in Seq(Statement)
         /\ replayScript(b) \in Seq(Statement)
         /\ createScript(b) \in Seq(Statement)
<1>1. \A x, y, z, u, v \in Statement :
        /\ <<x>> \in Seq(Statement) /\ <<x, y>> \in Seq(Statement)
        /\ <<x, y, z>> \in Seq(Statement) /\ <<x, y, z, u, v>> \in Seq(Statement)
  OBVIOUS
<1>2. ASSUME NEW s \in {"PAUSED", "CANCELLED"} PROVE stopScript(b, s) \in Seq(Statement)
  <2>1. "cancelJobs" \in Operations \ {"setBatch", "setTasks"}
    BY DEF Operations
  <2>2. s \in JobStatus
    BY DEF JobStatus
  <2> QED
    BY <1>1, <2>1, <2>2, PlainDoType DEF stopScript
<1>3. resumeScript(b) \in Seq(Statement)
  <2>1. {"resumeTasks", "resumeBlocked", "unblock", "resumeJob"}
          \subseteq Operations \ {"setBatch", "setTasks"}
    BY DEF Operations
  <2>2. "RUNNING" \in JobStatus
    BY DEF JobStatus
  <2> DEFINE first == << Do("setBatch", b, "RUNNING"), Do("resumeTasks", b, None) >>
             second == << Do("resumeBlocked", b, None), Do("unblock", b, None) >>
             last == << Do("resumeJob", b, None) >>
  <2>3. /\ first \in Seq(Statement) /\ second \in Seq(Statement)
        /\ last \in Seq(Statement)
    BY <1>1, <2>1, <2>2, PlainDoType
  <2>4. resumeScript(b) = first \o (IF CrawlerOf[b] = NoCrawler THEN <<>> ELSE second)
                          \o last
    BY DEF resumeScript
  <2>5. <<>> \in Seq(Statement)
    BY EmptySeq
  <2> HIDE DEF first, second, last
  <2>6. (IF CrawlerOf[b] = NoCrawler THEN <<>> ELSE second) \in Seq(Statement)
    BY <2>3, <2>5
  <2>7. first \o (IF CrawlerOf[b] = NoCrawler THEN <<>> ELSE second) \in Seq(Statement)
    BY <2>3, <2>6, ConcatProperties
  <2> QED
    BY <2>3, <2>4, <2>7, ConcatProperties
<1>4. replayScript(b) \in Seq(Statement)
  <2>1. {"resetBatch", "start"} \subseteq Operations \ {"setBatch", "setTasks"}
    BY DEF Operations
  <2>2. "PENDING" \in JobStatus
    BY DEF JobStatus
  <2> QED
    BY <1>1, <2>1, <2>2, PlainDoType DEF replayScript
<1>5. createScript(b) \in Seq(Statement)
  <2>1. {"insertBatch", "insertTasks", "start"}
          \subseteq Operations \ {"setBatch", "setTasks"}
    BY DEF Operations
  <2> QED
    BY <1>1, <2>1, PlainDoType DEF createScript
<1> QED
  BY <1>2, <1>3, <1>4, <1>5

(* ... and so are those of a request about one task.                       *)
LEMMA TaskScriptType ==
  ASSUME NEW t \in Tasks
  PROVE  /\ replayTaskScript(t) \in Seq(Statement)
         /\ cancelTaskScript(t) \in Seq(Statement)
<1>1. BatchOf[t] \in Batches
  BY BatchOfAssumption
<1>2. "PENDING" \in JobStatus
  BY DEF JobStatus
<1>3. {"start", "resumeJob", "resetTask", "cancelTask"}
        \subseteq Operations \ {"setBatch", "setTasks"}
  BY DEF Operations
<1>4. /\ Do("resetTask", BatchOf[t], t) \in Statement
      /\ Do("cancelTask", BatchOf[t], t) \in Statement
  BY <1>1, <1>3, DoType
<1>5. /\ Do("setBatch", BatchOf[t], "PENDING") \in Statement
      /\ Do("start", BatchOf[t], None) \in Statement
      /\ Do("resumeJob", BatchOf[t], None) \in Statement
  BY <1>1, <1>2, <1>3, PlainDoType
<1>6. \A x, y, z, u \in Statement :
        <<x>> \in Seq(Statement) /\ <<x, y, z, u>> \in Seq(Statement)
  OBVIOUS
<1> QED
  BY <1>4, <1>5, <1>6 DEF replayTaskScript, cancelTaskScript

(* Whatever order the blocked batches of a source are resumed in.          *)
LEMMA ResumeAllType ==
  ASSUME NEW S \in SUBSET Batches, NEW order \in orders(S)
  PROVE  resumeAll(order) \in Seq(Statement)
<1>1. Cardinality(S) \in Nat
  BY FiniteAssumption, FS_CardinalityType, FS_Subset
<1>2. order \in [1..Cardinality(S) -> Batches]
  BY DEF orders
<1>3. order \in Seq(Batches)
  BY <1>1, <1>2, SeqDef
<1>4. Len(order) \in Nat /\ order \in [1..Len(order) -> Batches]
  BY <1>3, LenProperties
<1> DEFINE n == 2 * Len(order)
<1>5. n \in Nat
  BY <1>4
<1>6. ASSUME NEW i \in 1..n PROVE resumeAll(order)[i] \in Statement
  <2>1. CASE i % 2 = 1
    <3>1. (i + 1) \div 2 \in 1..Len(order)
      BY <1>4, <2>1, SMTT(30)
    <3>2. order[(i + 1) \div 2] \in Batches
      BY <1>4, <3>1
    <3> QED
      BY <1>6, <2>1, <3>2, PlainDoType DEF resumeAll, JobStatus
  <2>2. CASE i % 2 # 1
    <3>1. i \div 2 \in 1..Len(order)
      BY <1>4, <2>2, SMTT(30)
    <3>2. order[i \div 2] \in Batches
      BY <1>4, <3>1
    <3>3. "resumeTasks" \in Operations \ {"setBatch", "setTasks"}
      BY DEF Operations
    <3> QED
      BY <1>6, <2>2, <3>2, <3>3, PlainDoType DEF resumeAll
  <2> QED
    BY <2>1, <2>2
<1>7. resumeAll(order) \in [1..n -> Statement]
  <2>1. resumeAll(order) = [i \in 1..n |-> resumeAll(order)[i]]
    BY DEF resumeAll
  <2> HIDE DEF n
  <2> QED
    BY <1>6, <2>1
<1> HIDE DEF n
<1> QED
  BY <1>5, <1>7, SeqDef

(* The scripts after a client's statement.                                 *)
ScriptsType == script' \in [Clients -> Seq(Statement)]

(* A new request changes its client's script and the bound's counter only. *)
LEMMA RequestType == ASSUME NEW c \in Clients PROVE TypeInv /\ Request(c) => TypeInv'
<1> SUFFICES ASSUME TypeInv, Request(c) PROVE TypeInv'
  OBVIOUS
<1>1. script \in [Clients -> Seq(Statement)] /\ requests \in 0..MaxRequests
  BY DEF TypeInv, TypeOK
<1>2. \E s \in Seq(Statement) : script' = [script EXCEPT ![c] = s]
  <2>1. CASE \E b \in Batches, kind \in {"create", "pause", "resume", "replay", "cancel"} :
               script' = [script EXCEPT ![c] =
                    CASE kind = "create" -> createScript(b)
                      [] kind = "pause"  -> stopScript(b, "PAUSED")
                      [] kind = "resume" -> resumeScript(b)
                      [] kind = "replay" -> replayScript(b)
                      [] kind = "cancel" -> stopScript(b, "CANCELLED")]
    <3>1. PICK b \in Batches, kind \in {"create", "pause", "resume", "replay", "cancel"} :
               script' = [script EXCEPT ![c] =
                    CASE kind = "create" -> createScript(b)
                      [] kind = "pause"  -> stopScript(b, "PAUSED")
                      [] kind = "resume" -> resumeScript(b)
                      [] kind = "replay" -> replayScript(b)
                      [] kind = "cancel" -> stopScript(b, "CANCELLED")]
      BY <2>1
    <3> QED
      BY <3>1, ScriptType
  <2>2. CASE \E t \in Tasks, kind \in Requests :
               script' = [script EXCEPT ![c] =
                    IF kind = "replayTask" THEN replayTaskScript(t)
                    ELSE cancelTaskScript(t)]
    BY <2>2, TaskScriptType
  <2> QED
    BY <2>1, <2>2 DEF Request
<1>3. ScriptsType
  BY <1>1, <1>2 DEF ScriptsType
<1>4. requests' \in 0..MaxRequests
  BY <1>1, BoundAssumption DEF Request
<1> QED
  BY <1>3, <1>4 DEF Request, TypeInv, TypeOK, HasTask, ScriptsType, store, pools

(* A client's statement.                                                   *)
LEMMA StepType == ASSUME NEW c \in Clients PROVE TypeInv /\ Step(c) => TypeInv'
<1> SUFFICES ASSUME TypeInv, Step(c) PROVE TypeInv'
  OBVIOUS
<1> DEFINE s == Head(script[c])
<1>1. script[c] \in Seq(Statement) /\ script[c] # <<>>
  BY DEF TypeInv, TypeOK, Step
<1>2. s \in Statement /\ Tail(script[c]) \in Seq(Statement)
  BY <1>1, HeadTailProperties
<1>3. s.batch \in Batches /\ (s.op \in {"setBatch", "setTasks"} => s.arg \in JobStatus)
  BY <1>2 DEF Statement, JobStatus
<1>4. ASSUME NEW rest \in Seq(Statement), script' = [script EXCEPT ![c] = rest]
      PROVE  ScriptsType
  BY <1>4 DEF TypeInv, TypeOK, ScriptsType
<1>5. script' = [script EXCEPT ![c] = Tail(@)] => ScriptsType
  BY <1>2, <1>4
<1>6. UNCHANGED <<requests, crashes>>
  BY DEF Step
<1> HIDE DEF s
<1> USE <1>6 DEF pollVars, store, pools
<1>7. CASE SetBatch(c, s)
  <2>1. batch' \in BatchTable
    BY <1>3, <1>7, UpdateBatchType DEF SetBatch, TypeInv, TypeOK
  <2> QED
    BY <1>5, <1>7, <2>1 DEF SetBatch, TypeInv, TypeOK, HasTask, ScriptsType
<1>8. CASE SetTasks(c, s)
  <2>1. task' \in TaskTable
    <3>1. task \in TaskTable /\ "PENDING" \in JobStatus
      BY DEF TypeInv, TypeOK, JobStatus
    <3>2. \A ts : cancelTasks(task, ts) \in TaskTable
      BY <3>1, UpdateStatusType
    <3>3. s.arg \in JobStatus =>
            \A b : updateUnfinishedStatusForBatch(task, b, s.arg) \in TaskTable
      BY <3>1, UpdateStatusType
    <3> QED
      BY <1>3, <1>8, <3>1, <3>2, <3>3, ResetType DEF SetTasks
  <2> QED
    BY <1>5, <1>8, <2>1 DEF SetTasks, TypeInv, TypeOK, HasTask, ScriptsType
<1>9. CASE InsertBatch(c, s)
  <2>1. task' \in TaskTable /\ batch' \in BatchTable
    BY <1>3, <1>9, ResetType
       DEF InsertBatch, TypeInv, TypeOK, BatchTable, RowStatus, JobStatus
  <2> QED
    BY <1>5, <1>9, <2>1 DEF InsertBatch, TypeInv, TypeOK, HasTask, ScriptsType
<1>10. CASE CancelJobs(c, s)
  <2>1. \A r \in Runners : runner[r] \in RunnerState
                           /\ (runner[r].pc # "idle" => runner[r].task \in Tasks)
    BY DEF TypeInv, TypeOK, HasTask
  <2>2. \A x \in RunnerState :
          /\ [x EXCEPT !.cancelled = TRUE] \in RunnerState
          /\ [x EXCEPT !.cancelled = TRUE].pc = x.pc
          /\ [x EXCEPT !.cancelled = TRUE].task = x.task
    BY DEF RunnerState
  <2>3. /\ runner' \in [Runners -> RunnerState]
        /\ \A r \in Runners : runner'[r].pc # "idle" => runner'[r].task \in Tasks
    BY <1>10, <2>1, <2>2 DEF CancelJobs
  <2> QED
    BY <1>5, <1>10, <2>3 DEF CancelJobs, TypeInv, TypeOK, HasTask, ScriptsType
<1>11. CASE ResumeBlocked(c, s)
  <2>1. siblings(s.batch) \in SUBSET Batches
    BY DEF siblings, getBlockedBatches
  <2>2. PICK order \in orders(siblings(s.batch)) :
          script' = [script EXCEPT ![c] = resumeAll(order) \o Tail(@)]
    BY <1>11 DEF ResumeBlocked
  <2>3. resumeAll(order) \o Tail(script[c]) \in Seq(Statement)
    BY <1>2, <2>1, ResumeAllType, ConcatProperties
  <2>4. ScriptsType
    BY <1>4, <2>2, <2>3
  <2> QED
    BY <1>11, <2>4 DEF ResumeBlocked, TypeInv, TypeOK, HasTask, ScriptsType
<1>12. CASE Unblock(c, s)
  <2>1. {"resumeBlocked", "start"} \subseteq Operations \ {"setBatch", "setTasks"}
    BY DEF Operations
  <2> DEFINE more == << Do("resumeBlocked", s.batch, None), Do("start", s.batch, None) >>
  <2>2. more \in Seq(Statement)
    <3>1. \A x, y \in Statement : <<x, y>> \in Seq(Statement)
      OBVIOUS
    <3> QED
      BY <1>3, <2>1, <3>1, PlainDoType
  <2>3. script' = [script EXCEPT ![c] = more \o Tail(@)]
    BY <1>12 DEF Unblock
  <2> HIDE DEF more
  <2>4. ScriptsType
    BY <1>2, <1>4, <2>2, <2>3, ConcatProperties
  <2> QED
    BY <1>12, <2>4 DEF Unblock, TypeInv, TypeOK, HasTask, ScriptsType
<1>13. CASE ResumeJob(c, s)
  <2>1. {"unblock", "resumeTasks", "start"} \subseteq Operations \ {"setBatch", "setTasks"}
    BY DEF Operations
  <2>2. "RUNNING" \in JobStatus
    BY DEF JobStatus
  <2>3. \A x, y, z \in Statement :
          <<x>> \in Seq(Statement) /\ <<x, y, z>> \in Seq(Statement)
    OBVIOUS
  <2>4. /\ << Do("unblock", s.batch, None) >> \in Seq(Statement)
        /\ << Do("setBatch", s.batch, "RUNNING"), Do("resumeTasks", s.batch, None),
              Do("start", s.batch, None) >> \in Seq(Statement)
    BY <1>3, <2>1, <2>2, <2>3, PlainDoType
  <2>5. ScriptsType
    BY <1>4, <1>13, <2>4 DEF ResumeJob
  <2> QED
    BY <1>13, <2>5 DEF ResumeJob, TypeInv, TypeOK, HasTask, ScriptsType
<1>14. CASE Start(c, s)
  <2>1. poll' \in PollState /\ (poll' = poll \/ poll'.pc = "wait")
    BY <1>14, WaitingType DEF Start, started, Waiting, TypeInv, TypeOK
  <2> QED
    BY <1>5, <1>14, <2>1 DEF Start, TypeInv, TypeOK, HasTask, ScriptsType
<1> QED
  BY <1>7, <1>8, <1>9, <1>10, <1>11, <1>12, <1>13, <1>14 DEF Step, s

(* The clock, the process and the user who opens the app.                  *)
LEMMA EnvironmentType ==
  TypeInv /\ (\/ \E t \in Tasks : BackoffElapses(t) \/ LeaseExpires(t)
              \/ ServiceDestroy \/ Crash \/ AppStart)
  => TypeInv'
<1> SUFFICES ASSUME TypeInv,
                    \/ \E t \in Tasks : BackoffElapses(t) \/ LeaseExpires(t)
                    \/ ServiceDestroy \/ Crash \/ AppStart
             PROVE  TypeInv'
  OBVIOUS
<1> USE DEF pollVars, store, pools, others
<1>1. ASSUME NEW t \in Tasks, BackoffElapses(t) \/ LeaseExpires(t) PROVE TypeInv'
  <2>1. task' \in TaskTable
    BY <1>1 DEF BackoffElapses, LeaseExpires, TypeInv, TypeOK, TaskTable, TaskRow
  <2> QED
    BY <1>1, <2>1 DEF BackoffElapses, LeaseExpires, TypeInv, TypeOK, HasTask
<1>2. ASSUME emptyMemory, UNCHANGED store, script' \in [Clients -> Seq(Statement)],
             requests' \in 0..MaxRequests, crashes' \in 0..MaxCrashes
      PROVE  TypeInv'
  <2>1. poll' \in PollState /\ poll'.pc = "stopped"
    BY <1>2, WaitingType DEF emptyMemory, Waiting
  <2>2. /\ runner' \in [Runners -> RunnerState]
        /\ \A r \in Runners : runner'[r].pc = "idle"
    BY <1>2, IdleType DEF emptyMemory, Idle
  <2> QED
    BY <1>2, <2>1, <2>2 DEF emptyMemory, TypeInv, TypeOK, HasTask
<1>3. CASE ServiceDestroy
  BY <1>2, <1>3 DEF ServiceDestroy, TypeInv, TypeOK
<1>4. CASE Crash
  <2>1. script' \in [Clients -> Seq(Statement)]
    BY <1>4, EmptySeq DEF Crash
  <2> QED
    BY <1>2, <1>4, <2>1, BoundAssumption DEF Crash, TypeInv, TypeOK
<1>5. CASE AppStart
  <2>1. poll' \in PollState /\ poll'.pc = "wait"
    BY <1>5, WaitingType DEF AppStart, Waiting
  <2> QED
    BY <1>5, <2>1 DEF AppStart, TypeInv, TypeOK, HasTask
<1> QED
  BY <1>1, <1>3, <1>4, <1>5

(* The invariant behind the types.                                         *)
LEMMA TypeInvariant == Spec => []TypeInv
<1>1. ASSUME TypeInv, [Next]_vars PROVE TypeInv'
  <2>1. CASE UNCHANGED vars
    BY <1>1, <2>1 DEF vars, TypeInv, TypeOK, HasTask
  <2>2. CASE Next
    BY <1>1, <2>2, PollType, RunType, RequestType, StepType, EnvironmentType DEF Next
  <2> QED
    BY <1>1, <2>1, <2>2
<1> QED
  BY <1>1, InitType, PTL DEF Spec

(* Type correctness of the scheduler: the two tables, the in-memory maps,  *)
(* the records of the coroutines and the scripts of the requests always    *)
(* have the values their declarations allow.                               *)
THEOREM TypeCorrect == Spec => []TypeOK
<1>1. TypeInv => TypeOK
  BY DEF TypeInv
<1> QED
  BY <1>1, TypeInvariant, PTL

-----------------------------------------------------------------------------
(* One coroutine per task, where no coroutine overtakes the straight-line  *)
(* code of the polling loop (Overtaking = FALSE).                          *)

(* Who is inside run() is registered, but for the one just launched.       *)
Registered ==
  \A r \in Runners : runner[r].pc \in InRun =>
    \/ activeJobs[runner[r].task] = r
    \/ poll.pc = "register" /\ poll.runner = r

(* ... whose task has no entry, and nobody is about to remove one.         *)
Registering ==
  poll.pc = "register" =>
    /\ activeJobs[poll.task] = None
    /\ runner[poll.runner].pc \in InRun \cup {"leaked"}
    /\ runner[poll.runner].task = poll.task
    /\ \A r \in Runners : runner[r].pc # "rethrow"

(* The second removal of a cancelled coroutine finds nothing to remove.    *)
Removed ==
  \A r \in Runners : runner[r].pc = "rethrow" => activeJobs[runner[r].task] = None

(* A loop on its way to stopSelf() has seen all coroutines end.            *)
AtRest ==
  poll.pc \in {"empty", "stopping", "stopped"} =>
    \A r \in Runners : runner[r].pc \notin InRun

WorkInv == Registered /\ Registering /\ Removed /\ AtRest

(* The program counters before the claim, and before the outcome is        *)
(* written.                                                                *)
Unclaimed == {"launched", "claimTask"}
Undecided == Unclaimed \cup {"claimBatch", "limit", "handle", "latest", "write"}

(* A coroutine that has nothing to mark as RUNNING.                        *)
Moved(x) ==
  x.pc = "write" /\ x.result \in {"Cancelled", "Blocked"} => x.target # "RUNNING"

(* What a statement of run() does to its coroutine: it goes on.            *)
Advanced(me, x) ==
  /\ me.pc \in InRun /\ x.pc \in InRun \cup {"leaked"} /\ x.task = me.task
  /\ x.pc \in Unclaimed => me.pc = "launched"
  /\ x.pc \in Undecided => me.pc \in Undecided \ {"write"}
  /\ Moved(x)

(* An outcome decided by the transition table is never RUNNING.            *)
LEMMA NotBackToRunning ==
  ASSUME NEW current \in JobStatus, NEW event \in {"CANCEL_REQUESTED", "BLOCKED_BY_PROTECTION"}
  PROVE  transition(current, event) # "RUNNING"
<1>1. \A to : <<current, event, to>> \in TransitionRows => to # "RUNNING"
  BY DEF TransitionRows
<1>2. CASE \E to \in JobStatus : <<current, event, to>> \in TransitionRows
  BY <1>1, <1>2 DEF transition
<1>3. CASE ~\E to \in JobStatus : <<current, event, to>> \in TransitionRows
  <2>1. <<"RUNNING", "CANCEL_REQUESTED", "CANCELLED">> \in TransitionRows
        /\ <<"RUNNING", "BLOCKED_BY_PROTECTION", "BLOCKED">> \in TransitionRows
        /\ "CANCELLED" \in JobStatus /\ "BLOCKED" \in JobStatus
    BY DEF TransitionRows, JobStatus
  <2>2. current # "RUNNING"
    BY <1>3, <2>1
  <2> QED
    BY <1>3, <2>2 DEF transition
<1> QED
  BY <1>2, <1>3

(* Every step of run() but the two removals and the release.               *)
LEMMA RunAdvances ==
  ASSUME TypeInv, NEW r \in Runners, Run(r), ~Complete(r), ~Rethrow(r), ~Release(r)
  PROVE  /\ Advanced(runner[r], runner'[r])
         /\ \A q \in Runners : q # r => runner'[q] = runner[q]
         /\ UNCHANGED <<activeJobs, poll>>
<1> DEFINE me == runner[r]
           at(pc) == [me EXCEPT !.pc = pc]
<1>1. me \in RunnerState /\ \A pc : at(pc).pc = pc /\ at(pc).task = me.task
  BY DEF TypeInv, TypeOK, RunnerState
<1>2. UNCHANGED <<activeJobs, poll>>
  BY DEF Run, PreClaim, ClaimTask, ClaimBatch, PreExec, Handle, Latest, Write,
         BlockBatch, BlockCrawler, BlockEach, SyncTasks, SyncBatch, SyncWrite,
         Abort, NeverStarted, runnerVars
<1>3. ASSUME NEW x, Become(r, x), Advanced(me, x)
      PROVE  Advanced(me, runner'[r]) /\ \A q \in Runners : q # r => runner'[q] = runner[q]
  BY <1>3 DEF Become, TypeInv, TypeOK
<1>4. ASSUME NEW pc, Goto(r, pc), me.pc \in InRun, pc \in InRun \cup {"leaked"},
             pc \in Unclaimed => me.pc = "launched",
             pc \in Undecided => me.pc \in Undecided \ {"write"},
             pc # "write"
      PROVE  Advanced(me, runner'[r]) /\ \A q \in Runners : q # r => runner'[q] = runner[q]
  <2>1. Advanced(me, at(pc))
    BY <1>1, <1>4 DEF Advanced, Moved
  <2>2. Become(r, at(pc))
    BY <1>4 DEF Goto
  <2> HIDE DEF at, me
  <2> QED
    BY <1>3, <2>1, <2>2
<1>5. CASE \/ PreClaim(r) \/ ClaimTask(r) \/ ClaimBatch(r) \/ PreExec(r)
           \/ Write(r) \/ BlockBatch(r) \/ SyncBatch(r) \/ SyncWrite(r)
           \/ Abort(r) \/ NeverStarted(r)
  <2>1. \E pc : /\ Goto(r, pc) /\ me.pc \in InRun /\ pc \in InRun \cup {"leaked"}
                /\ pc \in Unclaimed => me.pc = "launched"
                /\ pc \in Undecided => me.pc \in Undecided \ {"write"}
                /\ pc # "write"
    BY <1>5 DEF PreClaim, ClaimTask, ClaimBatch, PreExec, Write, BlockBatch, SyncBatch,
                SyncWrite, Abort, NeverStarted, At, InRun, Suspending, Unclaimed, Undecided
  <2> QED
    BY <1>2, <1>4, <2>1
<1>6. ASSUME NEW result \in JobResult, Handle(r, result)
      PROVE  Advanced(me, runner'[r]) /\ \A q \in Runners : q # r => runner'[q] = runner[q]
  <2> DEFINE failed == [me EXCEPT !.pc = "write", !.result = "Fatal",
                                  !.attempts = me.attempts + 1]
             answered == [me EXCEPT !.pc = "latest", !.result = result]
  <2>1. /\ failed.pc = "write" /\ failed.task = me.task /\ failed.result = "Fatal"
        /\ answered.pc = "latest" /\ answered.task = me.task
    BY <1>1, SMT DEF RunnerState
  <2>2. Become(r, failed) \/ Become(r, answered)
    BY <1>6 DEF Handle
  <2>3. me.pc = "handle"
    BY <1>6 DEF Handle, At
  <2> HIDE DEF failed, answered
  <2>4. Advanced(me, failed) /\ Advanced(me, answered)
    BY <2>1, <2>3 DEF Advanced, Moved, InRun, Unclaimed, Undecided
  <2> QED
    BY <1>3, <2>2, <2>4
<1>7. ASSUME Latest(r)
      PROVE  Advanced(me, runner'[r]) /\ \A q \in Runners : q # r => runner'[q] = runner[q]
  <2> DEFINE counted(kind, n) == [me EXCEPT !.pc = "write", !.result = kind,
                                            !.attempts = n]
             moved(status) == [me EXCEPT !.pc = "write", !.target = status]
             status == readBack(rowOf(r), me.attempts).status
  <2>1. /\ \A kind, n : /\ counted(kind, n).pc = "write" /\ counted(kind, n).task = me.task
                        /\ counted(kind, n).result = kind
        /\ \A s : /\ moved(s).pc = "write" /\ moved(s).task = me.task
                  /\ moved(s).target = s
        /\ at("write").result = me.result
    BY <1>1, SMT DEF RunnerState
  <2>2. me.pc = "latest" /\ me.task \in Tasks
    BY <1>7 DEF Latest, At, TypeInv, HasTask
  <2>3. status \in JobStatus
    <3>1. task[me.task].status \in RowStatus
      BY <2>2, TaskRowFields DEF TypeInv, TypeOK
    <3>2. [NewRow EXCEPT !.attempts = me.attempts].status = "PENDING"
      BY DEF NewRow
    <3> QED
      BY <3>1, <3>2 DEF readBack, rowOf, RowStatus, JobStatus
  <2>4. \/ \E kind \in {"Retry", "Fatal"} : \E n : Become(r, counted(kind, n))
        \/ \E event \in {"CANCEL_REQUESTED", "BLOCKED_BY_PROTECTION"} :
             Become(r, moved(transition(status, event)))
        \/ Become(r, at("complete"))
        \/ me.result = "Success" /\ Become(r, at("write"))
    BY <1>7 DEF Latest
  <2>5. \A event \in {"CANCEL_REQUESTED", "BLOCKED_BY_PROTECTION"} :
          transition(status, event) # "RUNNING"
    BY <2>3, NotBackToRunning
  <2> HIDE DEF counted, moved, at, status, me
  <2>6. /\ \A kind \in {"Retry", "Fatal"} : \A n : Advanced(me, counted(kind, n))
        /\ \A s : s # "RUNNING" => Advanced(me, moved(s))
        /\ Advanced(me, at("complete"))
        /\ me.result = "Success" => Advanced(me, at("write"))
    BY <1>1, <2>1, <2>2 DEF Advanced, Moved, InRun, Unclaimed, Undecided
  <2> QED
    BY <1>3, <2>4, <2>5, <2>6
<1>8. ASSUME BlockCrawler(r)
      PROVE  Advanced(me, runner'[r]) /\ \A q \in Runners : q # r => runner'[q] = runner[q]
  <2> DEFINE next(S) == [me EXCEPT !.pc = "blockEach", !.todo = S]
  <2>1. \A S : next(S).pc = "blockEach" /\ next(S).task = me.task
    BY <1>1, SMT DEF RunnerState
  <2>2. me.pc = "blockCrawler" /\ (Become(r, at("complete")) \/ \E S : Become(r, next(S)))
    BY <1>8 DEF BlockCrawler, At, Goto
  <2> HIDE DEF next, at, me
  <2>3. Advanced(me, at("complete")) /\ \A S : Advanced(me, next(S))
    BY <1>1, <2>1, <2>2 DEF Advanced, Moved, InRun, Unclaimed, Undecided
  <2> QED
    BY <1>3, <2>2, <2>3
<1>9. ASSUME BlockEach(r)
      PROVE  Advanced(me, runner'[r]) /\ \A q \in Runners : q # r => runner'[q] = runner[q]
  <2> DEFINE next(b) == [me EXCEPT !.todo = @ \ {b}]
  <2>1. \A b : next(b).pc = me.pc /\ next(b).task = me.task
    BY <1>1, SMT DEF RunnerState
  <2>2. me.pc = "blockEach" /\ (Become(r, at("complete")) \/ \E b : Become(r, next(b)))
    BY <1>9 DEF BlockEach, At, Goto
  <2> HIDE DEF next, at, me
  <2>3. Advanced(me, at("complete")) /\ \A b : Advanced(me, next(b))
    BY <1>1, <2>1, <2>2 DEF Advanced, Moved, InRun, Unclaimed, Undecided
  <2> QED
    BY <1>3, <2>2, <2>3
<1>10. ASSUME SyncTasks(r)
       PROVE  Advanced(me, runner'[r]) /\ \A q \in Runners : q # r => runner'[q] = runner[q]
  <2> DEFINE decided(status) == [me EXCEPT !.pc = "syncBatch", !.target = status]
  <2>1. \A status : decided(status).pc = "syncBatch" /\ decided(status).task = me.task
    BY <1>1, SMT DEF RunnerState
  <2>2. me.pc = "syncTasks"
        /\ (Become(r, at("complete")) \/ \E status : Become(r, decided(status)))
    BY <1>10 DEF SyncTasks, At
  <2> HIDE DEF decided, at, me
  <2>3. Advanced(me, at("complete")) /\ \A status : Advanced(me, decided(status))
    BY <1>1, <2>1, <2>2 DEF Advanced, Moved, InRun, Unclaimed, Undecided
  <2> QED
    BY <1>3, <2>2, <2>3
<1> HIDE DEF me
<1> QED
  BY <1>2, <1>5, <1>6, <1>7, <1>8, <1>9, <1>10 DEF Run, me

(* Two coroutines at work have two tasks.                                  *)
LEMMA WorkIsSingle == TypeInv /\ WorkInv => OneRunnerPerTask
<1> SUFFICES ASSUME TypeInv, WorkInv, NEW r1 \in Runners, NEW r2 \in Runners,
                    runner[r1].pc \in InRun, runner[r2].pc \in InRun,
                    runner[r1].task = runner[r2].task
             PROVE  r1 = r2
  BY DEF OneRunnerPerTask
<1>1. None \notin Runners
  BY RunnersAssumption
<1> QED
  BY <1>1 DEF WorkInv, Registered, Registering

(* A step that leaves the map and everyone's place in run() alone, outside *)
(* of the loop's launch, or without the loop.                              *)
LEMMA WorkStays ==
  ASSUME TypeInv, WorkInv, UNCHANGED activeJobs,
         \A r \in Runners : /\ runner'[r].task = runner[r].task
                            /\ runner'[r].pc = runner[r].pc,
         \/ UNCHANGED poll
         \/ poll.pc # "register" /\ poll'.pc # "register",
         poll'.pc \in {"empty", "stopping", "stopped"} =>
           \/ poll.pc \in {"empty", "stopping", "stopped"}
           \/ \A r \in Runners : runner[r].pc \notin InRun
  PROVE  WorkInv'
<1>1. Registered' /\ Removed' /\ AtRest'
  BY DEF WorkInv, Registered, Removed, AtRest
<1>2. Registering'
  <2>1. CASE UNCHANGED poll /\ poll.pc = "register"
    <3>1. poll.runner \in Runners
      BY <2>1 DEF TypeInv, HasTask
    <3> QED
      BY <2>1, <3>1 DEF WorkInv, Registering
  <2> QED
    BY <2>1 DEF Registering
<1> QED
  BY <1>1, <1>2 DEF WorkInv

(* The loop.                                                               *)
LEMMA PollWork ==
  ASSUME ~Overtaking, TypeInv, WorkInv, Poll PROVE WorkInv'
<1> USE BoundAssumption DEF TypeInv, HasTask
<1>1. ASSUME NEW t \in Tasks, NEW r \in Runners, Launch(t, r) PROVE WorkInv'
  <2>1. /\ poll.pc = "launch" /\ activeJobs[t] = None /\ runner[r].pc = "idle"
        /\ \A q \in Runners : runner[q].pc # "rethrow"
        /\ UNCHANGED activeJobs
    BY <1>1 DEF Launch, Popped, NotOvertaken
  <2>2. /\ runner'[r].pc = "launched" /\ runner'[r].task = t
        /\ \A q \in Runners : q # r => runner'[q] = runner[q]
    BY <1>1 DEF Launch, Idle, TypeOK
  <2>3. poll'.pc = "register" /\ poll'.runner = r /\ poll'.task = t
    BY <1>1 DEF Launch, TypeOK, PollState
  <2> QED
    BY <2>1, <2>2, <2>3
       DEF WorkInv, Registered, Registering, Removed, AtRest, InRun
<1>2. CASE Register
  <2>1. /\ poll.pc = "register" /\ poll.runner \in Runners /\ poll.task \in Tasks
        /\ UNCHANGED runner
    BY <1>2 DEF Register
  <2>2. poll'.pc = "launch"
    BY <1>2 DEF Register, TypeOK, PollState
  <2>3. activeJobs' = [activeJobs EXCEPT ![poll.task] = poll.runner]
    BY <1>2, <2>1 DEF Register, WorkInv, Registering, InRun
  <2>4. activeJobs'[poll.task] = poll.runner
        /\ \A t \in Tasks : t # poll.task => activeJobs'[t] = activeJobs[t]
    BY <2>1, <2>3 DEF TypeOK
  <2>5. ASSUME NEW r \in Runners, runner[r].pc \in InRun
        PROVE  activeJobs'[runner[r].task] = r
    <3>1. runner[r].task \in Tasks
      BY <2>5 DEF InRun
    <3>2. CASE r = poll.runner
      BY <2>1, <2>4, <3>2 DEF WorkInv, Registering
    <3>3. CASE r # poll.runner
      <4>1. activeJobs[runner[r].task] = r
        BY <2>5, <3>3 DEF WorkInv, Registered
      <4>2. runner[r].task # poll.task
        BY <2>1, <4>1, RunnersAssumption DEF WorkInv, Registering
      <4> QED
        BY <2>4, <3>1, <4>1, <4>2
    <3> QED
      BY <3>2, <3>3
  <2> QED
    BY <2>1, <2>2, <2>5 DEF WorkInv, Registered, Registering, Removed, AtRest
<1>3. CASE FetchRunnable
  <2>1. /\ poll.pc = "fetch" /\ UNCHANGED <<activeJobs, runner>>
        /\ poll'.pc \in {"empty", "launch"}
        /\ poll'.pc = "empty" => \A t \in Tasks : activeJobs[t] = None
    BY <1>3 DEF FetchRunnable, pollVars, TypeOK, PollState
  <2>2. poll'.pc = "empty" => \A r \in Runners : runner[r].pc \notin InRun
    BY <2>1, RunnersAssumption DEF WorkInv, Registered, InRun
  <2> QED
    BY <2>1, <2>2, WorkStays
<1>4. CASE \/ Wake \/ RecoverWrite \/ SyncBlocked \/ CheckEmpty \/ EndOfCycle
           \/ \E t \in Tasks : \/ RecoverAbandoned(t) \/ SkipActive(t)
                               \/ PoolFull(t) \/ Saturate(t)
  <2>1. UNCHANGED <<activeJobs, runner>>
    BY <1>4 DEF Wake, RecoverWrite, SyncBlocked, CheckEmpty, EndOfCycle,
                RecoverAbandoned, SkipActive, PoolFull, Saturate, pollVars
  <2>2. poll \in PollState
    BY DEF TypeOK
  <2> DEFINE Ok == /\ poll.pc # "register" /\ poll'.pc # "register"
                   /\ poll'.pc \in {"empty", "stopping", "stopped"} => poll.pc = "empty"
  <2>3. CASE Wake \/ RecoverWrite \/ SyncBlocked
    <3>1. Ok
      BY <2>2, <2>3 DEF Wake, RecoverWrite, SyncBlocked, PollState
    <3> QED
      BY <2>1, <3>1, WorkStays
  <2>4. CASE CheckEmpty \/ EndOfCycle \/ \E t \in Tasks : PoolFull(t)
    <3>1. Ok
      BY <2>4 DEF CheckEmpty, EndOfCycle, PoolFull, Popped, Waiting
    <3> QED
      BY <2>1, <3>1, WorkStays
  <2>5. ASSUME NEW t \in Tasks, RecoverAbandoned(t) \/ SkipActive(t) \/ Saturate(t)
        PROVE  WorkInv'
    <3>1. Ok
      BY <2>2, <2>5 DEF RecoverAbandoned, SkipActive, Saturate, Popped, PollState
    <3> QED
      BY <2>1, <3>1, WorkStays
  <2> QED
    BY <1>4, <2>3, <2>4, <2>5
<1> QED
  BY <1>1, <1>2, <1>3, <1>4 DEF Poll

(* The coroutines.                                                         *)
LEMMA RunWork ==
  ASSUME ~Overtaking, TypeInv, WorkInv, NEW r \in Runners, Run(r) PROVE WorkInv'
<1> USE DEF TypeInv, HasTask
<1>0. ASSUME runner[r].pc # "idle", Goto(r, "release") \/ Goto(r, "rethrow")
      PROVE  /\ runner'[r].pc \in {"release", "rethrow"} /\ runner'[r].task = runner[r].task
             /\ \A q \in Runners : q # r => runner'[q] = runner[q]
  BY <1>0 DEF Goto, Become, TypeOK, RunnerState
<1>1. CASE Complete(r)
  <2>1. /\ poll.pc \notin {"launch", "register"} /\ UNCHANGED poll
        /\ runner[r].pc \in InRun /\ runner[r].task \in Tasks
        /\ activeJobs' = [activeJobs EXCEPT ![runner[r].task] = None]
        /\ Goto(r, "release") \/ Goto(r, "rethrow")
    BY <1>1 DEF Complete, InRun
  <2>2. /\ runner'[r].pc \in {"release", "rethrow"} /\ runner'[r].task = runner[r].task
        /\ \A q \in Runners : q # r => runner'[q] = runner[q]
    BY <1>0, <2>1 DEF InRun
  <2>3. /\ activeJobs'[runner[r].task] = None
        /\ \A t \in Tasks : t # runner[r].task => activeJobs'[t] = activeJobs[t]
    BY <2>1 DEF TypeOK
  <2>4. \A q \in Runners : q # r /\ runner[q].pc \in InRun => runner[q].task # runner[r].task
    BY <2>1, WorkIsSingle DEF OneRunnerPerTask
  <2>5. \A q \in Runners : runner[q].pc # "idle" => runner[q].task \in Tasks
    OBVIOUS
  <2>6. Registered'
    BY <2>1, <2>2, <2>3, <2>4, <2>5 DEF WorkInv, Registered, InRun
  <2>7. Removed'
    BY <2>2, <2>3, <2>5 DEF WorkInv, Removed
  <2> QED
    BY <2>1, <2>2, <2>6, <2>7 DEF WorkInv, Registering, AtRest, InRun
<1>2. CASE Rethrow(r)
  <2>1. /\ runner[r].pc = "rethrow" /\ UNCHANGED poll /\ runner[r].task \in Tasks
        /\ activeJobs' = [activeJobs EXCEPT ![runner[r].task] = None]
        /\ Goto(r, "release") \/ Goto(r, "rethrow")
    BY <1>2 DEF Rethrow
  <2>2. /\ runner'[r].pc \in {"release", "rethrow"} /\ runner'[r].task = runner[r].task
        /\ \A q \in Runners : q # r => runner'[q] = runner[q]
    BY <1>0, <2>1
  <2>3. activeJobs' = activeJobs
    BY <2>1 DEF WorkInv, Removed, TypeOK
  <2>4. poll.pc # "register"
    BY <2>1 DEF WorkInv, Registering
  <2> QED
    BY <2>1, <2>2, <2>3, <2>4
       DEF WorkInv, Registered, Registering, Removed, AtRest, InRun
<1>3. CASE Release(r)
  <2>1. /\ runner[r].pc = "release" /\ UNCHANGED poll
        /\ \A t \in Tasks : activeJobs'[t] = IF activeJobs[t] = r THEN Dead
                                             ELSE activeJobs[t]
    BY <1>3 DEF Release
  <2>2. /\ runner'[r].pc = "idle"
        /\ \A q \in Runners : q # r => runner'[q] = runner[q]
    BY <1>3 DEF Release, Become, Idle, TypeOK
  <2>3. None # r
    BY RunnersAssumption
  <2>4. \A q \in Runners : runner[q].pc # "idle" => runner[q].task \in Tasks
    OBVIOUS
  <2>5. Registered'
    BY <2>1, <2>2, <2>4 DEF WorkInv, Registered, InRun
  <2>6. Removed'
    BY <2>1, <2>2, <2>3, <2>4 DEF WorkInv, Removed
  <2>7. Registering'
    <3> SUFFICES ASSUME poll.pc = "register"
                 PROVE  /\ activeJobs'[poll.task] = None
                        /\ runner'[poll.runner] = runner[poll.runner]
      BY <2>1, <2>2 DEF WorkInv, Registering
    <3> QED
      BY <2>1, <2>2, <2>3 DEF WorkInv, Registering, InRun
  <2>8. AtRest'
    BY <2>1, <2>2 DEF WorkInv, AtRest, InRun
  <2> QED
    BY <2>5, <2>6, <2>7, <2>8 DEF WorkInv
<1>4. CASE ~Complete(r) /\ ~Rethrow(r) /\ ~Release(r)
  <2>1. /\ Advanced(runner[r], runner'[r])
        /\ \A q \in Runners : q # r => runner'[q] = runner[q]
        /\ UNCHANGED <<activeJobs, poll>>
    BY <1>4, RunAdvances
  <2>2. /\ runner[r].pc \in InRun /\ runner'[r].pc \in InRun \cup {"leaked"}
        /\ runner'[r].task = runner[r].task /\ runner'[r].pc # "rethrow"
    BY <2>1 DEF Advanced, InRun
  <2>3. Registered' /\ Removed' /\ AtRest'
    BY <2>1, <2>2 DEF WorkInv, Registered, Removed, AtRest
  <2>4. Registering'
    BY <2>1, <2>2 DEF WorkInv, Registering
  <2> QED
    BY <2>3, <2>4 DEF WorkInv
<1> QED
  BY <1>1, <1>2, <1>3, <1>4

(* Clients, clock and process.                                             *)
LEMMA OthersWork ==
  ASSUME TypeInv, WorkInv,
         \/ \E c \in Clients : Request(c) \/ Step(c)
         \/ \E t \in Tasks : BackoffElapses(t) \/ LeaseExpires(t)
         \/ ServiceDestroy \/ Crash \/ AppStart \/ UNCHANGED vars
  PROVE  WorkInv'
<1>1. CASE emptyMemory
  <2>1. /\ \A r \in Runners : runner'[r].pc = "idle"
        /\ poll'.pc = "stopped"
    BY <1>1 DEF emptyMemory, Idle, Waiting
  <2> QED
    BY <2>1 DEF WorkInv, Registered, Registering, Removed, AtRest, InRun
<1>2. ASSUME NEW c \in Clients, NEW s, CancelJobs(c, s) PROVE WorkInv'
  <2>1. \A r \in Runners : runner[r] \in RunnerState
    BY DEF TypeInv, TypeOK
  <2>2. \A x \in RunnerState : /\ [x EXCEPT !.cancelled = TRUE].pc = x.pc
                               /\ [x EXCEPT !.cancelled = TRUE].task = x.task
    BY DEF RunnerState
  <2>3. \A r \in Runners : runner'[r].pc = runner[r].pc /\ runner'[r].task = runner[r].task
    BY <1>2, <2>1, <2>2 DEF CancelJobs
  <2> QED
    BY <1>2, <2>3, WorkStays DEF CancelJobs
<1>3. CASE UNCHANGED <<activeJobs, runner, poll>>
  BY <1>3, WorkStays
<1>4. CASE UNCHANGED <<activeJobs, runner>> /\ poll.pc = "stopped" /\ poll'.pc = "wait"
  BY <1>4, WorkStays
<1>5. ASSUME NEW c \in Clients, Request(c) \/ Step(c) PROVE WorkInv'
  <2>1. \/ UNCHANGED <<activeJobs, runner, poll>>
        \/ UNCHANGED <<activeJobs, runner>> /\ poll.pc = "stopped" /\ poll'.pc = "wait"
        \/ CancelJobs(c, Head(script[c]))
    <3> DEFINE s == Head(script[c])
    <3>1. CASE Request(c)
      BY <3>1 DEF Request
    <3>2. CASE Start(c, s)
      <4>1. Waiting.pc = "wait"
        BY DEF Waiting
      <4> QED
        BY <3>2, <4>1 DEF Start, started, pollVars
    <3>3. CASE Step(c) /\ ~Start(c, s)
      BY <3>3 DEF Step, SetBatch, SetTasks, InsertBatch, ResumeBlocked, Unblock,
                  ResumeJob, pollVars
    <3> QED
      BY <1>5, <3>1, <3>2, <3>3
  <2> QED
    BY <1>2, <1>3, <1>4, <2>1
<1>6. CASE (\E t \in Tasks : BackoffElapses(t) \/ LeaseExpires(t)) \/ UNCHANGED vars
  BY <1>3, <1>6 DEF BackoffElapses, LeaseExpires, pollVars, vars
<1>7. CASE ServiceDestroy \/ Crash
  BY <1>1, <1>7 DEF ServiceDestroy, Crash
<1>8. CASE AppStart
  BY <1>4, <1>8 DEF AppStart, Waiting, pollVars
<1> QED
  BY <1>5, <1>6, <1>7, <1>8

(* The map and the coroutines agree in every state.                        *)
LEMMA WorkInvariant == ~Overtaking => (Spec => []WorkInv)
<1> SUFFICES ASSUME ~Overtaking PROVE Spec => []WorkInv
  OBVIOUS
<1>1. Init => WorkInv
  BY DEF Init, Idle, Waiting, WorkInv, Registered, Registering, Removed, AtRest, InRun
<1>2. TypeInv /\ WorkInv /\ [Next]_vars => WorkInv'
  BY PollWork, RunWork, OthersWork DEF Next
<1> QED
  BY <1>1, <1>2, TypeInvariant, PTL DEF Spec

(* No two coroutines ever work on one task: launchReadyJobs asks the map   *)
(* before it launches, the finally block clears it, and a request that     *)
(* cancels leaves it alone (JobScheduler.kt), provided that no coroutine   *)
(* overtakes the loop's straight-line code.                                *)
THEOREM WorkIsExclusive == ~Overtaking => (Spec => []OneRunnerPerTask)
<1> SUFFICES ASSUME ~Overtaking PROVE Spec => []OneRunnerPerTask
  OBVIOUS
<1> QED
  BY WorkIsSingle, WorkInvariant, TypeInvariant, PTL

(* The loop calls stopSelf() only when nobody works (onSchedulerEmpty).    *)
THEOREM StopsAtRest == ~Overtaking => (Spec => []StopsWhenIdle)
<1> SUFFICES ASSUME ~Overtaking PROVE Spec => []StopsWhenIdle
  OBVIOUS
<1>1. WorkInv => StopsWhenIdle
  BY DEF WorkInv, AtRest, StopsWhenIdle, live
<1> QED
  BY <1>1, WorkInvariant, PTL

-----------------------------------------------------------------------------
(* What may become of a row.  With one coroutine per task, the row that a  *)
(* coroutine is about to claim is not waiting for its back-off, and the    *)
(* row whose outcome it is about to write has none yet.                    *)

OutcomesMoved == \A r \in Runners : Moved(runner[r])

(* A row keeps its age for what it is counted for.                         *)
AgesFit ==
  \A t \in Tasks : /\ task[t].age = "later" => task[t].status # "RUNNING"
                   /\ task[t].age = "expired" => task[t].status = "RUNNING"

(* What is queued can be claimed, or somebody has it.                      *)
Claimable(row) == row.age = "fresh" /\ row.status \notin {"RUNNING", "SUCCESS"}
QueueFits ==
  poll.pc \in {"launch", "register"} =>
    \A t \in Tasks : poll.queue[t] # NotQueued =>
      \/ Claimable(task[t])
      \/ activeJobs[t] # None
      \/ poll.pc = "register" /\ poll.task = t

ClaimsFit ==
  \A r \in Runners :
    /\ runner[r].pc \in Unclaimed => task[runner[r].task].age # "later"
    /\ runner[r].pc \in Undecided => task[runner[r].task].status # "SUCCESS"

TaskInv == OutcomesMoved /\ AgesFit /\ QueueFits /\ ClaimsFit

(* A request's statement: it makes the row another one that waits, or      *)
(* takes it away; a success only if it asks for the task again.            *)
Renews == {"resetBatch", "resetTask", "insertBatch", "insertTasks"}
Rewritten(t, c) ==
  /\ Step(c) /\ UNCHANGED <<activeJobs, poll>>
  /\ task'[t].age = "fresh" /\ task'[t].status \notin {"RUNNING", "SUCCESS"}
  /\ task[t].status = "SUCCESS" =>
       script'[c] # script[c] /\ Head(script[c]).op \in Renews

LEMMA StepRows ==
  ASSUME TypeInv, NEW c \in Clients, Step(c), NEW t \in Tasks
  PROVE  task'[t] = task[t] \/ Rewritten(t, c)
<1> DEFINE s == Head(script[c])
           reset(x) == x.age = "fresh" /\ x.status \notin {"RUNNING", "SUCCESS"}
<1>1. script[c] \in Seq(Statement) /\ script[c] # <<>>
  BY DEF TypeInv, TypeOK, Step
<1>2. s \in Statement /\ Tail(script[c]) # script[c]
  <2>1. Len(Tail(script[c])) # Len(script[c])
    BY <1>1, HeadTailProperties, LenProperties
  <2> QED
    BY <1>1, <2>1, HeadTailProperties
<1>3. task[t] \in TaskRow
  BY DEF TypeInv, TypeOK, TaskTable
<1>4. reset(NewRow) /\ reset(NoRow)
  BY DEF NewRow, NoRow, Absent
<1>5. \A x : x \notin {"RUNNING", "SUCCESS"} =>
        reset([task[t] EXCEPT !.status = x, !.age = "fresh"])
  BY <1>3 DEF TaskRow
<1>6. script' = [script EXCEPT ![c] = Tail(@)] => script'[c] # script[c]
  BY <1>2 DEF TypeInv, TypeOK
<1>7. CASE SetTasks(c, s)
  <2>0. UNCHANGED <<activeJobs, poll>> /\ script'[c] # script[c]
    BY <1>6, <1>7 DEF SetTasks, pollVars
  <2>1. CASE s.op = "setTasks"
    <3>1. task' = updateUnfinishedStatusForBatch(task, s.batch, s.arg)
      BY <1>7, <2>1 DEF SetTasks
    <3>2. s.arg \notin {"RUNNING", "SUCCESS"}
      BY <1>2, <2>1 DEF Statement
    <3>3. \/ task'[t] = task[t]
          \/ /\ task[t].status # "SUCCESS"
             /\ task'[t] = [task[t] EXCEPT !.status = s.arg, !.age = "fresh"]
      BY <3>1 DEF updateUnfinishedStatusForBatch, Update
    <3> QED
      BY <1>5, <2>0, <3>2, <3>3 DEF Rewritten
  <2>2. CASE s.op = "resumeTasks"
    <3>1. task' = resumeTasksForBatch(task, s.batch)
      BY <1>7, <2>2 DEF SetTasks
    <3>2. task'[t] = task[t] \/ (task[t].status # "SUCCESS" /\ task'[t] = NewRow)
      BY <3>1 DEF resumeTasksForBatch, Update
    <3> QED
      BY <1>4, <2>0, <3>2 DEF Rewritten
  <2>3. CASE s.op \in {"resetBatch", "resetTask", "insertTasks"}
    <3>1. task'[t] = task[t] \/ task'[t] = NewRow
      BY <1>7, <2>3 DEF SetTasks, resetTasks, insertTasks, Update
    <3> QED
      BY <1>4, <2>0, <2>3, <3>1 DEF Rewritten, Renews
  <2>4. CASE s.op = "cancelTask"
    <3>1. task' = cancelTasks(task, {s.arg})
      BY <1>7, <2>4 DEF SetTasks
    <3>2. \/ task'[t] = task[t]
          \/ /\ task[t].status # "SUCCESS"
             /\ task'[t] = [task[t] EXCEPT !.status = "CANCELLED", !.age = "fresh"]
      BY <3>1 DEF cancelTasks, Update
    <3>3. reset([task[t] EXCEPT !.status = "CANCELLED", !.age = "fresh"])
      BY <1>5
    <3> QED
      BY <2>0, <3>2, <3>3 DEF Rewritten
  <2> QED
    BY <1>7, <2>1, <2>2, <2>3, <2>4 DEF SetTasks
<1>8. CASE InsertBatch(c, s)
  <2>1. task'[t] = task[t] \/ task'[t] = NoRow
    BY <1>8 DEF InsertBatch, cascadeTasks
  <2>2. UNCHANGED <<activeJobs, poll>> /\ script'[c] # script[c] /\ s.op \in Renews
    BY <1>6, <1>8 DEF InsertBatch, pollVars, Renews
  <2> QED
    BY <1>4, <2>1, <2>2 DEF Rewritten
<1>9. CASE \/ SetBatch(c, s) \/ CancelJobs(c, s) \/ ResumeBlocked(c, s)
           \/ Unblock(c, s) \/ ResumeJob(c, s) \/ Start(c, s)
  BY <1>9 DEF SetBatch, CancelJobs, ResumeBlocked, Unblock, ResumeJob, Start, store
<1> QED
  BY <1>7, <1>8, <1>9 DEF Step

(* The statements of the loop and of the coroutines, and the clock.        *)
Recovered(t) ==
  /\ RecoverWrite /\ poll.task = t
  /\ task'[t].status = poll.target /\ task'[t].attempts = task[t].attempts
  /\ task'[t].age = "fresh" /\ task'[t].status \notin {"RUNNING", "SUCCESS"}
Claimed(t, r) ==
  /\ ClaimTask(r) /\ runner[r].task = t
  /\ task'[t].attempts = task[t].attempts
  /\ task'[t].age = "fresh" /\ task'[t].status = "RUNNING"
Decided(t, r) ==
  /\ Write(r) /\ runner[r].task = t
  /\ task'[t].age \in {"fresh", "later"} /\ task'[t].status # "RUNNING"
Aged(t) ==
  /\ UNCHANGED <<activeJobs, poll, runner>> /\ task'[t].status = task[t].status
  /\ task'[t].attempts = task[t].attempts
  /\ \/ task[t].age = "later" /\ task'[t].age = "fresh"
     \/ /\ task[t].status = "RUNNING" /\ task'[t].age = "expired"
        /\ SlowHandlers \/ ~live(t)

LEMMA RowSteps ==
  ASSUME TypeInv, OutcomesMoved, [Next]_vars, NEW t \in Tasks
  PROVE  \/ task'[t] = task[t]
         \/ \E c \in Clients : Rewritten(t, c)
         \/ Recovered(t) \/ Aged(t)
         \/ \E r \in Runners : Claimed(t, r) \/ Decided(t, r)
<1>1. task[t] \in TaskRow /\ task \in TaskTable
  BY DEF TypeInv, TypeOK, TaskTable
<1>2. \A u, s : \/ updateTaskStatus(task, u, s)[t] = task[t]
                \/ /\ u = t
                   /\ updateTaskStatus(task, u, s)[t].status = s
                   /\ updateTaskStatus(task, u, s)[t].age = "fresh"
                   /\ updateTaskStatus(task, u, s)[t].attempts = task[t].attempts
  BY <1>1 DEF updateTaskStatus, Update, TaskRow
<1>3. CASE RecoverWrite
  <2>1. poll.target \notin {"RUNNING", "SUCCESS"}
    BY DEF TypeInv, TypeOK, PollState
  <2> QED
    BY <1>2, <1>3, <2>1 DEF RecoverWrite, Recovered
<1>4. ASSUME NEW r \in Runners, ClaimTask(r) PROVE task'[t] = task[t] \/ Claimed(t, r)
  <2>1. transition("PENDING", "CLAIMED") = "RUNNING"
    <3>1. \A to : <<"PENDING", "CLAIMED", to>> \in TransitionRows <=> to = "RUNNING"
      BY DEF TransitionRows
    <3>2. "RUNNING" \in JobStatus
      BY DEF JobStatus
    <3> QED
      BY <3>1, <3>2 DEF transition
  <2> QED
    BY <1>2, <1>4, <2>1 DEF ClaimTask, Claimed
<1>5. ASSUME NEW r \in Runners, Write(r) PROVE task'[t] = task[t] \/ Decided(t, r)
  <2>1. \A n : /\ \/ markFailed(task, runner[r].task, n)[t] = task[t]
                  \/ /\ runner[r].task = t
                     /\ markFailed(task, runner[r].task, n)[t].status = "FAILED"
                     /\ markFailed(task, runner[r].task, n)[t].age = "fresh"
               /\ \/ markRetrying(task, runner[r].task, n)[t] = task[t]
                  \/ /\ runner[r].task = t
                     /\ markRetrying(task, runner[r].task, n)[t].status = "PENDING"
                     /\ markRetrying(task, runner[r].task, n)[t].age = "later"
    BY DEF markFailed, markRetrying, Update
  <2>2. runner[r].result \in {"Cancelled", "Blocked"} => runner[r].target # "RUNNING"
    BY <1>5 DEF Write, At, OutcomesMoved, Moved
  <2>3. \/ task' = updateTaskStatus(task, runner[r].task, "SUCCESS")
        \/ \E n : task' = markFailed(task, runner[r].task, n)
        \/ \E n : task' = markRetrying(task, runner[r].task, n)
        \/ /\ runner[r].result \in {"Cancelled", "Blocked"}
           /\ task' = updateTaskStatus(task, runner[r].task, runner[r].target)
    BY <1>5 DEF Write
  <2> QED
    BY <1>2, <1>5, <2>1, <2>2, <2>3 DEF Decided
<1>6. ASSUME NEW u \in Tasks, BackoffElapses(u) \/ LeaseExpires(u)
      PROVE  task'[t] = task[t] \/ Aged(t)
  <2>1. /\ UNCHANGED <<activeJobs, poll, runner>>
        /\ \/ task[u].age = "later" /\ task' = [task EXCEPT ![u].age = "fresh"]
           \/ /\ task[u].status = "RUNNING"
              /\ SlowHandlers \/ ~live(u)
              /\ task' = [task EXCEPT ![u].age = "expired"]
    BY <1>6 DEF BackoffElapses, LeaseExpires, pollVars
  <2>2. CASE u = t
    <3>1. \A x : /\ [task EXCEPT ![t].age = x][t].age = x
                 /\ [task EXCEPT ![t].age = x][t].status = task[t].status
                 /\ [task EXCEPT ![t].age = x][t].attempts = task[t].attempts
      BY <1>1 DEF TaskTable, TaskRow
    <3>2. \E x : task' = [task EXCEPT ![t].age = x]
      BY <2>1, <2>2
    <3>3. /\ task'[t].status = task[t].status
          /\ task'[t].attempts = task[t].attempts
      BY <3>1, <3>2
    <3> QED
      BY <2>1, <2>2, <3>1, <3>3 DEF Aged
  <2>3. CASE u # t
    BY <2>1, <2>3 DEF TypeInv, TypeOK, TaskTable
  <2> QED
    BY <2>2, <2>3
<1>7. ASSUME NEW c \in Clients, Step(c)
      PROVE  task'[t] = task[t] \/ \E d \in Clients : Rewritten(t, d)
  BY <1>7, StepRows
<1>8. CASE UNCHANGED task
  BY <1>8
<1>9. CASE Poll /\ ~RecoverWrite
  BY <1>8, <1>9 DEF Poll, Wake, SyncBlocked, FetchRunnable, CheckEmpty, Register,
                    EndOfCycle, RecoverAbandoned, SkipActive, PoolFull, Saturate,
                    Launch, store
<1>10. ASSUME NEW r \in Runners, Run(r), ~ClaimTask(r), ~Write(r) PROVE UNCHANGED task
  BY <1>10 DEF Run, PreClaim, ClaimBatch, PreExec, Handle, Latest, BlockBatch,
               BlockCrawler, BlockEach, SyncTasks, SyncBatch, SyncWrite, Abort,
               NeverStarted, Complete, Rethrow, Release, store
<1>11. CASE \/ \E c \in Clients : Request(c)
            \/ ServiceDestroy \/ Crash \/ AppStart \/ UNCHANGED vars
  BY <1>8, <1>11 DEF Request, ServiceDestroy, Crash, AppStart, store, vars
<1> DEFINE Goal == \/ task'[t] = task[t]
                   \/ \E c \in Clients : Rewritten(t, c)
                   \/ Recovered(t) \/ Aged(t)
                   \/ \E r \in Runners : Claimed(t, r) \/ Decided(t, r)
<1>12. ASSUME NEW r \in Runners, Run(r) PROVE Goal
  BY <1>4, <1>5, <1>10, <1>12
<1>13. CASE Poll
  BY <1>3, <1>9, <1>13
<1>14. ASSUME NEW c \in Clients, Request(c) \/ Step(c) PROVE Goal
  BY <1>7, <1>11, <1>14
<1>15. ASSUME NEW u \in Tasks, BackoffElapses(u) \/ LeaseExpires(u) PROVE Goal
  BY <1>6, <1>15
<1>16. CASE ServiceDestroy \/ Crash \/ AppStart \/ UNCHANGED vars
  BY <1>11, <1>16
<1>17. CASE Next
  BY <1>12, <1>13, <1>14, <1>15, <1>16, <1>17 DEF Next
<1> QED
  BY <1>16, <1>17

(* Where a coroutine at work was a step before.                            *)
LEMMA WorkBefore ==
  ASSUME TypeInv, [Next]_vars, NEW r \in Runners, runner'[r].pc \in InRun
  PROVE  \/ \E t \in Tasks : Launch(t, r)
         \/ /\ runner[r].pc \in InRun /\ runner'[r].task = runner[r].task
            /\ runner'[r].pc \in Unclaimed => runner[r].pc \in Unclaimed
            /\ runner'[r].pc \in Undecided => runner[r].pc \in Undecided /\ ~Write(r)
<1> DEFINE Kept(x) == /\ x.pc \in InRun /\ runner'[r].task = x.task
                      /\ runner'[r].pc \in Unclaimed => x.pc \in Unclaimed
                      /\ runner'[r].pc \in Undecided => x.pc \in Undecided
           Before == (\E t \in Tasks : Launch(t, r)) \/ Kept(runner[r])
<1>1. /\ \A pc \in {"idle", "release", "rethrow", "leaked"} : pc \notin InRun
      /\ \A pc \in {"syncTasks", "blockBatch", "complete"} : pc \notin Undecided
  BY DEF Undecided, Unclaimed, InRun
<1>2. runner \in [Runners -> RunnerState]
  BY DEF TypeInv, TypeOK
<1>3. ASSUME NEW q \in Runners, NEW pc, Goto(q, pc) PROVE runner'[q].pc = pc
  BY <1>2, <1>3 DEF Goto, Become, RunnerState
<1>4. runner'[r].pc \in Undecided => ~Write(r)
  <2>1. Write(r) => \E pc \in {"syncTasks", "blockBatch", "complete"} : Goto(r, pc)
    BY DEF Write
  <2> QED
    BY <1>1, <1>3, <2>1
<1>5. (runner'[r] = runner[r] => Before) /\ (UNCHANGED runner => Before)
  <2>1. runner' = runner => runner'[r] = runner[r]
    OBVIOUS
  <2> QED
    BY <2>1
<1>6. ASSUME NEW q \in Runners, Run(q) PROVE Before
  <2>1. CASE Complete(q) \/ Rethrow(q)
    <3>1. Goto(q, "release") \/ Goto(q, "rethrow")
      BY <2>1 DEF Complete, Rethrow
    <3>2. q = r \/ runner'[r] = runner[r]
      BY <1>2, <3>1 DEF Goto, Become
    <3> QED
      BY <1>1, <1>3, <1>5, <3>1, <3>2
  <2>2. CASE Release(q)
    <3>1. runner'[q].pc = "idle" /\ (q = r \/ runner'[r] = runner[r])
      BY <1>2, <2>2 DEF Release, Become, Idle
    <3> QED
      BY <1>1, <1>5, <3>1
  <2>3. CASE ~Complete(q) /\ ~Rethrow(q) /\ ~Release(q)
    <3>1. Advanced(runner[q], runner'[q]) /\ (q = r \/ runner'[r] = runner[r])
      BY <1>6, <2>3, RunAdvances
    <3>2. CASE q = r
      <4>1. Kept(runner[r])
        BY <3>1, <3>2 DEF Advanced, Unclaimed
      <4> QED
        BY <4>1
    <3> QED
      BY <1>5, <3>1, <3>2
  <2> QED
    BY <2>1, <2>2, <2>3
<1>7. ASSUME Poll PROVE Before
  <2>1. ASSUME NEW t \in Tasks, NEW q \in Runners, Launch(t, q) PROVE Before
    <3>1. CASE q = r
      <4>1. Launch(t, r)
        BY <2>1, <3>1 DEF Launch
      <4> QED
        BY <4>1
    <3>2. CASE q # r
      <4>1. runner'[r] = runner[r]
        BY <1>2, <2>1, <3>2 DEF Launch
      <4> QED
        BY <1>5, <4>1
    <3> QED
      BY <3>1, <3>2
  <2>2. CASE UNCHANGED runner
    BY <1>5, <2>2
  <2> QED
    BY <1>7, <2>1, <2>2 DEF Poll, Wake, RecoverWrite, SyncBlocked, FetchRunnable,
       CheckEmpty, Register, EndOfCycle, RecoverAbandoned, SkipActive, PoolFull,
       Saturate, pollVars
<1>8. ASSUME NEW c \in Clients, Request(c) \/ Step(c) PROVE Before
  <2>1. CASE CancelJobs(c, Head(script[c]))
    <3>1. \A x \in RunnerState : /\ [x EXCEPT !.cancelled = TRUE].pc = x.pc
                                 /\ [x EXCEPT !.cancelled = TRUE].task = x.task
      BY DEF RunnerState
    <3>2. runner'[r].pc = runner[r].pc /\ runner'[r].task = runner[r].task
      BY <1>2, <2>1, <3>1 DEF CancelJobs
    <3> QED
      BY <3>2
  <2>2. CASE UNCHANGED runner
    BY <1>5, <2>2
  <2> QED
    BY <1>8, <2>1, <2>2 DEF Request, Step, SetBatch, SetTasks, InsertBatch,
       ResumeBlocked, Unblock, ResumeJob, Start, pollVars
<1>9. ASSUME ServiceDestroy \/ Crash PROVE Before
  <2>1. runner'[r].pc = "idle"
    BY <1>9 DEF ServiceDestroy, Crash, emptyMemory, Idle
  <2> QED
    BY <1>1, <2>1
<1>10. ASSUME \/ \E t \in Tasks : BackoffElapses(t) \/ LeaseExpires(t)
              \/ AppStart \/ UNCHANGED vars
       PROVE  Before
  <2>1. UNCHANGED runner
    BY <1>10 DEF BackoffElapses, LeaseExpires, AppStart, pollVars, vars
  <2> QED
    BY <1>5, <2>1
<1>11. ASSUME Next PROVE Before
  BY <1>6, <1>7, <1>8, <1>9, <1>10, <1>11 DEF Next
<1>12. Before
  BY <1>10, <1>11
<1> QED
  BY <1>4, <1>12

(* Within a cycle the queue only shrinks, and who is registered stays so.  *)
LEMMA CycleSteps ==
  ASSUME ~Overtaking, TypeInv, WorkInv, [Next]_vars, poll'.pc \in {"launch", "register"}
  PROVE  \/ FetchRunnable
         \/ /\ poll.pc \in {"launch", "register"}
            /\ \A t \in Tasks :
                 /\ activeJobs[t] # None => activeJobs'[t] # None
                 /\ poll'.queue[t] # NotQueued => poll'.queue[t] = poll.queue[t]
                 /\ poll.pc = "register" /\ poll.task = t =>
                      activeJobs'[t] # None \/ (poll'.pc = "register" /\ poll'.task = t)
<1> DEFINE Kept == /\ poll.pc \in {"launch", "register"}
                   /\ \A t \in Tasks :
                        /\ activeJobs[t] # None => activeJobs'[t] # None
                        /\ poll'.queue[t] # NotQueued => poll'.queue[t] = poll.queue[t]
                        /\ poll.pc = "register" /\ poll.task = t =>
                             \/ activeJobs'[t] # None
                             \/ poll'.pc = "register" /\ poll'.task = t
<1>1. CASE UNCHANGED <<activeJobs, poll>>
  BY <1>1
<1>2. poll \in PollState /\ activeJobs \in [Tasks -> Runners \cup {None, Dead}]
  BY DEF TypeInv, TypeOK
<1>3. ASSUME NEW r \in Runners, Run(r) PROVE Kept
  <2>1. CASE Complete(r)
    BY <2>1, BoundAssumption DEF Complete
  <2>2. CASE Rethrow(r)
    <3>1. runner[r].task \in Tasks /\ activeJobs[runner[r].task] = None
      BY <2>2 DEF Rethrow, WorkInv, Removed, TypeInv, HasTask
    <3>2. UNCHANGED <<activeJobs, poll>>
      BY <1>2, <2>2, <3>1 DEF Rethrow
    <3> QED
      BY <1>1, <3>2
  <2>3. CASE Release(r)
    <3>1. Dead # None
      BY RunnersAssumption DEF Dead
    <3>2. UNCHANGED poll /\ \A t \in Tasks : activeJobs'[t] = IF activeJobs[t] = r THEN Dead
                                                              ELSE activeJobs[t]
      BY <2>3 DEF Release
    <3> QED
      BY <3>1, <3>2
  <2>4. CASE ~Complete(r) /\ ~Rethrow(r) /\ ~Release(r)
    BY <1>1, <1>3, <2>4, RunAdvances
  <2> QED
    BY <2>1, <2>2, <2>3, <2>4
<1>4. ASSUME Poll PROVE FetchRunnable \/ Kept
  <2>1. ASSUME NEW t \in Tasks, NEW r \in Runners, Launch(t, r) PROVE Kept
    <3>1. poll.pc = "launch" /\ UNCHANGED activeJobs
      BY <2>1 DEF Launch, Popped
    <3>2. \A u \in Tasks : poll'.queue[u] # NotQueued => poll'.queue[u] = poll.queue[u]
      BY <1>2, <2>1 DEF Launch, PollState
    <3> QED
      BY <3>1, <3>2
  <2>2. ASSUME NEW t \in Tasks, SkipActive(t) \/ Saturate(t) PROVE Kept
    <3>1. poll.pc = "launch" /\ UNCHANGED activeJobs
      BY <2>2 DEF SkipActive, Saturate, Popped, pollVars
    <3>2. \A u \in Tasks : poll'.queue[u] # NotQueued => poll'.queue[u] = poll.queue[u]
      BY <1>2, <2>2 DEF SkipActive, Saturate, PollState
    <3> QED
      BY <3>1, <3>2
  <2>3. CASE Register
    <3>1. poll.pc = "register" /\ poll.task \in Tasks /\ poll.runner \in Runners
      BY <2>3 DEF Register, TypeInv, HasTask
    <3>2. runner[poll.runner].pc # "idle"
      BY <3>1 DEF WorkInv, Registering, InRun
    <3>3. activeJobs' = [activeJobs EXCEPT ![poll.task] = poll.runner]
      BY <2>3, <3>2 DEF Register
    <3>4. \A u \in Tasks : activeJobs'[u] = IF u = poll.task THEN poll.runner ELSE activeJobs[u]
      BY <1>2, <3>1, <3>3
    <3>5. poll'.queue = poll.queue
      BY <1>2, <2>3 DEF Register, PollState
    <3>6. poll.runner # None
      BY <3>1, RunnersAssumption
    <3> QED
      BY <3>1, <3>4, <3>5, <3>6
  <2>4. CASE Wake \/ RecoverWrite \/ SyncBlocked
    <3>1. poll'.pc \notin {"launch", "register"}
      BY <1>2, <2>4 DEF Wake, RecoverWrite, SyncBlocked, PollState
    <3> QED
      BY <3>1
  <2>5. CASE CheckEmpty \/ EndOfCycle \/ \E t \in Tasks : PoolFull(t)
    <3>1. poll'.pc \notin {"launch", "register"}
      BY <2>5 DEF CheckEmpty, EndOfCycle, PoolFull, Waiting
    <3> QED
      BY <3>1
  <2>6. CASE \E t \in Tasks : RecoverAbandoned(t)
    <3>1. poll'.pc \notin {"launch", "register"}
      BY <1>2, <2>6 DEF RecoverAbandoned, PollState
    <3> QED
      BY <3>1
  <2>7. CASE FetchRunnable
    BY <2>7
  <2> HIDE DEF Kept
  <2> QED
    BY <1>4, <2>1, <2>2, <2>3, <2>4, <2>5, <2>6, <2>7 DEF Poll
<1>5. ASSUME NEW c \in Clients, Request(c) \/ Step(c) PROVE Kept
  <2>1. CASE Start(c, Head(script[c]))
    <3>1. UNCHANGED activeJobs /\ (UNCHANGED poll \/ poll' = Waiting)
      BY <2>1 DEF Start, started, pollVars
    <3> QED
      BY <1>1, <3>1 DEF Waiting
  <2>2. CASE UNCHANGED <<activeJobs, poll>>
    BY <1>1, <2>2
  <2> HIDE DEF Kept
  <2> QED
    BY <1>5, <2>1, <2>2 DEF Request, Step, SetBatch, SetTasks, InsertBatch,
       CancelJobs, ResumeBlocked, Unblock, ResumeJob, pollVars
<1>6. CASE (\E t \in Tasks : BackoffElapses(t) \/ LeaseExpires(t)) \/ UNCHANGED vars
  BY <1>1, <1>6 DEF BackoffElapses, LeaseExpires, pollVars, vars
<1>7. CASE ServiceDestroy \/ Crash \/ AppStart
  <2>1. poll'.pc \in {"stopped", "wait"}
    BY <1>7 DEF ServiceDestroy, Crash, AppStart, emptyMemory, Waiting
  <2> QED
    BY <2>1
<1>8. CASE Next
  BY <1>3, <1>4, <1>5, <1>6, <1>7, <1>8 DEF Next
<1>9. FetchRunnable \/ Kept
  BY <1>6, <1>8
<1> QED
  BY <1>9

(* Who is about to claim a row, or to write its outcome, is in activeJobs  *)
(* or about to be.                                                         *)
LEMMA AtWork ==
  ASSUME TypeInv, WorkInv, NEW t \in Tasks, NEW r \in Runners,
         runner[r].pc \in InRun, runner[r].task = t
  PROVE  activeJobs[t] # None \/ (poll.pc = "register" /\ poll.task = t)
BY RunnersAssumption DEF WorkInv, Registered, Registering

(* The steps that write a row for a coroutine.                             *)
LEMMA OutcomeBy ==
  ASSUME NEW t \in Tasks, NEW r \in Runners, Claimed(t, r) \/ Decided(t, r)
  PROVE  runner[r].pc \in InRun /\ runner[r].task = t
BY DEF Claimed, Decided, ClaimTask, Write, At, InRun

(* What is queued stays claimable, or somebody takes it.                   *)
LEMMA QueueStep ==
  ASSUME ~Overtaking, TypeInv, WorkInv, TaskInv, [Next]_vars PROVE QueueFits'
<1> SUFFICES ASSUME poll'.pc \in {"launch", "register"}, NEW t \in Tasks,
                    poll'.queue[t] # NotQueued
             PROVE  \/ Claimable(task'[t])
                    \/ activeJobs'[t] # None
                    \/ poll'.pc = "register" /\ poll'.task = t
  BY DEF QueueFits
<1>1. CASE FetchRunnable
  <2>1. t \in getRunnableTasks(task, batch) /\ UNCHANGED task
    BY <1>1 DEF FetchRunnable, TypeInv, TypeOK, PollState, store
  <2> QED
    BY <2>1 DEF getRunnableTasks, Claimable, TaskInv, AgesFit, TypeInv, TypeOK, TaskTable, TaskRow
<1>2. CASE /\ poll.pc \in {"launch", "register"}
           /\ activeJobs[t] # None => activeJobs'[t] # None
           /\ poll'.queue[t] # NotQueued => poll'.queue[t] = poll.queue[t]
           /\ poll.pc = "register" /\ poll.task = t =>
                activeJobs'[t] # None \/ (poll'.pc = "register" /\ poll'.task = t)
  <2>1. CASE activeJobs[t] # None \/ (poll.pc = "register" /\ poll.task = t)
    BY <1>2, <2>1
  <2>2. CASE Claimable(task[t])
    <3>1. ~Recovered(t) /\ ~Aged(t)
      BY <1>2, <2>2 DEF Recovered, RecoverWrite, Aged, Claimable
    <3>2. CASE \E r \in Runners : Claimed(t, r) \/ Decided(t, r)
      BY <2>1, <3>2, OutcomeBy, AtWork
    <3>3. CASE task'[t] = task[t] \/ \E c \in Clients : Rewritten(t, c)
      BY <2>2, <3>3 DEF Claimable, Rewritten
    <3> QED
      BY <3>1, <3>2, <3>3, RowSteps DEF TaskInv
  <2> QED
    BY <1>2, <2>1, <2>2 DEF TaskInv, QueueFits
<1> QED
  BY <1>1, <1>2, CycleSteps

(* A coroutine's claim fits its row, and so does the outcome it writes.    *)
LEMMA ClaimsStep ==
  ASSUME ~Overtaking, TypeInv, WorkInv, TaskInv, [Next]_vars PROVE ClaimsFit'
<1> SUFFICES ASSUME NEW r \in Runners, runner'[r].pc \in Undecided
             PROVE  /\ runner'[r].pc \in Unclaimed => task'[runner'[r].task].age # "later"
                    /\ task'[runner'[r].task].status # "SUCCESS"
  BY DEF ClaimsFit, Undecided
<1>1. ASSUME NEW t \in Tasks, Launch(t, r)
      PROVE  task'[runner'[r].task].age # "later" /\ task'[runner'[r].task].status # "SUCCESS"
  <2>1. /\ poll.pc = "launch" /\ activeJobs[t] = None /\ poll.queue[t] # NotQueued
        /\ UNCHANGED task
    BY <1>1 DEF Launch, Popped, store
  <2>2. runner'[r].task = t
    BY <1>1 DEF Launch, Idle, TypeInv, TypeOK
  <2>3. Claimable(task[t])
    BY <2>1 DEF TaskInv, QueueFits
  <2> QED
    BY <2>1, <2>2, <2>3 DEF Claimable
<1>2. CASE /\ runner[r].pc \in Undecided /\ runner'[r].task = runner[r].task
           /\ runner'[r].pc \in Unclaimed => runner[r].pc \in Unclaimed
           /\ ~Write(r)
  <2> DEFINE t == runner[r].task
  <2>1. t \in Tasks /\ runner[r].pc \in InRun
    BY <1>2 DEF TypeInv, HasTask, Undecided, Unclaimed, InRun
  <2>2. /\ runner[r].pc \in Unclaimed => task[t].age # "later"
        /\ task[t].status # "SUCCESS"
    BY <1>2 DEF TaskInv, ClaimsFit
  <2> HIDE DEF t
  <2>3. CASE \E q \in Runners : Claimed(t, q) \/ Decided(t, q)
    <3>1. PICK q \in Runners : Claimed(t, q) \/ Decided(t, q)
      BY <2>3
    <3>2. q = r
      BY <2>1, <3>1, OutcomeBy, WorkIsSingle DEF OneRunnerPerTask, t
    <3>3. Claimed(t, r)
      BY <1>2, <3>1, <3>2 DEF Decided
    <3> QED
      BY <1>2, <3>3 DEF Claimed, t
  <2>4. CASE \/ task'[t] = task[t] \/ Recovered(t) \/ Aged(t)
             \/ \E c \in Clients : Rewritten(t, c)
    <3>1. task'[t].status # "SUCCESS"
          /\ (runner[r].pc \in Unclaimed => task'[t].age # "later")
      BY <2>2, <2>4 DEF Recovered, Rewritten, Aged
    <3> QED
      BY <1>2, <3>1 DEF t
  <2> QED
    BY <2>1, <2>3, <2>4, RowSteps DEF TaskInv
<1> QED
  <2>1. runner'[r].pc \in InRun
    BY DEF Undecided, Unclaimed, InRun
  <2> QED
    BY <1>1, <1>2, <2>1, WorkBefore

(* The ages a row can have.                                                *)
LEMMA AgesStep ==
  ASSUME TypeInv, TaskInv, [Next]_vars PROVE AgesFit'
<1> SUFFICES ASSUME NEW t \in Tasks
             PROVE  /\ task'[t].age = "later" => task'[t].status # "RUNNING"
                    /\ task'[t].age = "expired" => task'[t].status = "RUNNING"
  BY DEF AgesFit
<1>1. /\ task[t].age = "later" => task[t].status # "RUNNING"
      /\ task[t].age = "expired" => task[t].status = "RUNNING"
  BY DEF TaskInv, AgesFit
<1>2. CASE task'[t] = task[t]
  BY <1>1, <1>2
<1>3. CASE Recovered(t) \/ \E c \in Clients : Rewritten(t, c)
  BY <1>3 DEF Recovered, Rewritten
<1>4. CASE Aged(t)
  BY <1>1, <1>4 DEF Aged
<1>5. CASE \E r \in Runners : Claimed(t, r) \/ Decided(t, r)
  BY <1>5 DEF Claimed, Decided
<1> QED
  BY <1>2, <1>3, <1>4, <1>5, RowSteps DEF TaskInv

(* No outcome about to be written makes a row RUNNING again.               *)
LEMMA OutcomesStep ==
  ASSUME TypeInv, TaskInv, [Next]_vars PROVE OutcomesMoved'
<1> SUFFICES ASSUME NEW r \in Runners PROVE Moved(runner'[r])
  BY DEF OutcomesMoved
<1>1. runner'[r].pc # "write" => Moved(runner'[r])
  BY DEF Moved
<1>2. Moved(runner[r]) /\ runner \in [Runners -> RunnerState]
  BY DEF TaskInv, OutcomesMoved, TypeInv, TypeOK
<1>3. ASSUME NEW q \in Runners, Run(q) PROVE Moved(runner'[r])
  <2>1. CASE Complete(q) \/ Rethrow(q)
    <3>1. Goto(q, "release") \/ Goto(q, "rethrow")
      BY <2>1 DEF Complete, Rethrow
    <3>2. runner'[r] = runner[r] \/ runner'[r].pc \in {"release", "rethrow"}
      BY <1>2, <3>1 DEF Goto, Become, RunnerState
    <3> QED
      BY <1>1, <1>2, <3>2
  <2>2. CASE Release(q)
    <3>1. runner'[r] = runner[r] \/ runner'[r].pc = "idle"
      BY <1>2, <2>2 DEF Release, Become, Idle
    <3> QED
      BY <1>1, <1>2, <3>1
  <2>3. CASE ~Complete(q) /\ ~Rethrow(q) /\ ~Release(q)
    BY <1>2, <1>3, <2>3, RunAdvances DEF Advanced
  <2> QED
    BY <2>1, <2>2, <2>3
<1>4. CASE Poll
  <2>1. ASSUME NEW t \in Tasks, NEW q \in Runners, Launch(t, q)
        PROVE  runner'[r] = runner[r] \/ runner'[r].pc = "launched"
    BY <1>2, <2>1 DEF Launch, Idle
  <2>2. CASE UNCHANGED runner
    BY <1>2, <2>2
  <2> QED
    BY <1>1, <1>2, <1>4, <2>1, <2>2 DEF Poll, Wake, RecoverWrite, SyncBlocked,
       FetchRunnable, CheckEmpty, Register, EndOfCycle, RecoverAbandoned,
       SkipActive, PoolFull, Saturate, pollVars
<1>5. ASSUME NEW c \in Clients, Request(c) \/ Step(c) PROVE Moved(runner'[r])
  <2>1. CASE CancelJobs(c, Head(script[c]))
    <3>1. \A x \in RunnerState : Moved(x) => Moved([x EXCEPT !.cancelled = TRUE])
      BY DEF RunnerState, Moved
    <3> QED
      BY <1>2, <2>1, <3>1 DEF CancelJobs
  <2>2. CASE UNCHANGED runner
    BY <1>2, <2>2
  <2> QED
    BY <1>5, <2>1, <2>2 DEF Request, Step, SetBatch, SetTasks, InsertBatch,
       ResumeBlocked, Unblock, ResumeJob, Start, pollVars
<1>6. CASE ServiceDestroy \/ Crash
  <2>1. runner'[r].pc = "idle"
    BY <1>6 DEF ServiceDestroy, Crash, emptyMemory, Idle
  <2> QED
    BY <1>1, <2>1
<1>7. CASE (\E t \in Tasks : BackoffElapses(t) \/ LeaseExpires(t)) \/ AppStart \/ UNCHANGED vars
  <2>1. UNCHANGED runner
    BY <1>7 DEF BackoffElapses, LeaseExpires, AppStart, pollVars, vars
  <2> QED
    BY <1>2, <2>1
<1>8. CASE Next
  BY <1>3, <1>4, <1>5, <1>6, <1>7, <1>8 DEF Next
<1> QED
  BY <1>7, <1>8

(* The rows and what the coroutines are about to write agree.              *)
LEMMA TaskInvariant == ~Overtaking => (Spec => []TaskInv)
<1> SUFFICES ASSUME ~Overtaking PROVE Spec => []TaskInv
  OBVIOUS
<1>1. Init => TaskInv
  <2> SUFFICES ASSUME Init PROVE TaskInv
    OBVIOUS
  <2>1. \A r \in Runners : runner[r].pc = "idle"
    BY DEF Init, Idle
  <2>2. \A t \in Tasks : task[t].age = "fresh"
    BY DEF Init, NewRow, NoRow
  <2>3. poll.pc = "wait"
    BY DEF Init, Waiting
  <2> QED
    BY <2>1, <2>2, <2>3 DEF TaskInv, OutcomesMoved, Moved, AgesFit, QueueFits,
       ClaimsFit, Unclaimed, Undecided
<1>2. TypeInv /\ WorkInv /\ TaskInv /\ [Next]_vars => TaskInv'
  BY QueueStep, ClaimsStep, AgesStep, OutcomesStep DEF TaskInv
<1> QED
  BY <1>1, <1>2, TypeInvariant, WorkInvariant, PTL DEF Spec

(* A retry is not claimed before its back-off has elapsed: the coroutine   *)
(* claims what the query of the runnable tasks returned, and nothing makes *)
(* that row wait again before (JobDao.kt, JobRunner.kt).                   *)
THEOREM BackoffIsHonoured == ~Overtaking => (Spec => BackoffHonoured)
<1> SUFFICES ASSUME ~Overtaking PROVE Spec => BackoffHonoured
  OBVIOUS
<1>1. ASSUME TypeInv, WorkInv, TaskInv, [Next]_vars
      PROVE  [\A t \in Tasks : task[t].age = "later" => task'[t].status # "RUNNING"]_task
  <2> SUFFICES ASSUME NEW t \in Tasks, task[t].age = "later"
               PROVE  task'[t].status # "RUNNING"
    OBVIOUS
  <2>1. task[t].status # "RUNNING"
    BY <1>1 DEF TaskInv, AgesFit
  <2>2. ASSUME NEW r \in Runners, Claimed(t, r) PROVE FALSE
    BY <1>1, <2>2 DEF Claimed, ClaimTask, At, TaskInv, ClaimsFit, Unclaimed
  <2>3. CASE task'[t] = task[t] \/ Recovered(t) \/ \E c \in Clients : Rewritten(t, c)
    BY <2>1, <2>3 DEF Recovered, Rewritten
  <2>4. CASE Aged(t) \/ \E r \in Runners : Decided(t, r)
    BY <2>1, <2>4 DEF Aged, Decided
  <2> QED
    BY <1>1, <2>2, <2>3, <2>4, RowSteps DEF TaskInv
<1> QED
  BY <1>1, TypeInvariant, WorkInvariant, TaskInvariant, PTL DEF Spec, BackoffHonoured

(* An abandoned task is nobody's: what recoverAbandoned is about to write  *)
(* over is a RUNNING row whose lease has expired, or what a request has    *)
(* made of it, and no coroutine will write the outcome of that task.       *)
Abandoned(t) == ~live(t) /\ task[t].status # "SUCCESS"

RecoverInv ==
  /\ \A t \in Tasks : task[t].age = "expired" => ~live(t)
  /\ poll.pc \in {"recover", "recoverWrite"} => \A t \in poll.todo : Abandoned(t)
  /\ poll.pc = "recoverWrite" => Abandoned(poll.task)

(* A task that is worked on was so before, or has just been launched.      *)
LEMMA LiveBefore ==
  ASSUME ~Overtaking, TypeInv, TaskInv, [Next]_vars, NEW t \in Tasks, live(t)'
  PROVE  live(t) \/ (poll.pc = "launch" /\ task'[t].age = "fresh")
<1>1. PICK r \in Runners : runner'[r].pc \in InRun /\ runner'[r].task = t
  BY DEF live
<1>2. ASSUME NEW u \in Tasks, Launch(u, r)
      PROVE  poll.pc = "launch" /\ task'[t].age = "fresh"
  <2>1. /\ poll.pc = "launch" /\ activeJobs[u] = None /\ poll.queue[u] # NotQueued
        /\ UNCHANGED task
    BY <1>2 DEF Launch, Popped, store
  <2>2. runner'[r].task = u
    BY <1>2 DEF Launch, Idle, TypeInv, TypeOK
  <2>3. Claimable(task[u])
    BY <2>1 DEF TaskInv, QueueFits
  <2> QED
    BY <1>1, <2>1, <2>2, <2>3 DEF Claimable
<1>3. CASE runner[r].pc \in InRun /\ runner'[r].task = runner[r].task
  BY <1>1, <1>3 DEF live
<1> QED
  BY <1>1, <1>2, <1>3, WorkBefore

(* The steps of recovery.                                                  *)
LEMMA RecoverySteps ==
  ASSUME TypeInv, [Next]_vars, poll'.pc \in {"recover", "recoverWrite"}
  PROVE  \/ Wake
         \/ /\ poll.pc \in {"recover", "recoverWrite"}
            /\ poll'.todo \subseteq poll.todo
            /\ poll'.pc = "recoverWrite" =>
                 \/ \E t \in poll.todo \ poll'.todo :
                      poll'.task = t /\ poll'.target = recoveredStatus(BatchOf[t])
                 \/ poll.pc = "recoverWrite" /\ UNCHANGED poll
<1> DEFINE Goes == /\ poll.pc \in {"recover", "recoverWrite"}
                   /\ poll'.todo \subseteq poll.todo
                   /\ poll'.pc = "recoverWrite" =>
                        \/ \E t \in poll.todo \ poll'.todo :
                             poll'.task = t /\ poll'.target = recoveredStatus(BatchOf[t])
                        \/ poll.pc = "recoverWrite" /\ UNCHANGED poll
<1>1. ASSUME UNCHANGED poll PROVE Goes
  BY <1>1
<1>2. poll \in PollState
  BY DEF TypeInv, TypeOK
<1>3. ASSUME Poll PROVE Wake \/ Goes
  <2>1. CASE RecoverWrite
    BY <1>2, <2>1 DEF RecoverWrite, PollState
  <2>2. ASSUME NEW t \in Tasks, RecoverAbandoned(t) PROVE Goes
    BY <1>2, <2>2 DEF RecoverAbandoned, PollState
  <2>3. CASE \/ SyncBlocked \/ FetchRunnable \/ Register
             \/ \E t \in Tasks : SkipActive(t) \/ Saturate(t)
    <3>1. poll'.pc \in {"fetch", "empty", "launch"}
      BY <1>2, <2>3 DEF SyncBlocked, FetchRunnable, Register, SkipActive, Saturate,
                        Popped, PollState
    <3> QED
      BY <3>1
  <2>4. CASE CheckEmpty \/ EndOfCycle \/ \E t \in Tasks : PoolFull(t)
    <3>1. poll'.pc \in {"wait", "stopping"}
      BY <2>4 DEF CheckEmpty, EndOfCycle, PoolFull, Waiting
    <3> QED
      BY <3>1
  <2>5. CASE \E t \in Tasks, r \in Runners : Launch(t, r)
    <3>1. poll'.pc = "register"
      BY <1>2, <2>5 DEF Launch, PollState
    <3> QED
      BY <3>1
  <2> HIDE DEF Goes
  <2> QED
    BY <1>3, <2>1, <2>2, <2>3, <2>4, <2>5 DEF Poll
<1>4. ASSUME NEW r \in Runners, Run(r) PROVE UNCHANGED poll
  BY <1>4, RunAdvances DEF Complete, Rethrow, Release
<1>5. ASSUME NEW c \in Clients, Request(c) \/ Step(c) PROVE Goes
  <2>1. CASE Start(c, Head(script[c]))
    <3>1. UNCHANGED poll \/ poll'.pc = "wait"
      BY <2>1 DEF Start, started, Waiting
    <3> QED
      BY <1>1, <3>1
  <2>2. CASE UNCHANGED poll
    BY <1>1, <2>2
  <2> HIDE DEF Goes
  <2> QED
    BY <1>5, <2>1, <2>2 DEF Request, Step, SetBatch, SetTasks, InsertBatch,
       CancelJobs, ResumeBlocked, Unblock, ResumeJob
<1>6. ASSUME (\E t \in Tasks : BackoffElapses(t) \/ LeaseExpires(t)) \/ UNCHANGED vars
      PROVE  UNCHANGED poll
  BY <1>6 DEF BackoffElapses, LeaseExpires, vars
<1>7. ASSUME ServiceDestroy \/ Crash \/ AppStart PROVE FALSE
  <2>1. poll'.pc \in {"stopped", "wait"}
    BY <1>7 DEF ServiceDestroy, Crash, AppStart, emptyMemory, Waiting
  <2> QED
    BY <2>1
<1>8. ASSUME Next PROVE Wake \/ Goes
  BY <1>1, <1>3, <1>4, <1>5, <1>6, <1>7, <1>8 DEF Next
<1>9. Wake \/ Goes
  BY <1>1, <1>6, <1>8
<1> QED
  BY <1>9

(* Recovery picks up only what nobody works on.                            *)
LEMMA RecoverStep ==
  ASSUME ~Overtaking, ~SlowHandlers, TypeInv, WorkInv, TaskInv, RecoverInv, [Next]_vars
  PROVE  RecoverInv'
<1>1. ASSUME NEW t \in Tasks, task'[t].age = "expired" PROVE ~live(t)'
  <2>1. task'[t] = task[t] => ~live(t)
    BY <1>1 DEF RecoverInv
  <2>2. Aged(t) => ~live(t)
    BY <1>1 DEF Aged
  <2>3. ~live(t)
    BY <1>1, <2>1, <2>2, RowSteps DEF TaskInv, Rewritten, Recovered, Claimed, Decided
  <2> QED
    BY <1>1, <2>3, LiveBefore
<1>2. ASSUME NEW t \in Tasks, Abandoned(t), poll.pc \in {"recover", "recoverWrite"}
      PROVE  Abandoned(t)'
  <2>1. ~live(t)'
    BY <1>2, LiveBefore DEF Abandoned
  <2>2. ASSUME NEW r \in Runners, Claimed(t, r) \/ Decided(t, r) PROVE FALSE
    BY <1>2, <2>2, OutcomeBy DEF Abandoned, live
  <2>3. task'[t].status # "SUCCESS"
    BY <1>2, <2>2, RowSteps DEF Abandoned, TaskInv, Rewritten, Recovered, Aged
  <2> QED
    BY <2>1, <2>3 DEF Abandoned
<1>3. ASSUME poll'.pc \in {"recover", "recoverWrite"}
      PROVE  /\ \A t \in poll'.todo : Abandoned(t)'
             /\ poll'.pc = "recoverWrite" => Abandoned(poll.task)'
  <2>1. poll.todo \subseteq Tasks /\ (poll.pc = "recoverWrite" => poll.task \in Tasks)
    BY DEF TypeInv, TypeOK, HasTask, PollState
  <2>2. CASE Wake
    <3>1. /\ poll'.pc = "recover" /\ UNCHANGED <<task, runner>>
          /\ \A t \in poll'.todo : /\ t \in Tasks /\ task[t].status = "RUNNING"
                                   /\ task[t].age = "expired"
      BY <2>2 DEF Wake, getRunningTasks, TypeInv, TypeOK, PollState, store, pollVars
    <3> QED
      BY <3>1 DEF RecoverInv, Abandoned, live
  <2>3. CASE /\ poll.pc \in {"recover", "recoverWrite"}
             /\ poll'.todo \subseteq poll.todo
             /\ poll'.pc = "recoverWrite" =>
                  \/ \E t \in poll.todo \ poll'.todo :
                       poll'.task = t /\ poll'.target = recoveredStatus(BatchOf[t])
                  \/ poll.pc = "recoverWrite" /\ UNCHANGED poll
    <3>1. \A t \in poll.todo : Abandoned(t)'
      BY <1>2, <2>1, <2>3 DEF RecoverInv
    <3>2. poll.pc = "recoverWrite" => \A t \in Tasks : t = poll.task => Abandoned(t)'
      BY <1>2, <2>1, <2>3 DEF RecoverInv
    <3>3. poll'.pc = "recoverWrite" => \E t \in Tasks : t = poll'.task /\ Abandoned(t)'
      BY <2>1, <2>3, <3>1, <3>2
    <3>4. poll'.pc = "recoverWrite" => Abandoned(poll.task)'
      BY <3>3 DEF Abandoned, live
    <3> QED
      BY <2>3, <3>1, <3>4
  <2> QED
    BY <1>3, <2>2, <2>3, RecoverySteps
<1> QED
  BY <1>1, <1>3 DEF RecoverInv

(* A success is final: the outcome of a task is written by the one         *)
(* coroutine that works on it, recoverAbandoned leaves it alone, and the   *)
(* statements of a pause or a cancellation pass it by (status != 'SUCCESS' *)
(* in JobDao.kt); only a request that asks for the task again takes it     *)
(* away.  No handler outlasts the lease and no coroutine overtakes.        *)
THEOREM SuccessStays ==
  ~Overtaking /\ ~SlowHandlers => (Spec => SuccessIsFinal)
<1> SUFFICES ASSUME ~Overtaking, ~SlowHandlers PROVE Spec => SuccessIsFinal
  OBVIOUS
<1>1. Init => RecoverInv
  <2> SUFFICES ASSUME Init PROVE RecoverInv
    OBVIOUS
  <2>1. poll.pc = "wait" /\ \A t \in Tasks : task[t].age = "fresh"
    BY DEF Init, Waiting, NewRow, NoRow
  <2> QED
    BY <2>1 DEF RecoverInv
<1>2. TypeInv /\ WorkInv /\ TaskInv /\ RecoverInv /\ [Next]_vars => RecoverInv'
  BY RecoverStep
<1> DEFINE Renewed(t) == \E c \in Clients : script'[c] # script[c] /\ Head(script[c]).op \in Renews
<1>3. ASSUME TypeInv, WorkInv, TaskInv, RecoverInv, [Next]_vars,
             NEW t \in Tasks, task[t].status = "SUCCESS", task'[t].status # "SUCCESS"
      PROVE  Renewed(t)
  <2>1. ASSUME NEW r \in Runners, Claimed(t, r) \/ Decided(t, r) PROVE FALSE
    BY <1>3, <2>1 DEF Claimed, ClaimTask, Decided, Write, At, TaskInv, ClaimsFit,
                      Unclaimed, Undecided
  <2>2. ~Recovered(t)
    BY <1>3 DEF Recovered, RecoverWrite, RecoverInv, Abandoned
  <2>3. ASSUME NEW c \in Clients, Rewritten(t, c) PROVE Renewed(t)
    BY <1>3, <2>3 DEF Rewritten
  <2> QED
    BY <1>3, <2>1, <2>2, <2>3, RowSteps DEF TaskInv, Aged
<1>4. TypeInv /\ WorkInv /\ TaskInv /\ RecoverInv /\ [Next]_vars =>
        [\A t \in Tasks :
           task[t].status = "SUCCESS" =>
             \/ task'[t].status = "SUCCESS"
             \/ \E c \in Clients :
                  /\ script'[c] # script[c]
                  /\ Head(script[c]).op \in
                       {"resetBatch", "resetTask", "insertBatch", "insertTasks"}]_vars
  BY <1>3 DEF Renews
<1> QED
  BY <1>1, <1>2, <1>4, TypeInvariant, WorkInvariant, TaskInvariant, PTL
     DEF Spec, SuccessIsFinal

-----------------------------------------------------------------------------
(***************************************************************************)
(* The verdict of a batch, where the scheduler is on its own.              *)
(*                                                                         *)
(* The reading of the rows in syncBatchCompletion and the write of the     *)
(* verdict are two statements.  What is read in between stays true because *)
(* a row that has its verdict is left alone (SettledStays): a coroutine    *)
(* claims a PENDING row and writes the outcome of a RUNNING one (Fits),    *)
(* recovery writes over a RUNNING one that is nobody's (Recovering).       *)
(* VerdictInv says so of every place a status is kept on its way.          *)
(***************************************************************************)

(* Nobody asks for anything: the app was started with its batches, and the *)
(* scheduler is on its own with its crashes and its restarts.              *)
Quiet == \A c \in Clients : script[c] = <<>>

LEMMA QuietStep ==
  ASSUME Requests = {}, Quiet, [Next]_vars
  PROVE  Quiet' /\ ~\E c \in Clients : Request(c) \/ Step(c)
<1>1. \A c \in Clients : ~Request(c) /\ ~Step(c)
  BY DEF Quiet, Request, Step
<1>2. UNCHANGED script => Quiet'
  BY DEF Quiet
<1>3. CASE Poll
  <2>1. UNCHANGED script
    BY <1>3 DEF Poll, Wake, RecoverWrite, SyncBlocked, FetchRunnable, CheckEmpty,
       Register, EndOfCycle, RecoverAbandoned, SkipActive, PoolFull, Saturate, Launch, others
  <2> QED
    BY <1>1, <1>2, <2>1
<1>4. CASE \E r \in Runners : Run(r)
  <2>1. UNCHANGED script
    BY <1>4 DEF Run, PreClaim, ClaimTask, ClaimBatch, PreExec, Handle, Latest, Write,
       BlockBatch, BlockCrawler, BlockEach, SyncTasks, SyncBatch, SyncWrite, Abort,
       NeverStarted, Complete, Rethrow, Release, others
  <2> QED
    BY <1>1, <1>2, <2>1
<1>5. CASE Crash
  BY <1>1, <1>5 DEF Crash, Quiet
<1>6. CASE \/ \E t \in Tasks : BackoffElapses(t) \/ LeaseExpires(t)
           \/ ServiceDestroy \/ AppStart \/ UNCHANGED vars
  <2>1. UNCHANGED script
    BY <1>6 DEF BackoffElapses, LeaseExpires, ServiceDestroy, AppStart, others, vars
  <2> QED
    BY <1>1, <1>2, <2>1
<1> QED
  BY <1>1, <1>3, <1>4, <1>5, <1>6 DEF Next

(* A coroutine and the row of its task: the row waits until it is claimed, *)
(* runs until the outcome is written, and counts the attempts that the     *)
(* coroutine knows of; the outcome is one that a RUNNING row can have.     *)
Taken == {"claimBatch", "limit", "handle", "latest", "write"}
Fits(x, row) ==
  /\ x.pc \in Unclaimed => row.status = "PENDING"
  /\ x.pc \in Taken => row.status = "RUNNING"
  /\ x.pc \in Undecided \ {"write"} => x.attempts = row.attempts
  /\ x.pc = "write" =>
       /\ x.result \in {"Fatal", "Retry"} => x.attempts = row.attempts + 1
       /\ x.result = "Retry" => x.attempts < MaxAttempts
       /\ x.result = "Cancelled" => x.target = "CANCELLED"
       /\ x.result = "Blocked" => x.target = "BLOCKED"
       /\ x.result \in {"Success", "Fatal", "Retry", "Cancelled", "Blocked"}
  /\ x.pc = "blockBatch" => x.target = "BLOCKED" /\ row.status = "BLOCKED"

RunnersFit ==
  \A r \in Runners : runner[r].pc \in InRun => Fits(runner[r], task[runner[r].task])

(* A queued row is as it was read, or somebody has it.                     *)
QueueWaits ==
  poll.pc \in {"launch", "register"} =>
    \A t \in Tasks : poll.queue[t] # NotQueued =>
      \/ task[t].status = "PENDING" /\ task[t].attempts = poll.queue[t]
      \/ activeJobs[t] # None
      \/ poll.pc = "register" /\ poll.task = t

(* What recovery is about to write over is still RUNNING.                  *)
Recovering ==
  /\ poll.pc \in {"recover", "recoverWrite"} =>
       \A t \in poll.todo : task[t].status = "RUNNING"
  /\ poll.pc = "recoverWrite" =>
       /\ task[poll.task].status = "RUNNING"
       /\ poll.task \notin poll.todo
       /\ poll.target \in {"PENDING", "BLOCKED"}

(* The tasks of b have their verdicts, and s is the one that follows.      *)
Final(tk, b, s) ==
  /\ Rows(tk, b) # {}
  /\ \A t \in Rows(tk, b) : Completed(tk[t].status)
  /\ s = finalStatus({tk[t].status : t \in Rows(tk, b)})

(* A verdict that is about to be written is right, and so is one that is   *)
(* shown.                                                                  *)
Syncs == {"syncBatch", "syncWrite"}
SyncsFit ==
  \A r \in Runners : runner[r].pc \in Syncs =>
    runner[r].target = "RUNNING" \/ Final(task, batchOf(r), runner[r].target)

BatchesFit ==
  \A b \in Batches : /\ Completed(batch[b]) => Final(task, b, batch[b])
                     /\ batch[b] # "PAUSED"

VerdictInv == RunnersFit /\ QueueWaits /\ Recovering /\ SyncsFit /\ BatchesFit

(* The scheduler's own invariants, where it is on its own.                 *)
Alone ==
  /\ Requests = {} /\ ~Overtaking /\ ~SlowHandlers
  /\ TypeInv /\ WorkInv /\ TaskInv /\ RecoverInv /\ Quiet

(* A row that has a verdict, or none at all, is left alone; one that is    *)
(* written for a coroutine, or recovered, was what that expects.           *)
LEMMA RowMoves ==
  ASSUME Alone, RunnersFit, Recovering, [Next]_vars, NEW t \in Tasks
  PROVE  \/ task'[t].status = task[t].status /\ task'[t].attempts = task[t].attempts
         \/ Recovered(t) /\ task[t].status = "RUNNING"
         \/ \E r \in Runners : Claimed(t, r) /\ task[t].status = "PENDING"
         \/ \E r \in Runners : Decided(t, r) /\ task[t].status = "RUNNING"
<1>1. ~\E c \in Clients : Rewritten(t, c)
  BY QuietStep DEF Alone, Rewritten
<1>2. Recovered(t) => task[t].status = "RUNNING"
  BY DEF Recovered, RecoverWrite, Recovering
<1>3. ASSUME NEW r \in Runners, Claimed(t, r) PROVE task[t].status = "PENDING"
  BY <1>3 DEF Claimed, ClaimTask, At, RunnersFit, Fits, InRun, Unclaimed
<1>4. ASSUME NEW r \in Runners, Decided(t, r) PROVE task[t].status = "RUNNING"
  BY <1>4 DEF Decided, Write, At, RunnersFit, Fits, InRun, Taken
<1>5. Aged(t) => task'[t].status = task[t].status /\ task'[t].attempts = task[t].attempts
  BY DEF Aged
<1> QED
  BY <1>1, <1>2, <1>3, <1>4, <1>5, RowSteps DEF Alone, TaskInv

LEMMA SettledStays ==
  ASSUME Alone, RunnersFit, Recovering, [Next]_vars, NEW t \in Tasks,
         Completed(task[t].status) \/ task[t].status = Absent
  PROVE  task'[t].status = task[t].status
BY RowMoves DEF Completed, Absent

LEMMA FinalStays ==
  ASSUME Alone, RunnersFit, Recovering, [Next]_vars, NEW b \in Batches, NEW s,
         Final(task, b, s)
  PROVE  Final(task', b, s)
<1>1. \A t \in TasksOf(b) : task'[t].status = task[t].status
  <2> SUFFICES ASSUME NEW t \in TasksOf(b) PROVE task'[t].status = task[t].status
    OBVIOUS
  <2>1. t \in Tasks /\ (Completed(task[t].status) \/ task[t].status = Absent)
    BY DEF Final, Rows, TasksOf
  <2> QED
    BY <2>1, SettledStays
<1>2. Rows(task', b) = Rows(task, b)
  BY <1>1 DEF Rows
<1>3. \A t \in Rows(task, b) : task'[t].status = task[t].status
  BY <1>1 DEF Rows
<1>4. {task'[t].status : t \in Rows(task, b)} = {task[t].status : t \in Rows(task, b)}
  BY <1>3
<1> QED
  BY <1>2, <1>3, <1>4 DEF Final

(* A coroutine's record changes when it is launched or when it goes on.    *)
LEMMA RecordSteps ==
  ASSUME Alone, [Next]_vars, NEW r \in Runners, runner'[r].pc \in InRun
  PROVE  \/ \E t \in Tasks : Launch(t, r)
         \/ Run(r)
         \/ ~Run(r) /\ runner'[r] = runner[r]
<1> DEFINE Goal == (\E t \in Tasks : Launch(t, r)) \/ Run(r) \/ runner'[r] = runner[r]
<1>1. runner \in [Runners -> RunnerState]
  BY DEF Alone, TypeInv, TypeOK
<1>2. UNCHANGED runner => Goal
  OBVIOUS
<1>3. ASSUME NEW q \in Runners, Run(q), q # r PROVE Goal
  <2>1. CASE Complete(q) \/ Rethrow(q) \/ Release(q)
    BY <1>1, <1>3, <2>1 DEF Complete, Rethrow, Release, Goto, Become
  <2>2. CASE ~Complete(q) /\ ~Rethrow(q) /\ ~Release(q)
    BY <1>3, <2>2, RunAdvances DEF Alone
  <2> QED
    BY <2>1, <2>2
<1>4. ASSUME NEW t \in Tasks, NEW q \in Runners, Launch(t, q) PROVE Goal
  <2>1. CASE q = r
    BY <1>4, <2>1 DEF Launch
  <2>2. CASE q # r
    BY <1>1, <1>4, <2>2 DEF Launch
  <2> QED
    BY <2>1, <2>2
<1>5. ASSUME Poll, \A t \in Tasks, q \in Runners : ~Launch(t, q) PROVE Goal
  <2>1. UNCHANGED runner
    BY <1>5 DEF Poll, Wake, RecoverWrite, SyncBlocked, FetchRunnable, CheckEmpty,
       Register, EndOfCycle, RecoverAbandoned, SkipActive, PoolFull, Saturate, pollVars
  <2> QED
    BY <1>2, <2>1
<1>6. ASSUME ServiceDestroy \/ Crash PROVE FALSE
  <2>1. runner'[r].pc = "idle"
    BY <1>6 DEF ServiceDestroy, Crash, emptyMemory, Idle
  <2> QED
    BY <2>1 DEF InRun
<1>7. ASSUME \/ \E t \in Tasks : BackoffElapses(t) \/ LeaseExpires(t)
             \/ AppStart \/ UNCHANGED vars
      PROVE  Goal
  <2>1. UNCHANGED runner
    BY <1>7 DEF BackoffElapses, LeaseExpires, AppStart, pollVars, vars
  <2> QED
    BY <1>2, <2>1
<1>8. Goal
  <2>1. ~\E c \in Clients : Request(c) \/ Step(c)
    BY QuietStep DEF Alone
  <2>2. ASSUME Next PROVE Goal
    <3>1. (\E q \in Runners : Run(q)) => Goal
      BY <1>3
    <3>2. Poll => Goal
      BY <1>4, <1>5
    <3> QED
      BY <1>6, <1>7, <2>1, <2>2, <3>1, <3>2 DEF Next
  <2> QED
    BY <1>7, <2>2
<1> QED
  BY <1>8

(* Fits only looks at the status and the attempts of a row.                *)
LEMMA FitsSame ==
  ASSUME NEW x, NEW row, NEW next, Fits(x, row),
         next.status = row.status, next.attempts = row.attempts
  PROVE  Fits(x, next)
BY DEF Fits

(* ... and only until the outcome is written, or the batch is blocked.     *)
LEMMA FitsLater ==
  ASSUME NEW x, NEW row, x.pc \notin Undecided \cup {"blockBatch"}
  PROVE  Fits(x, row)
BY DEF Fits, Undecided, Unclaimed, Taken

(* Going on without touching the row.                                      *)
LEMMA FitsNext ==
  ASSUME NEW x \in RunnerState, NEW row, NEW pc, Fits(x, row),
         \/ pc \notin Undecided \cup {"blockBatch"}
         \/ x.pc \in Unclaimed /\ pc \in Unclaimed
         \/ x.pc \in Taken \ {"write"} /\ pc \in Taken \ {"write"}
  PROVE  Fits([x EXCEPT !.pc = pc], row)
<1> DEFINE y == [x EXCEPT !.pc = pc]
<1>1. y.pc = pc /\ y.attempts = x.attempts
  BY DEF RunnerState
<1> HIDE DEF y
<1>2. CASE pc \notin Undecided \cup {"blockBatch"}
  <2>1. Fits(y, row)
    BY <1>1, <1>2, FitsLater
  <2> QED
    BY <2>1 DEF y
<1>3. CASE \/ x.pc \in Unclaimed /\ pc \in Unclaimed
           \/ x.pc \in Taken \ {"write"} /\ pc \in Taken \ {"write"}
  <2>1. Fits(y, row)
    BY <1>1, <1>3 DEF Fits, Unclaimed, Undecided, Taken
  <2> QED
    BY <2>1 DEF y
<1> QED
  BY <1>2, <1>3

(* What the reading of the row decides.                                    *)
LEMMA LatestFits ==
  ASSUME Alone, NEW r \in Runners, Latest(r),
         Fits(runner[r], task[runner[r].task])
  PROVE  Fits(runner'[r], task[runner[r].task])
<1> DEFINE me == runner[r]
           row == task[me.task]
           n == row.attempts + 1
           counted(kind) == [me EXCEPT !.pc = "write", !.result = kind, !.attempts = n]
           moved(event) == [me EXCEPT !.pc = "write", !.target = transition("RUNNING", event)]
           done == [me EXCEPT !.pc = "write"]
<1>1. me \in RunnerState /\ runner \in [Runners -> RunnerState]
  BY DEF Alone, TypeInv, TypeOK
<1>2. me.pc = "latest" /\ row.status = "RUNNING"
  BY DEF Latest, At, Fits, Taken
<1>3. readBack(rowOf(r), me.attempts) = row
  BY <1>2 DEF readBack, rowOf, Absent
<1>4. \A x : Become(r, x) => runner'[r] = x
  BY <1>1 DEF Become
<1>5. /\ transition("RUNNING", "CANCEL_REQUESTED") = "CANCELLED"
      /\ transition("RUNNING", "BLOCKED_BY_PROTECTION") = "BLOCKED"
  <2>1. /\ \A to : <<"RUNNING", "CANCEL_REQUESTED", to>> \in TransitionRows <=> to = "CANCELLED"
        /\ \A to : <<"RUNNING", "BLOCKED_BY_PROTECTION", to>> \in TransitionRows <=> to = "BLOCKED"
    BY DEF TransitionRows
  <2>2. "CANCELLED" \in JobStatus /\ "BLOCKED" \in JobStatus
    BY DEF JobStatus
  <2> QED
    BY <2>1, <2>2 DEF transition
<1>6. /\ \A kind : /\ counted(kind).pc = "write" /\ counted(kind).result = kind
                   /\ counted(kind).attempts = n
      /\ \A event : /\ moved(event).pc = "write" /\ moved(event).result = me.result
                    /\ moved(event).target = transition("RUNNING", event)
      /\ done.pc = "write" /\ done.result = me.result
  BY <1>1, SMT DEF RunnerState
<1>7. \/ me.result = "Cancelled" /\ Become(r, moved("CANCEL_REQUESTED"))
      \/ me.result = "Blocked" /\ Become(r, moved("BLOCKED_BY_PROTECTION"))
      \/ canRetry(me.result, n, MaxAttempts) /\ Become(r, counted("Retry"))
      \/ me.result = "Success" /\ Become(r, done)
      \/ Become(r, counted("Fatal"))
  BY <1>2, <1>3 DEF Latest
<1> HIDE DEF counted, moved, done, me, row, n
<1>8. CASE me.result = "Cancelled" /\ Become(r, moved("CANCEL_REQUESTED"))
  <2>1. Fits(moved("CANCEL_REQUESTED"), row)
    BY <1>2, <1>5, <1>6, <1>8 DEF Fits, Unclaimed, Undecided, Taken
  <2> QED
    BY <1>4, <1>8, <2>1 DEF row, me
<1>9. CASE me.result = "Blocked" /\ Become(r, moved("BLOCKED_BY_PROTECTION"))
  <2>1. Fits(moved("BLOCKED_BY_PROTECTION"), row)
    BY <1>2, <1>5, <1>6, <1>9 DEF Fits, Unclaimed, Undecided, Taken
  <2> QED
    BY <1>4, <1>9, <2>1 DEF row, me
<1>10. CASE canRetry(me.result, n, MaxAttempts) /\ Become(r, counted("Retry"))
  <2>1. n < MaxAttempts
    BY <1>10 DEF canRetry
  <2>2. Fits(counted("Retry"), row)
    BY <1>2, <1>6, <2>1 DEF Fits, Unclaimed, Undecided, Taken, n
  <2> QED
    BY <1>4, <1>10, <2>2 DEF row, me
<1>11. CASE me.result = "Success" /\ Become(r, done)
  <2>1. Fits(done, row)
    BY <1>2, <1>6, <1>11 DEF Fits, Unclaimed, Undecided, Taken
  <2> QED
    BY <1>4, <1>11, <2>1 DEF row, me
<1>12. CASE Become(r, counted("Fatal"))
  <2>1. Fits(counted("Fatal"), row)
    BY <1>2, <1>6 DEF Fits, Unclaimed, Undecided, Taken, n
  <2> QED
    BY <1>4, <1>12, <2>1 DEF row, me
<1> QED
  BY <1>7, <1>8, <1>9, <1>10, <1>11, <1>12

(* A coroutine that goes on still fits its row.                            *)
LEMMA RunFits ==
  ASSUME Alone, RunnersFit, NEW r \in Runners, Run(r), runner'[r].pc \in InRun
  PROVE  Fits(runner'[r], task'[runner'[r].task])
<1> DEFINE me == runner[r]
           t == me.task
<1>1. me \in RunnerState /\ runner \in [Runners -> RunnerState] /\ task \in TaskTable
  BY DEF Alone, TypeInv, TypeOK
<1>2. \A x : Become(r, x) => runner'[r] = x
  BY <1>1 DEF Become
<1>3. \A pc : Goto(r, pc) => runner'[r] = [me EXCEPT !.pc = pc]
  BY <1>2 DEF Goto
<1>4. \A pc : [me EXCEPT !.pc = pc].pc = pc /\ [me EXCEPT !.pc = pc].task = t
  BY <1>1 DEF RunnerState
<1>5. /\ ~Complete(r) /\ ~Rethrow(r) /\ ~Release(r)
      /\ me.pc \in InRun /\ runner'[r].task = t /\ t \in Tasks
  <2>1. \A pc : Goto(r, pc) => runner'[r].pc = pc
    BY <1>3, <1>4
  <2>2. Release(r) => runner'[r].pc = "idle"
    BY <1>2 DEF Release, Idle
  <2>3. /\ Complete(r) => runner'[r].pc \in {"release", "rethrow"}
        /\ Rethrow(r) => runner'[r].pc = "release"
    BY <2>1 DEF Complete, Rethrow
  <2>4. ~Complete(r) /\ ~Rethrow(r) /\ ~Release(r)
    BY <2>2, <2>3 DEF InRun
  <2>5. Advanced(me, runner'[r])
    BY <2>4, RunAdvances DEF Alone
  <2>6. me.pc \in InRun /\ runner'[r].task = t
    BY <2>5 DEF Advanced
  <2>7. t \in Tasks
    BY <2>6 DEF Alone, TypeInv, HasTask, InRun
  <2> QED
    BY <2>4, <2>6, <2>7
<1>6. Fits(me, task[t])
  BY <1>5 DEF RunnersFit
<1> DEFINE Goal == Fits(runner'[r], task'[t])
<1>7. ASSUME NEW pc, Goto(r, pc), UNCHANGED task,
             \/ pc \notin Undecided \cup {"blockBatch"}
             \/ me.pc \in Unclaimed /\ pc \in Unclaimed
             \/ me.pc \in Taken \ {"write"} /\ pc \in Taken \ {"write"}
      PROVE  Goal
  <2>1. Fits([me EXCEPT !.pc = pc], task[t])
    BY <1>1, <1>6, <1>7, FitsNext
  <2> QED
    BY <1>3, <1>7, <2>1
<1>8. ASSUME PreClaim(r) PROVE Goal
  <2>1. me.pc = "launched" /\ UNCHANGED task /\ (Goto(r, "complete") \/ Goto(r, "claimTask"))
    BY <1>8 DEF PreClaim, At, store
  <2> QED
    BY <1>7, <2>1 DEF Unclaimed, Undecided
<1>9. ASSUME ClaimBatch(r) \/ PreExec(r) PROVE Goal
  <2>1. /\ me.pc \in {"claimBatch", "limit"} /\ UNCHANGED task
        /\ \E pc \in {"limit", "complete", "handle"} : Goto(r, pc)
    BY <1>9 DEF ClaimBatch, PreExec, At, store
  <2> QED
    BY <1>7, <2>1 DEF Unclaimed, Undecided, Taken
<1>10. ASSUME ClaimTask(r) PROVE Goal
  <2>1. me.pc = "claimTask" /\ task[t].status = "PENDING" /\ me.attempts = task[t].attempts
    BY <1>6, <1>10 DEF ClaimTask, At, Fits, Unclaimed, Undecided
  <2>2. transition("PENDING", "CLAIMED") = "RUNNING"
    <3>1. \A to : <<"PENDING", "CLAIMED", to>> \in TransitionRows <=> to = "RUNNING"
      BY DEF TransitionRows
    <3>2. "RUNNING" \in JobStatus
      BY DEF JobStatus
    <3> QED
      BY <3>1, <3>2 DEF transition
  <2>3. task' = updateTaskStatus(task, t, "RUNNING")
    BY <1>10, <2>2 DEF ClaimTask
  <2>4. task'[t].status = "RUNNING" /\ task'[t].attempts = task[t].attempts
    BY <1>1, <1>5, <2>1, <2>3 DEF updateTaskStatus, Update, Absent, TaskTable, TaskRow
  <2>5. runner'[r] = [me EXCEPT !.pc = "claimBatch"]
    BY <1>3, <1>10 DEF ClaimTask
  <2>6. runner'[r].pc = "claimBatch" /\ runner'[r].attempts = me.attempts
    BY <1>1, <2>5 DEF RunnerState
  <2> HIDE DEF me, t
  <2> QED
    BY <2>1, <2>4, <2>6 DEF Fits, Unclaimed, Undecided, Taken
<1>11. ASSUME NEW result \in JobResult, Handle(r, result) PROVE Goal
  <2>1. me.pc = "handle" /\ task[t].status = "RUNNING" /\ me.attempts = task[t].attempts
        /\ UNCHANGED task
    BY <1>6, <1>11 DEF Handle, At, Fits, Taken, Unclaimed, Undecided, store
  <2> DEFINE failed == [me EXCEPT !.pc = "write", !.result = "Fatal",
                                  !.attempts = me.attempts + 1]
             answered == [me EXCEPT !.pc = "latest", !.result = result]
  <2>2. /\ failed.pc = "write" /\ failed.attempts = me.attempts + 1 /\ failed.result = "Fatal"
        /\ answered.pc = "latest" /\ answered.attempts = me.attempts
    BY <1>1, SMT DEF RunnerState
  <2>3. runner'[r] = failed \/ runner'[r] = answered
    <3>1. Become(r, failed) \/ Become(r, answered)
      BY <1>11 DEF Handle
    <3> HIDE DEF failed, answered
    <3> QED
      BY <1>2, <3>1
  <2> HIDE DEF failed, answered, me, t
  <2>4. Fits(failed, task[t]) /\ Fits(answered, task[t])
    BY <2>1, <2>2 DEF Fits, Unclaimed, Undecided, Taken
  <2> QED
    BY <2>1, <2>3, <2>4
<1>12. ASSUME Latest(r) PROVE Goal
  <2>1. Fits(runner'[r], task[t])
    BY <1>6, <1>12, LatestFits
  <2> QED
    BY <1>12, <2>1 DEF Latest, store
<1>13. ASSUME Write(r) PROVE Goal
  <2>1. me.pc = "write" /\ task[t].status = "RUNNING"
    BY <1>6, <1>13 DEF Write, At, Fits, Taken
  <2>2. CASE me.result = "Blocked"
    <3>1. task' = updateTaskStatus(task, t, me.target) /\ me.target = "BLOCKED"
          /\ Goto(r, "blockBatch")
      BY <1>6, <1>13, <2>1, <2>2 DEF Write, Fits
    <3>2. task'[t].status = "BLOCKED"
      BY <1>1, <1>5, <2>1, <3>1 DEF updateTaskStatus, Update, Absent, TaskTable, TaskRow
    <3>3. runner'[r].pc = "blockBatch" /\ runner'[r].target = "BLOCKED"
      <4>1. runner'[r] = [me EXCEPT !.pc = "blockBatch"]
        BY <1>3, <3>1
      <4> QED
        BY <1>1, <3>1, <4>1 DEF RunnerState
    <3> HIDE DEF me, t
    <3> QED
      BY <3>2, <3>3 DEF Fits, Unclaimed, Undecided, Taken
  <2>3. CASE me.result # "Blocked"
    <3>1. Goto(r, "syncTasks") \/ Goto(r, "complete")
      BY <1>13, <2>3 DEF Write
    <3>2. runner'[r].pc \in {"syncTasks", "complete"}
      BY <1>3, <1>4, <3>1
    <3>3. runner'[r].pc \notin Undecided \cup {"blockBatch"}
      BY <3>2 DEF Undecided, Unclaimed
    <3> QED
      BY <3>3, FitsLater
  <2> QED
    BY <2>2, <2>3
<1>14. ASSUME \/ BlockBatch(r) \/ BlockCrawler(r) \/ BlockEach(r)
              \/ SyncTasks(r) \/ SyncBatch(r) \/ SyncWrite(r)
              \/ Abort(r) \/ NeverStarted(r)
       PROVE  Goal
  <2>1. runner'[r].pc \notin Undecided \cup {"blockBatch"}
    <3> DEFINE at(pc) == [me EXCEPT !.pc = pc]
               blocking(S) == [me EXCEPT !.pc = "blockEach", !.todo = S]
               left(b) == [me EXCEPT !.todo = @ \ {b}]
               decided(s) == [me EXCEPT !.pc = "syncBatch", !.target = s]
    <3>1. /\ \A pc : at(pc).pc = pc
          /\ \A S : blocking(S).pc = "blockEach"
          /\ \A b : left(b).pc = me.pc
          /\ \A s : decided(s).pc = "syncBatch"
      BY <1>1, SMT DEF RunnerState
    <3>2. CASE BlockCrawler(r)
      <4>1. Become(r, at("complete")) \/ \E S : Become(r, blocking(S))
        BY <3>2 DEF BlockCrawler, Goto
      <4> HIDE DEF at, blocking
      <4>2. runner'[r].pc \in {"complete", "blockEach"}
        BY <1>2, <3>1, <4>1
      <4> QED
        BY <4>2 DEF Undecided, Unclaimed
    <3>3. CASE BlockEach(r)
      <4>1. me.pc = "blockEach" /\ (Become(r, at("complete")) \/ \E b : Become(r, left(b)))
        BY <3>3 DEF BlockEach, At, Goto
      <4> HIDE DEF at, left, me
      <4>2. runner'[r].pc \in {"complete", "blockEach"}
        BY <1>2, <3>1, <4>1
      <4> QED
        BY <4>2 DEF Undecided, Unclaimed
    <3>4. CASE SyncTasks(r)
      <4>1. Become(r, at("complete")) \/ \E s : Become(r, decided(s))
        BY <3>4 DEF SyncTasks
      <4> HIDE DEF at, decided
      <4>2. runner'[r].pc \in {"complete", "syncBatch"}
        BY <1>2, <3>1, <4>1
      <4> QED
        BY <4>2 DEF Undecided, Unclaimed
    <3>5. CASE BlockBatch(r) \/ SyncBatch(r) \/ SyncWrite(r) \/ Abort(r) \/ NeverStarted(r)
      <4>1. \E pc \in {"blockCrawler", "complete", "syncWrite", "abort", "leaked"} : Goto(r, pc)
        BY <3>5 DEF BlockBatch, SyncBatch, SyncWrite, Abort, NeverStarted
      <4>2. runner'[r].pc \in {"blockCrawler", "complete", "syncWrite", "abort", "leaked"}
        BY <1>3, <1>4, <4>1
      <4> QED
        BY <4>2 DEF Undecided, Unclaimed
    <3> QED
      BY <1>14, <3>2, <3>3, <3>4, <3>5
  <2> QED
    BY <2>1, FitsLater
<1>15. Goal
  <2> HIDE DEF Goal
  <2> QED
    BY <1>5, <1>8, <1>9, <1>10, <1>11, <1>12, <1>13, <1>14 DEF Run
<1> QED
  BY <1>5, <1>15

(* ... and so do the others.                                               *)
LEMMA RunnersFitStep ==
  ASSUME Alone, VerdictInv, [Next]_vars PROVE RunnersFit'
<1> SUFFICES ASSUME NEW r \in Runners, runner'[r].pc \in InRun
             PROVE  Fits(runner'[r], task'[runner'[r].task])
  BY DEF RunnersFit
<1>1. ASSUME NEW t \in Tasks, Launch(t, r)
      PROVE  Fits(runner'[r], task'[runner'[r].task])
  <2>1. /\ poll.pc = "launch" /\ activeJobs[t] = None /\ poll.queue[t] # NotQueued
        /\ UNCHANGED task
    BY <1>1 DEF Launch, Popped, store
  <2>2. task[t].status = "PENDING" /\ task[t].attempts = poll.queue[t]
    BY <2>1 DEF VerdictInv, QueueWaits
  <2>3. runner'[r].task = t /\ runner'[r].pc = "launched" /\ runner'[r].attempts = poll.queue[t]
    BY <1>1 DEF Launch, Idle, Alone, TypeInv, TypeOK
  <2> QED
    BY <2>1, <2>2, <2>3 DEF Fits, Unclaimed, Undecided, Taken
<1>2. ASSUME ~Run(r), runner'[r] = runner[r]
      PROVE  Fits(runner'[r], task'[runner'[r].task])
  <2> DEFINE t == runner[r].task
  <2>1. t \in Tasks /\ runner[r].pc \in InRun /\ Fits(runner[r], task[t])
    BY <1>2 DEF Alone, TypeInv, HasTask, VerdictInv, RunnersFit, InRun
  <2>2. ~Recovered(t)
    BY <2>1 DEF Recovered, RecoverWrite, Alone, RecoverInv, Abandoned, live
  <2>3. ASSUME NEW q \in Runners, Claimed(t, q) \/ Decided(t, q) PROVE FALSE
    <3>1. q = r
      BY <2>1, <2>3, OutcomeBy, WorkIsSingle DEF OneRunnerPerTask, Alone
    <3> QED
      BY <1>2, <2>3, <3>1 DEF Claimed, Decided, Run
  <2>4. task'[t].status = task[t].status /\ task'[t].attempts = task[t].attempts
    BY <2>1, <2>2, <2>3, RowMoves DEF VerdictInv
  <2> HIDE DEF t
  <2>5. Fits(runner[r], task'[t])
    BY <2>1, <2>4, FitsSame
  <2> QED
    BY <1>2, <2>5 DEF t
<1> QED
  BY <1>1, <1>2, RecordSteps, RunFits DEF VerdictInv

(* What is queued waits as it was read.                                    *)
LEMMA QueueWaitsStep ==
  ASSUME Alone, VerdictInv, [Next]_vars PROVE QueueWaits'
<1> SUFFICES ASSUME poll'.pc \in {"launch", "register"}, NEW t \in Tasks,
                    poll'.queue[t] # NotQueued
             PROVE  \/ task'[t].status = "PENDING" /\ task'[t].attempts = poll'.queue[t]
                    \/ activeJobs'[t] # None
                    \/ poll'.pc = "register" /\ poll'.task = t
  BY DEF QueueWaits
<1>1. CASE FetchRunnable
  <2>1. /\ t \in getRunnableTasks(task, batch) /\ UNCHANGED task
        /\ poll'.queue[t] = task[t].attempts
    BY <1>1 DEF FetchRunnable, Alone, TypeInv, TypeOK, PollState, store
  <2> QED
    BY <2>1 DEF getRunnableTasks
<1>2. CASE /\ poll.pc \in {"launch", "register"}
           /\ activeJobs[t] # None => activeJobs'[t] # None
           /\ poll'.queue[t] # NotQueued => poll'.queue[t] = poll.queue[t]
           /\ poll.pc = "register" /\ poll.task = t =>
                activeJobs'[t] # None \/ (poll'.pc = "register" /\ poll'.task = t)
  <2>1. CASE activeJobs[t] # None \/ (poll.pc = "register" /\ poll.task = t)
    BY <1>2, <2>1
  <2>2. CASE task[t].status = "PENDING" /\ task[t].attempts = poll.queue[t]
    <3>1. CASE \E r \in Runners : Claimed(t, r)
      BY <2>1, <3>1, OutcomeBy, AtWork DEF Alone
    <3>2. CASE task'[t].status = task[t].status /\ task'[t].attempts = task[t].attempts
      BY <1>2, <2>2, <3>2
    <3> QED
      BY <2>2, <3>1, <3>2, RowMoves DEF VerdictInv
  <2> QED
    BY <1>2, <2>1, <2>2 DEF VerdictInv, QueueWaits
<1> QED
  BY <1>1, <1>2, CycleSteps DEF Alone

(* A batch has no verdict while one of its tasks has none.                 *)
LEMMA OpenTask ==
  ASSUME BatchesFit, NEW b \in Batches, NEW t \in Rows(task, b), ~Completed(task[t].status)
  PROVE  ~Completed(batch[b])
BY DEF BatchesFit, Final

LEMMA RunningIsOpen ==
  ASSUME BatchesFit, NEW t \in Tasks, task[t].status \in {"RUNNING", "BLOCKED"}
  PROVE  ~Completed(batch[BatchOf[t]])
<1>1. BatchOf[t] \in Batches /\ t \in Rows(task, BatchOf[t])
  BY BatchOfAssumption DEF Rows, TasksOf, Absent
<1>2. ~Completed(task[t].status)
  BY DEF Completed
<1> QED
  BY <1>1, <1>2, OpenTask

(* What recovery is about to write over stays RUNNING.                     *)
LEMMA RecoveringStep ==
  ASSUME Alone, VerdictInv, [Next]_vars PROVE Recovering'
<1> SUFFICES ASSUME poll'.pc \in {"recover", "recoverWrite"} PROVE Recovering'
  BY DEF Recovering
<1>1. CASE Wake
  <2>1. /\ poll'.pc = "recover" /\ UNCHANGED task
        /\ \A t \in poll'.todo : task[t].status = "RUNNING"
    BY <1>1 DEF Wake, getRunningTasks, Alone, TypeInv, TypeOK, PollState, store
  <2> QED
    BY <2>1 DEF Recovering
<1>2. CASE /\ poll.pc \in {"recover", "recoverWrite"}
           /\ poll'.todo \subseteq poll.todo
           /\ poll'.pc = "recoverWrite" =>
                \/ \E t \in poll.todo \ poll'.todo :
                     poll'.task = t /\ poll'.target = recoveredStatus(BatchOf[t])
                \/ poll.pc = "recoverWrite" /\ UNCHANGED poll
  <2>1. poll.todo \subseteq Tasks /\ (poll.pc = "recoverWrite" => poll.task \in Tasks)
    BY DEF Alone, TypeInv, TypeOK, HasTask, PollState
  <2>2. ASSUME NEW t \in Tasks, ~live(t), task[t].status = "RUNNING", ~Recovered(t)
        PROVE  task'[t].status = "RUNNING"
    <3>1. ASSUME NEW r \in Runners, Claimed(t, r) \/ Decided(t, r) PROVE FALSE
      BY <2>2, <3>1, OutcomeBy DEF live
    <3> QED
      BY <2>2, <3>1, RowMoves DEF VerdictInv
  <2>3. ASSUME NEW t \in poll.todo PROVE task'[t].status = "RUNNING"
    <3>1. t \in Tasks /\ ~live(t) /\ task[t].status = "RUNNING"
      BY <1>2, <2>1 DEF Alone, RecoverInv, Abandoned, VerdictInv, Recovering
    <3>2. ~Recovered(t)
      BY DEF Recovered, RecoverWrite, VerdictInv, Recovering
    <3> QED
      BY <2>2, <3>1, <3>2
  <2>4. ASSUME poll'.pc = "recoverWrite", poll.pc = "recoverWrite", UNCHANGED poll
        PROVE  /\ task'[poll'.task].status = "RUNNING" /\ poll'.task \notin poll'.todo
               /\ poll'.target \in {"PENDING", "BLOCKED"}
    <3>0a. PICK t \in Tasks : t = poll.task
      BY <2>1, <2>4
    <3>1. ~live(t) /\ task[t].status = "RUNNING"
      BY <2>4, <3>0a DEF Alone, RecoverInv, Abandoned, live, VerdictInv, Recovering
    <3>2. ~Recovered(t)
      BY <2>4 DEF Recovered, RecoverWrite, Alone, TypeInv, TypeOK, PollState
    <3>3. task'[t].status = "RUNNING"
      BY <2>2, <3>1, <3>2
    <3> QED
      BY <2>4, <3>0a, <3>3 DEF VerdictInv, Recovering
  <2>5. ASSUME poll'.pc = "recoverWrite", NEW t \in poll.todo \ poll'.todo,
               poll'.task = t, poll'.target = recoveredStatus(BatchOf[t])
        PROVE  /\ task'[poll'.task].status = "RUNNING" /\ poll'.task \notin poll'.todo
               /\ poll'.target \in {"PENDING", "BLOCKED"}
    <3>1. t \in Tasks /\ task[t].status = "RUNNING" /\ BatchOf[t] \in Batches
      BY <1>2, <2>1, BatchOfAssumption DEF VerdictInv, Recovering
    <3>2. batch[BatchOf[t]] \notin {"CANCELLED", "PAUSED"}
      BY <3>1, RunningIsOpen DEF Alone, VerdictInv, BatchesFit, Completed
    <3>3. recoveredStatus(BatchOf[t]) \in {"PENDING", "BLOCKED"}
      BY <3>2 DEF recoveredStatus
    <3> QED
      BY <2>3, <2>5, <3>3
  <2>6. poll'.pc = "recoverWrite" =>
          /\ task'[poll'.task].status = "RUNNING" /\ poll'.task \notin poll'.todo
          /\ poll'.target \in {"PENDING", "BLOCKED"}
    BY <1>2, <2>4, <2>5
  <2> QED
    BY <1>2, <2>3, <2>6 DEF Recovering
<1> QED
  BY <1>1, <1>2, RecoverySteps DEF Alone

(* Who gets to the end of syncBatchCompletion, or to the list of batches   *)
(* that blockCrawler goes through.                                         *)
LEMMA RunTo ==
  ASSUME Alone, NEW r \in Runners, Run(r), runner'[r].pc \in Syncs \cup {"blockEach"}
  PROVE  \/ SyncTasks(r) \/ SyncBatch(r)
         \/ BlockCrawler(r) /\ runner'[r].pc = "blockEach"
         \/ BlockEach(r) /\ runner'[r].pc = "blockEach"
<1> DEFINE me == runner[r]
           at(pc) == [me EXCEPT !.pc = pc]
           blocking(S) == [me EXCEPT !.pc = "blockEach", !.todo = S]
           left(b) == [me EXCEPT !.todo = @ \ {b}]
           answered(s) == [me EXCEPT !.pc = "latest", !.result = s]
           counted(s, n) == [me EXCEPT !.pc = "write", !.result = s, !.attempts = n]
           moved(s) == [me EXCEPT !.pc = "write", !.target = s]
<1>1. me \in RunnerState /\ runner \in [Runners -> RunnerState]
  BY DEF Alone, TypeInv, TypeOK
<1>2. \A x : Become(r, x) => runner'[r] = x
  BY <1>1 DEF Become
<1>3. /\ \A pc : at(pc).pc = pc
      /\ \A S : blocking(S).pc = "blockEach"
      /\ \A b : left(b).pc = me.pc
      /\ \A s : answered(s).pc = "latest"
      /\ \A s, n : counted(s, n).pc = "write"
      /\ \A s : moved(s).pc = "write"
      /\ Idle.pc = "idle"
  BY <1>1, SMT DEF RunnerState, Idle
<1>4. \A pc : Goto(r, pc) => runner'[r].pc = pc
  BY <1>2, <1>3 DEF Goto
<1>5. ASSUME \/ PreClaim(r) \/ ClaimTask(r) \/ ClaimBatch(r) \/ PreExec(r) \/ Write(r)
             \/ BlockBatch(r) \/ SyncWrite(r) \/ Abort(r) \/ NeverStarted(r)
             \/ Complete(r) \/ Rethrow(r)
      PROVE  FALSE
  <2>1. \E pc : Goto(r, pc) /\ pc \notin Syncs \cup {"blockEach"}
    BY <1>5 DEF PreClaim, ClaimTask, ClaimBatch, PreExec, Write, BlockBatch, SyncWrite,
                Abort, NeverStarted, Complete, Rethrow, Syncs
  <2> QED
    BY <1>4, <2>1
<1>6. ASSUME BlockCrawler(r) PROVE runner'[r].pc = "blockEach"
  <2>1. Become(r, at("complete")) \/ \E S : Become(r, blocking(S))
    BY <1>6 DEF BlockCrawler, Goto
  <2> HIDE DEF at, blocking
  <2> QED
    BY <1>2, <1>3, <2>1 DEF Syncs
<1>7. ASSUME BlockEach(r) PROVE runner'[r].pc = "blockEach"
  <2>1. me.pc = "blockEach" /\ (Become(r, at("complete")) \/ \E b : Become(r, left(b)))
    BY <1>7 DEF BlockEach, At, Goto
  <2> HIDE DEF at, left, me
  <2> QED
    BY <1>2, <1>3, <2>1 DEF Syncs
<1>8. ASSUME NEW result \in JobResult, Handle(r, result) PROVE FALSE
  <2>1. Become(r, counted("Fatal", me.attempts + 1)) \/ Become(r, answered(result))
    BY <1>8 DEF Handle
  <2> HIDE DEF counted, answered
  <2> QED
    BY <1>2, <1>3, <2>1 DEF Syncs
<1>9. ASSUME Latest(r) PROVE FALSE
  <2>1. \/ \E s, n : Become(r, counted(s, n))
        \/ \E s : Become(r, moved(s))
        \/ Become(r, at("complete")) \/ Become(r, at("write"))
    BY <1>9 DEF Latest
  <2> HIDE DEF counted, moved, at
  <2> QED
    BY <1>2, <1>3, <2>1 DEF Syncs
<1>10. ASSUME Release(r) PROVE FALSE
  BY <1>2, <1>3, <1>10 DEF Release, Syncs
<1> QED
  BY <1>5, <1>6, <1>7, <1>8, <1>9, <1>10 DEF Run

(* A verdict about to be written was computed from the rows.               *)
LEMMA SyncsFitStep ==
  ASSUME Alone, VerdictInv, [Next]_vars PROVE SyncsFit'
<1> SUFFICES ASSUME NEW r \in Runners, runner'[r].pc \in Syncs
             PROVE  runner'[r].target = "RUNNING"
                    \/ Final(task', BatchOf[runner'[r].task], runner'[r].target)
  BY DEF SyncsFit, batchOf
<1> DEFINE me == runner[r]
<1>1. me \in RunnerState /\ runner \in [Runners -> RunnerState] /\ runner'[r].pc \in InRun
  BY DEF Alone, TypeInv, TypeOK, Syncs, InRun
<1>2. \A x : Become(r, x) => runner'[r] = x
  BY <1>1 DEF Become
<1>3. ASSUME me.pc \in InRun, me.target = "RUNNING" \/ Final(task, batchOf(r), me.target),
             runner'[r].target = me.target, runner'[r].task = me.task
      PROVE  runner'[r].target = "RUNNING"
             \/ Final(task', BatchOf[runner'[r].task], runner'[r].target)
  <2>1. batchOf(r) \in Batches
    BY <1>3, BatchOfAssumption DEF batchOf, Alone, TypeInv, HasTask, InRun
  <2> QED
    BY <1>3, <2>1, FinalStays DEF VerdictInv, batchOf
<1>4. ASSUME NEW t \in Tasks, Launch(t, r) PROVE FALSE
  <2>1. runner'[r].pc = "launched"
    BY <1>1, <1>4 DEF Launch, Idle
  <2> QED
    BY <2>1 DEF Syncs
<1>5. CASE runner'[r] = runner[r]
  BY <1>1, <1>3, <1>5 DEF VerdictInv, SyncsFit
<1>6. CASE SyncTasks(r)
  <2> DEFINE rows == Rows(task, batchOf(r))
             statuses == {task[t].status : t \in rows}
             decided(s) == [me EXCEPT !.pc = "syncBatch", !.target = s]
             done == [me EXCEPT !.pc = "complete"]
  <2>1. /\ done.pc = "complete"
        /\ \A s : decided(s).target = s /\ decided(s).task = me.task
    BY <1>1, SMT DEF RunnerState
  <2>2. \/ Become(r, done) \/ Become(r, decided("RUNNING"))
        \/ /\ rows # {} /\ \A s \in statuses : Completed(s)
           /\ Become(r, decided(finalStatus(statuses)))
    BY <1>6 DEF SyncTasks
  <2>3. UNCHANGED task
    BY <1>6 DEF SyncTasks, store
  <2> HIDE DEF decided, done
  <2>4. ~Become(r, done)
    BY <1>2, <2>1 DEF Syncs
  <2>5. ASSUME rows # {}, \A s \in statuses : Completed(s),
               Become(r, decided(finalStatus(statuses)))
        PROVE  Final(task', BatchOf[runner'[r].task], runner'[r].target)
    <3>1. /\ runner'[r].target = finalStatus(statuses)
          /\ runner'[r].task = me.task
      BY <1>2, <2>1, <2>5
    <3>2. Final(task, batchOf(r), finalStatus(statuses))
      BY <2>5 DEF Final
    <3> HIDE DEF statuses
    <3> QED
      BY <2>3, <3>1, <3>2 DEF batchOf
  <2>6. Become(r, decided("RUNNING")) => runner'[r].target = "RUNNING"
    BY <1>2, <2>1
  <2> HIDE DEF rows, statuses
  <2> QED
    BY <2>2, <2>4, <2>5, <2>6
<1>7. CASE SyncBatch(r)
  <2>1. me.pc = "syncBatch" /\ \E pc : Goto(r, pc)
    BY <1>7 DEF SyncBatch, At
  <2>2. runner'[r].target = me.target /\ runner'[r].task = me.task
    BY <1>1, <1>2, <2>1 DEF Goto, RunnerState
  <2> QED
    BY <1>3, <2>1, <2>2 DEF VerdictInv, SyncsFit, Syncs, InRun
<1>8. ASSUME Run(r), ~SyncTasks(r), ~SyncBatch(r) PROVE FALSE
  BY <1>8, RunTo DEF Syncs
<1> QED
  BY <1>1, <1>4, <1>5, <1>6, <1>7, <1>8, RecordSteps

(* Who writes the status of a batch, and what.                             *)
LEMMA BatchSteps ==
  ASSUME Alone, RunnersFit, [Next]_vars, NEW b \in Batches
  PROVE  \/ batch'[b] = batch[b]
         \/ \E r \in Runners :
              \/ ClaimBatch(r) /\ batchOf(r) = b /\ batch'[b] = "RUNNING"
              \/ BlockBatch(r) /\ batchOf(r) = b /\ batch'[b] = "BLOCKED"
              \/ BlockEach(r) /\ b \in runner[r].todo /\ batch'[b] = "BLOCKED"
              \/ SyncWrite(r) /\ batchOf(r) = b /\ batch'[b] = runner[r].target
<1> DEFINE Goal == \/ batch'[b] = batch[b]
                   \/ \E r \in Runners :
                        \/ ClaimBatch(r) /\ batchOf(r) = b /\ batch'[b] = "RUNNING"
                        \/ BlockBatch(r) /\ batchOf(r) = b /\ batch'[b] = "BLOCKED"
                        \/ BlockEach(r) /\ b \in runner[r].todo /\ batch'[b] = "BLOCKED"
                        \/ SyncWrite(r) /\ batchOf(r) = b /\ batch'[b] = runner[r].target
<1>1. \A c, s : \/ updateBatchStatus(batch, c, s)[b] = batch[b]
                \/ c = b /\ updateBatchStatus(batch, c, s)[b] = s
  BY DEF updateBatchStatus, Alone, TypeInv, TypeOK, BatchTable
<1>2. UNCHANGED batch => Goal
  OBVIOUS
<1>3. ASSUME NEW r \in Runners, Run(r) PROVE Goal
  <2>1. CASE ClaimBatch(r)
    BY <1>1, <2>1 DEF ClaimBatch
  <2>2. CASE BlockBatch(r)
    <3>1. runner[r].target = "BLOCKED"
      BY <2>2 DEF BlockBatch, At, RunnersFit, Fits, InRun
    <3> QED
      BY <1>1, <2>2, <3>1 DEF BlockBatch
  <2>3. CASE BlockEach(r)
    <3>1. \/ UNCHANGED batch
          \/ \E c \in runner[r].todo : batch' = updateBatchStatus(batch, c, "BLOCKED")
      BY <2>3 DEF BlockEach
    <3>2. batch'[b] = batch[b] \/ (b \in runner[r].todo /\ batch'[b] = "BLOCKED")
      BY <1>1, <3>1
    <3> QED
      BY <2>3, <3>2
  <2>4. CASE SyncWrite(r)
    BY <1>1, <2>4 DEF SyncWrite
  <2>5. CASE ~ClaimBatch(r) /\ ~BlockBatch(r) /\ ~BlockEach(r) /\ ~SyncWrite(r)
    <3>1. UNCHANGED batch
      BY <1>3, <2>5 DEF Run, PreClaim, ClaimTask, PreExec, Handle, Latest, Write, BlockCrawler,
         SyncTasks, SyncBatch, Abort, NeverStarted, Complete, Rethrow, Release, store
    <3> QED
      BY <1>2, <3>1
  <2> QED
    BY <2>1, <2>2, <2>3, <2>4, <2>5
<1>4. ASSUME \/ Poll \/ \E t \in Tasks : BackoffElapses(t) \/ LeaseExpires(t)
             \/ ServiceDestroy \/ Crash \/ AppStart \/ UNCHANGED vars
      PROVE  Goal
  <2>1. UNCHANGED batch
    BY <1>4 DEF Poll, Wake, RecoverWrite, SyncBlocked, FetchRunnable, CheckEmpty,
       Register, EndOfCycle, RecoverAbandoned, SkipActive, PoolFull, Saturate, Launch,
       BackoffElapses, LeaseExpires, ServiceDestroy, Crash, AppStart, store, vars
  <2> QED
    BY <1>2, <2>1
<1>5. ~\E c \in Clients : Request(c) \/ Step(c)
  BY QuietStep DEF Alone
<1>6. Goal
  <2>1. ASSUME Next PROVE Goal
    <3>1. (\E r \in Runners : Run(r)) => Goal
      BY <1>3
    <3> HIDE DEF Goal
    <3> QED
      BY <1>4, <1>5, <2>1, <3>1 DEF Next
  <2> QED
    BY <1>4, <2>1
<1> QED
  BY <1>6

(* A verdict that is shown is the one that follows from the rows.          *)
LEMMA BatchesFitStep ==
  ASSUME Alone, VerdictInv, [Next]_vars PROVE BatchesFit'
<1> SUFFICES ASSUME NEW b \in Batches
             PROVE  /\ Completed(batch'[b]) => Final(task', b, batch'[b])
                    /\ batch'[b] # "PAUSED"
  BY DEF BatchesFit
<1>1. CASE batch'[b] = batch[b]
  BY <1>1, FinalStays DEF VerdictInv, BatchesFit
<1>2. CASE batch'[b] \in {"RUNNING", "BLOCKED"}
  BY <1>2 DEF Completed
<1>3. ASSUME NEW r \in Runners, SyncWrite(r), batchOf(r) = b, batch'[b] = runner[r].target,
             runner[r].target # "RUNNING"
      PROVE  Final(task', b, batch'[b]) /\ batch'[b] # "PAUSED"
  <2>1. runner[r].pc = "syncWrite" /\ UNCHANGED task
    BY <1>3 DEF SyncWrite, At
  <2>2. Final(task, b, batch'[b])
    BY <1>3, <2>1 DEF VerdictInv, SyncsFit, Syncs
  <2>3. \A S : finalStatus(S) # "PAUSED"
    BY DEF finalStatus
  <2> QED
    BY <2>1, <2>2, <2>3 DEF Final
<1> QED
  BY <1>1, <1>2, <1>3, BatchSteps DEF VerdictInv

LEMMA VerdictInitial == Init => VerdictInv
<1> SUFFICES ASSUME Init PROVE VerdictInv
  OBVIOUS
<1>1. poll.pc = "wait" /\ \A r \in Runners : runner[r].pc = "idle"
  BY DEF Init, Waiting, Idle
<1>2. \A b \in Batches : batch[b] \in {"PENDING", Absent}
  BY DEF Init
<1>3. RunnersFit /\ QueueWaits /\ Recovering /\ SyncsFit
  BY <1>1 DEF RunnersFit, QueueWaits, Recovering, SyncsFit, InRun, Syncs
<1>4. BatchesFit
  BY <1>2 DEF BatchesFit, Completed, Absent
<1> QED
  BY <1>3, <1>4 DEF VerdictInv

(* Both invariants, of the scheduler on its own.                           *)
LEMMA VerdictInvariant ==
  Requests = {} /\ ~Overtaking /\ ~SlowHandlers => (Spec => [](Alone /\ VerdictInv))
<1> SUFFICES ASSUME Requests = {}, ~Overtaking, ~SlowHandlers
             PROVE  Spec => [](Alone /\ VerdictInv)
  OBVIOUS
<1>1. Init => RecoverInv /\ Quiet
  <2> SUFFICES ASSUME Init PROVE RecoverInv /\ Quiet
    OBVIOUS
  <2>1. poll.pc = "wait" /\ \A t \in Tasks : task[t].age = "fresh"
    BY DEF Init, Waiting, NewRow, NoRow
  <2>2. Quiet
    BY DEF Init, Quiet
  <2> QED
    BY <2>1, <2>2 DEF RecoverInv
<1>2. TypeInv /\ WorkInv /\ TaskInv /\ RecoverInv /\ [Next]_vars => RecoverInv'
  BY RecoverStep
<1>3. Quiet /\ [Next]_vars => Quiet'
  BY QuietStep
<1>4. TypeInv /\ WorkInv /\ TaskInv /\ RecoverInv /\ Quiet /\ VerdictInv /\ [Next]_vars
        => VerdictInv'
  BY RunnersFitStep, QueueWaitsStep, RecoveringStep, SyncsFitStep, BatchesFitStep
     DEF VerdictInv, Alone
<1>5. TypeInv /\ WorkInv /\ TaskInv /\ RecoverInv /\ Quiet => Alone
  BY DEF Alone
<1> QED
  BY <1>1, <1>2, <1>3, <1>4, <1>5, VerdictInitial, TypeInvariant, WorkInvariant,
     TaskInvariant, PTL DEF Spec

(* A batch that shows a verdict shows the one that follows from its tasks, *)
(* which have their own: syncBatchCompletion (JobRunner.kt) reads the rows *)
(* and writes later, but a row that has its verdict is left alone, by the  *)
(* coroutines, by recovery and over a crash, as long as no request comes   *)
(* between.                                                                *)
THEOREM VerdictsMatch ==
  Requests = {} /\ ~Overtaking /\ ~SlowHandlers => (Spec => []VerdictMatchesTasks)
<1> SUFFICES ASSUME Requests = {}, ~Overtaking, ~SlowHandlers
             PROVE  Spec => []VerdictMatchesTasks
  OBVIOUS
<1>1. ASSUME VerdictInv PROVE VerdictMatchesTasks
  <2> SUFFICES ASSUME NEW b \in Batches, batch[b] \in Verdicts,
                      NEW statuses, statuses = {task[t].status : t \in Rows(task, b)}
               PROVE  /\ statuses \subseteq Verdicts
                      /\ batch[b] = "FAILED" <=> "FAILED" \in statuses
                      /\ batch[b] = "SUCCESS" => "SUCCESS" \in statuses
    BY Zenon DEF VerdictMatchesTasks
  <2>1. Final(task, b, batch[b])
    BY <1>1 DEF VerdictInv, BatchesFit, Completed, Verdicts
  <2>2. /\ statuses # {} /\ statuses \subseteq Verdicts
        /\ batch[b] = finalStatus(statuses)
    BY <2>1 DEF Final, Completed, Verdicts
  <2>3. /\ batch[b] = "FAILED" <=> "FAILED" \in statuses
        /\ batch[b] = "SUCCESS" => "SUCCESS" \in statuses
    BY <2>2 DEF finalStatus, Verdicts
  <2> QED
    BY <2>2, <2>3
<1> QED
  BY <1>1, VerdictInvariant, PTL

-----------------------------------------------------------------------------
(***************************************************************************)
(* The two worker pools: every slot is accounted for, and the number of    *)
(* downloads that run at once respects the limits.                         *)
(*                                                                         *)
(* PoolAccounting is inductive once the types are known: a launch adds one *)
(* coroutine to the holders of the global pool and of its source's, a      *)
(* release removes one, and every other step leaves the holders and their  *)
(* tasks as they are (SameSlots).  The bound then follows from what        *)
(* tryAcquire compares the counters with.                                  *)
(***************************************************************************)

SlotInv == PoolAccounting /\ ConcurrencyBound

(* No coroutine takes or leaves a slot.                                    *)
SameSlots ==
  /\ UNCHANGED pools
  /\ \A r \in Runners :
       /\ runner'[r].pc = "idle" <=> runner[r].pc = "idle"
       /\ runner[r].pc # "idle" => runner'[r].task = runner[r].task

(* The holders of a slot are finitely many.                                *)
LEMMA HoldersFinite ==
  /\ IsFiniteSet(Holders) /\ Cardinality(Holders) \in Nat
  /\ IsFiniteSet(Background(Holders)) /\ Cardinality(Background(Holders)) \in Nat
  /\ Cardinality(Background(Holders)) <= Cardinality(Holders)
  /\ \A c : /\ IsFiniteSet(HoldersOf(c)) /\ Cardinality(HoldersOf(c)) \in Nat
            /\ IsFiniteSet(Background(HoldersOf(c)))
            /\ Cardinality(Background(HoldersOf(c))) \in Nat
            /\ Cardinality(Background(HoldersOf(c))) <= Cardinality(HoldersOf(c))
<1>1. IsFiniteSet(Runners)
  BY RunnersAssumption
<1>2. ASSUME NEW S \in SUBSET Runners
      PROVE  /\ IsFiniteSet(S) /\ Cardinality(S) \in Nat
             /\ IsFiniteSet(Background(S)) /\ Cardinality(Background(S)) \in Nat
             /\ Cardinality(Background(S)) <= Cardinality(S)
  <2>1. IsFiniteSet(S) /\ Cardinality(S) \in Nat
    BY <1>1, FS_Subset, FS_CardinalityType
  <2>2. Background(S) \in SUBSET S
    BY DEF Background
  <2> QED
    BY <2>1, <2>2, FS_Subset, FS_CardinalityType
<1>3. Holders \in SUBSET Runners /\ \A c : HoldersOf(c) \in SUBSET Runners
  BY DEF Holders, HoldersOf
<1> QED
  BY <1>2, <1>3

(* A step of which no slot is part changes neither counters nor holders.   *)
LEMMA SameSlotsKeep == SlotInv /\ SameSlots => SlotInv'
<1> SUFFICES ASSUME SlotInv, SameSlots PROVE SlotInv'
  OBVIOUS
<1>1. Holders' = Holders
  BY DEF SameSlots, Holders
<1>2. \A c : HoldersOf(c)' = HoldersOf(c)
  BY <1>1 DEF SameSlots, HoldersOf, Holders
<1>3. Background(Holders)' = Background(Holders)
  BY <1>1 DEF SameSlots, Background, Holders
<1>4. ASSUME NEW c PROVE Background(HoldersOf(c))' = Background(HoldersOf(c))
  <2>1. HoldersOf(c)' = HoldersOf(c) /\ HoldersOf(c) \subseteq Holders
    BY <1>2 DEF HoldersOf
  <2> QED
    BY <2>1 DEF SameSlots, Background, Holders
<1> QED
  BY <1>1, <1>2, <1>3, <1>4
     DEF SlotInv, PoolAccounting, ConcurrencyBound, SameSlots, pools

(* A coroutine that goes on with its task keeps its slots.                 *)
LEMMA GoingOn ==
  ASSUME TypeInv, NEW r \in Runners, NEW next, Become(r, next),
         runner[r].pc # "idle", next.pc # "idle", next.task = runner[r].task,
         UNCHANGED pools
  PROVE  SameSlots
BY DEF TypeInv, TypeOK, Become, SameSlots

(* ... and so does one that only goes on to another program counter.       *)
LEMMA GoingTo ==
  ASSUME TypeInv, NEW r \in Runners, NEW pc, Goto(r, pc), pc # "idle",
         runner[r].pc # "idle", UNCHANGED pools
  PROVE  SameSlots
<1>1. /\ [runner[r] EXCEPT !.pc = pc].pc = pc
      /\ [runner[r] EXCEPT !.pc = pc].task = runner[r].task
  BY DEF TypeInv, TypeOK, RunnerState
<1> QED
  BY <1>1, GoingOn DEF Goto

(* Only Release ends a coroutine.                                          *)
LEMMA RunKeepsSlots ==
  ASSUME TypeInv, NEW r \in Runners, Run(r), ~Release(r)
  PROVE  SameSlots
<1> DEFINE me == runner[r]
           goesOn(x) == x.pc # "idle" /\ x.task = me.task
<1>1. me.pc # "idle" /\ me \in RunnerState
  BY DEF Run, PreClaim, ClaimTask, ClaimBatch, PreExec, Handle, Latest, Write,
         BlockBatch, BlockCrawler, BlockEach, SyncTasks, SyncBatch, SyncWrite,
         Abort, NeverStarted, Complete, Rethrow, At, Suspending,
         InRun, TypeInv, TypeOK
<1>2. UNCHANGED pools
  BY DEF Run, PreClaim, ClaimTask, ClaimBatch, PreExec, Handle, Latest, Write,
         BlockBatch, BlockCrawler, BlockEach, SyncTasks, SyncBatch, SyncWrite,
         Abort, NeverStarted, Complete, Rethrow, runnerVars, pools
<1>3. ASSUME NEW x, goesOn(x), Become(r, x) PROVE SameSlots
  BY <1>1, <1>2, <1>3, GoingOn
<1>4. CASE \E pc : pc # "idle" /\ Goto(r, pc)
  BY <1>1, <1>2, <1>4, GoingTo
<1>5. CASE \/ PreClaim(r) \/ ClaimTask(r) \/ ClaimBatch(r) \/ PreExec(r)
           \/ Write(r) \/ BlockBatch(r) \/ SyncBatch(r) \/ SyncWrite(r)
           \/ Abort(r) \/ NeverStarted(r) \/ Complete(r) \/ Rethrow(r)
  <2>1. \E pc : pc # "idle" /\ Goto(r, pc)
    BY <1>5 DEF PreClaim, ClaimTask, ClaimBatch, PreExec, Write, BlockBatch,
                SyncBatch, SyncWrite, Abort, NeverStarted, Complete, Rethrow
  <2> QED
    BY <1>4, <2>1
<1>6. ASSUME NEW result \in JobResult, Handle(r, result) PROVE SameSlots
  <2> DEFINE failed == [me EXCEPT !.pc = "write", !.result = "Fatal",
                                  !.attempts = me.attempts + 1]
             answered == [me EXCEPT !.pc = "latest", !.result = result]
  <2>1. goesOn(failed) /\ goesOn(answered)
    BY <1>1, SMT DEF RunnerState
  <2>2. Become(r, failed) \/ Become(r, answered)
    BY <1>6 DEF Handle
  <2> HIDE DEF failed, answered, goesOn
  <2> QED
    BY <1>3, <2>1, <2>2
<1>7. CASE Latest(r)
  <2> DEFINE counted(kind, n) == [me EXCEPT !.pc = "write", !.result = kind,
                                            !.attempts = n]
             moved(status) == [me EXCEPT !.pc = "write", !.target = status]
             at(pc) == [me EXCEPT !.pc = pc]
  <2>1. /\ \A kind, n : goesOn(counted(kind, n))
        /\ \A status : goesOn(moved(status))
        /\ goesOn(at("complete")) /\ goesOn(at("write"))
    BY <1>1, SMT DEF RunnerState
  <2>2. \/ \E kind, n : Become(r, counted(kind, n))
        \/ \E status : Become(r, moved(status))
        \/ Become(r, at("complete")) \/ Become(r, at("write"))
    BY <1>7 DEF Latest
  <2> HIDE DEF counted, moved, at, goesOn
  <2> QED
    BY <1>3, <2>1, <2>2
<1>8. CASE BlockCrawler(r)
  <2> DEFINE next(S) == [me EXCEPT !.pc = "blockEach", !.todo = S]
  <2>1. \A S : goesOn(next(S))
    BY <1>1, SMT DEF RunnerState
  <2>2. Goto(r, "complete") \/ \E S : Become(r, next(S))
    BY <1>8 DEF BlockCrawler
  <2> HIDE DEF next, goesOn
  <2> QED
    BY <1>3, <1>4, <2>1, <2>2
<1>9. CASE BlockEach(r)
  <2> DEFINE next(b) == [me EXCEPT !.todo = @ \ {b}]
  <2>1. \A b : goesOn(next(b))
    BY <1>1, SMT DEF RunnerState
  <2>2. Goto(r, "complete") \/ \E b : Become(r, next(b))
    BY <1>9 DEF BlockEach
  <2> HIDE DEF next, goesOn
  <2> QED
    BY <1>3, <1>4, <2>1, <2>2
<1>10. CASE SyncTasks(r)
  <2> DEFINE decided(status) == [me EXCEPT !.pc = "syncBatch", !.target = status]
             ended == [me EXCEPT !.pc = "complete"]
  <2>1. goesOn(ended) /\ \A status : goesOn(decided(status))
    BY <1>1, SMT DEF RunnerState
  <2>2. Become(r, ended) \/ \E status : Become(r, decided(status))
    BY <1>10 DEF SyncTasks
  <2> HIDE DEF decided, ended, goesOn
  <2> QED
    BY <1>3, <2>1, <2>2
<1> QED
  BY <1>5, <1>6, <1>7, <1>8, <1>9, <1>10 DEF Run

(* The polling loop, the clients and the clock take no slot but by Launch. *)
LEMMA OthersKeepSlots ==
  ASSUME TypeInv,
         \/ Poll /\ ~\E t \in Tasks, r \in Runners : Launch(t, r)
         \/ \E c \in Clients : Request(c) \/ Step(c)
         \/ \E t \in Tasks : BackoffElapses(t) \/ LeaseExpires(t)
         \/ AppStart
         \/ UNCHANGED vars
  PROVE  SameSlots
<1>1. CASE UNCHANGED <<pools, runner>>
  BY <1>1 DEF SameSlots
<1>2. CASE Poll /\ ~\E t \in Tasks, r \in Runners : Launch(t, r)
  <2>1. UNCHANGED <<pools, runner>>
    BY <1>2 DEF Poll, Wake, RecoverWrite, SyncBlocked, FetchRunnable, CheckEmpty,
                Register, EndOfCycle, RecoverAbandoned, SkipActive, PoolFull,
                Saturate, pollVars, pools
  <2> QED
    BY <1>1, <2>1
<1>3. ASSUME NEW c \in Clients, NEW s, CancelJobs(c, s) PROVE SameSlots
  <2>1. \A r \in Runners : runner[r] \in RunnerState
    BY DEF TypeInv, TypeOK
  <2>2. \A x \in RunnerState :
          /\ [x EXCEPT !.cancelled = TRUE].pc = x.pc
          /\ [x EXCEPT !.cancelled = TRUE].task = x.task
    BY DEF RunnerState
  <2> QED
    BY <1>3, <2>1, <2>2 DEF CancelJobs, SameSlots, pools
<1>4. ASSUME NEW c \in Clients, Request(c) \/ Step(c) PROVE SameSlots
  <2>1. \/ UNCHANGED <<pools, runner>>
        \/ CancelJobs(c, Head(script[c]))
    BY <1>4 DEF Request, Step, SetBatch, SetTasks, InsertBatch, ResumeBlocked,
                Unblock, ResumeJob, Start, pollVars, pools
  <2> QED
    BY <1>1, <1>3, <2>1
<1>5. CASE (\E t \in Tasks : BackoffElapses(t) \/ LeaseExpires(t)) \/ AppStart
           \/ UNCHANGED vars
  <2>1. UNCHANGED <<pools, runner>>
    BY <1>5 DEF BackoffElapses, LeaseExpires, AppStart, pollVars, pools, vars
  <2> QED
    BY <1>1, <2>1
<1> QED
  BY <1>2, <1>4, <1>5

(* The holders of the slots a launch takes.                                *)
LEMMA LaunchHolders ==
  ASSUME TypeInv, NEW t \in Tasks, NEW r \in Runners, Launch(t, r)
  PROVE  /\ r \notin Holders
         /\ Holders' = Holders \cup {r}
         /\ Background(Holders)' = IF t \in HighPriority THEN Background(Holders)
                                   ELSE Background(Holders) \cup {r}
         /\ \A c : HoldersOf(c)' = IF c = crawlerName(t) THEN HoldersOf(c) \cup {r}
                                   ELSE HoldersOf(c)
         /\ \A c : Background(HoldersOf(c))' =
                     IF c = crawlerName(t) /\ t \notin HighPriority
                     THEN Background(HoldersOf(c)) \cup {r}
                     ELSE Background(HoldersOf(c))
<1>1. /\ runner[r].pc = "idle"
      /\ runner'[r].pc # "idle" /\ runner'[r].task = t
      /\ \A q \in Runners : q # r => runner'[q] = runner[q]
  BY DEF Launch, Idle, TypeInv, TypeOK
<1>2. r \notin Holders /\ Holders' = Holders \cup {r}
  BY <1>1 DEF Holders
<1>3. Background(Holders)' = IF t \in HighPriority THEN Background(Holders)
                             ELSE Background(Holders) \cup {r}
  BY <1>1, <1>2 DEF Background, Holders
<1>4. ASSUME NEW c
      PROVE  HoldersOf(c)' = IF c = crawlerName(t) THEN HoldersOf(c) \cup {r}
                             ELSE HoldersOf(c)
  BY <1>1, <1>2 DEF HoldersOf, Holders
<1>5. ASSUME NEW c
      PROVE  Background(HoldersOf(c))' =
               IF c = crawlerName(t) /\ t \notin HighPriority
               THEN Background(HoldersOf(c)) \cup {r}
               ELSE Background(HoldersOf(c))
  <2>1. HoldersOf(c) \subseteq Runners /\ r \notin HoldersOf(c)
    BY <1>2 DEF HoldersOf, Holders
  <2> QED
    BY <1>1, <1>4, <2>1 DEF Background
<1> QED
  BY <1>2, <1>3, <1>4, <1>5

(* A launch finds room for its task in both pools and takes it.            *)
LEMMA LaunchSlots ==
  ASSUME TypeInv, SlotInv, NEW t \in Tasks, NEW r \in Runners, Launch(t, r)
  PROVE  SlotInv'
<1> DEFINE k == crawlerName(t)
           extra == IF t \in HighPriority THEN 1 ELSE 0
<1>1. k \in Crawlers \cup {NoCrawler} /\ NoCrawler \notin Crawlers
  BY BatchOfAssumption, CrawlerOfAssumption DEF crawlerName
<1>2. /\ GlobalLimit \in Nat /\ CrawlerLimit \in [Crawlers -> Nat]
      /\ \A c \in Crawlers : CrawlerLimit[c] \in Nat
  BY LimitAssumption
<1>3. /\ globalPool < GlobalLimit + extra
      /\ k # NoCrawler => crawlerPools[k] < CrawlerLimit[k] + extra
  BY DEF Launch, globalRoom, crawlerRoom, tryAcquire, Reserved
<1>4. /\ globalPool' = globalPool + 1
      /\ crawlerPools' = IF k = NoCrawler THEN crawlerPools
                         ELSE [crawlerPools EXCEPT ![k] = @ + 1]
  BY DEF Launch
<1>5. crawlerPools \in [Crawlers -> Nat] /\ globalPool \in Nat
  BY DEF TypeInv, TypeOK
<1>6. \A c \in Crawlers : crawlerPools'[c] = IF c = k THEN crawlerPools[c] + 1
                                             ELSE crawlerPools[c]
  BY <1>1, <1>4, <1>5
<1>7. ASSUME NEW S, IsFiniteSet(S), r \notin S
      PROVE  Cardinality(S \cup {r}) = Cardinality(S) + 1
  BY <1>7, FS_AddElement
<1> HIDE DEF k
<1>8. /\ Cardinality(Holders') = Cardinality(Holders) + 1
      /\ Cardinality(Background(Holders)') =
           IF t \in HighPriority THEN Cardinality(Background(Holders))
           ELSE Cardinality(Background(Holders)) + 1
  <2>1. r \notin Holders /\ r \notin Background(Holders)
    BY LaunchHolders DEF Background
  <2> QED
    BY <1>7, <2>1, HoldersFinite, LaunchHolders
<1>9. ASSUME NEW c \in Crawlers
      PROVE  /\ Cardinality(HoldersOf(c)') =
                  IF c = k THEN Cardinality(HoldersOf(c)) + 1
                  ELSE Cardinality(HoldersOf(c))
             /\ Cardinality(Background(HoldersOf(c))') =
                  IF c = k /\ t \notin HighPriority
                  THEN Cardinality(Background(HoldersOf(c))) + 1
                  ELSE Cardinality(Background(HoldersOf(c)))
  <2>1. r \notin HoldersOf(c) /\ r \notin Background(HoldersOf(c))
    BY LaunchHolders DEF Background, HoldersOf
  <2> QED
    BY <1>7, <2>1, HoldersFinite, LaunchHolders DEF k
<1>10. PoolAccounting'
  BY <1>4, <1>6, <1>8, <1>9 DEF SlotInv, PoolAccounting
<1>11. /\ Cardinality(Holders)' <= GlobalLimit + Reserved
       /\ Cardinality(Background(Holders))' <= GlobalLimit
  BY <1>2, <1>3, <1>5, <1>8, HoldersFinite
     DEF SlotInv, PoolAccounting, ConcurrencyBound, Reserved
<1>12. ASSUME NEW c \in Crawlers
       PROVE  /\ Cardinality(HoldersOf(c))' <= CrawlerLimit[c] + Reserved
              /\ Cardinality(Background(HoldersOf(c)))' <= CrawlerLimit[c]
  <2>1. /\ crawlerPools[c] = Cardinality(HoldersOf(c))
        /\ Cardinality(HoldersOf(c)) <= CrawlerLimit[c] + Reserved
        /\ Cardinality(Background(HoldersOf(c))) <= CrawlerLimit[c]
    BY DEF SlotInv, PoolAccounting, ConcurrencyBound
  <2>2. /\ Cardinality(HoldersOf(c)) \in Nat
        /\ Cardinality(Background(HoldersOf(c))) \in Nat
        /\ Cardinality(Background(HoldersOf(c))) <= Cardinality(HoldersOf(c))
    BY HoldersFinite
  <2>3. c = k => crawlerPools[c] < CrawlerLimit[c] + extra
    BY <1>1, <1>3
  <2> QED
    BY <1>2, <1>9, <2>1, <2>2, <2>3 DEF Reserved
<1> QED
  BY <1>10, <1>11, <1>12 DEF SlotInv, ConcurrencyBound

(* The holders a release leaves.                                           *)
LEMMA ReleaseHolders ==
  ASSUME TypeInv, NEW r \in Runners, Release(r)
  PROVE  /\ r \in Holders
         /\ Holders' = Holders \ {r}
         /\ Background(Holders)' = Background(Holders) \ {r}
         /\ \A c : HoldersOf(c)' = HoldersOf(c) \ {r}
         /\ \A c : Background(HoldersOf(c))' = Background(HoldersOf(c)) \ {r}
<1>1. /\ runner[r].pc # "idle" /\ runner'[r].pc = "idle"
      /\ \A q \in Runners : q # r => runner'[q] = runner[q]
  BY DEF Release, Become, Idle, TypeInv, TypeOK
<1>2. r \in Holders /\ Holders' = Holders \ {r}
  BY <1>1 DEF Holders
<1>3. Background(Holders)' = Background(Holders) \ {r}
  BY <1>1, <1>2 DEF Background, Holders
<1>4. ASSUME NEW c PROVE HoldersOf(c)' = HoldersOf(c) \ {r}
  BY <1>1, <1>2 DEF HoldersOf, Holders
<1>5. ASSUME NEW c
      PROVE  Background(HoldersOf(c))' = Background(HoldersOf(c)) \ {r}
  <2>1. HoldersOf(c) \subseteq Runners
    BY DEF HoldersOf, Holders
  <2> QED
    BY <1>1, <1>4, <2>1 DEF Background
<1> QED
  BY <1>2, <1>3, <1>4, <1>5

(* A release gives both slots back; release() never finds a counter at 0.  *)
LEMMA ReleaseSlots ==
  ASSUME TypeInv, SlotInv, NEW r \in Runners, Release(r)
  PROVE  SlotInv'
<1> DEFINE k == crawlerName(runner[r].task)
<1>1. k \in Crawlers \cup {NoCrawler} /\ NoCrawler \notin Crawlers
  BY BatchOfAssumption, CrawlerOfAssumption
     DEF crawlerName, Release, TypeInv, HasTask
<1>2. /\ GlobalLimit \in Nat /\ \A c \in Crawlers : CrawlerLimit[c] \in Nat
  BY LimitAssumption
<1>3. /\ globalPool' = release(globalPool)
      /\ crawlerPools' = IF k = NoCrawler THEN crawlerPools
                         ELSE [crawlerPools EXCEPT ![k] = release(@)]
  BY DEF Release
<1>4. crawlerPools \in [Crawlers -> Nat] /\ globalPool \in Nat
  BY DEF TypeInv, TypeOK
<1>5. \A c \in Crawlers : crawlerPools'[c] = IF c = k THEN release(crawlerPools[c])
                                             ELSE crawlerPools[c]
  BY <1>1, <1>3, <1>4
<1>6. ASSUME NEW S, IsFiniteSet(S), Cardinality(S) \in Nat
      PROVE  /\ Cardinality(S \ {r}) \in Nat
             /\ Cardinality(S \ {r}) = IF r \in S THEN release(Cardinality(S))
                                       ELSE Cardinality(S)
             /\ Cardinality(S \ {r}) <= Cardinality(S)
  <2>1. IsFiniteSet(S \ {r}) /\ Cardinality(S \ {r}) \in Nat
    BY <1>6, FS_RemoveElement, FS_CardinalityType
  <2> QED
    BY <1>6, <2>1, FS_RemoveElement DEF release
<1> HIDE DEF k
<1>7. PoolAccounting'
  <2>1. Cardinality(Holders)' = release(Cardinality(Holders))
    BY <1>6, HoldersFinite, ReleaseHolders
  <2>2. ASSUME NEW c \in Crawlers
        PROVE  Cardinality(HoldersOf(c))' =
                 IF c = k THEN release(Cardinality(HoldersOf(c)))
                 ELSE Cardinality(HoldersOf(c))
    <3>1. r \in HoldersOf(c) <=> c = k
      BY ReleaseHolders DEF HoldersOf, k
    <3> QED
      BY <1>6, <3>1, HoldersFinite, ReleaseHolders
  <2> QED
    BY <1>3, <1>5, <2>1, <2>2 DEF SlotInv, PoolAccounting
<1>8. /\ Cardinality(Holders)' <= GlobalLimit + Reserved
      /\ Cardinality(Background(Holders))' <= GlobalLimit
  <2>1. /\ Cardinality(Holders)' \in Nat
        /\ Cardinality(Holders)' <= Cardinality(Holders)
        /\ Cardinality(Background(Holders))' \in Nat
        /\ Cardinality(Background(Holders))' <= Cardinality(Background(Holders))
    BY <1>6, HoldersFinite, ReleaseHolders
  <2> QED
    BY <1>2, <2>1, HoldersFinite DEF SlotInv, ConcurrencyBound, Reserved
<1>9. ASSUME NEW c \in Crawlers
      PROVE  /\ Cardinality(HoldersOf(c))' <= CrawlerLimit[c] + Reserved
             /\ Cardinality(Background(HoldersOf(c)))' <= CrawlerLimit[c]
  <2>1. /\ Cardinality(HoldersOf(c))' \in Nat
        /\ Cardinality(HoldersOf(c))' <= Cardinality(HoldersOf(c))
        /\ Cardinality(Background(HoldersOf(c)))' \in Nat
        /\ Cardinality(Background(HoldersOf(c)))' <=
             Cardinality(Background(HoldersOf(c)))
    BY <1>6, HoldersFinite, ReleaseHolders
  <2> QED
    BY <1>2, <2>1, HoldersFinite DEF SlotInv, ConcurrencyBound, Reserved
<1> QED
  BY <1>7, <1>8, <1>9 DEF SlotInv, ConcurrencyBound

(* Empty pools: at the start, and whenever the process loses its memory.   *)
LEMMA EmptyPools ==
  ASSUME \A r \in Runners : runner[r].pc = "idle",
         globalPool = 0, crawlerPools = [c \in Crawlers |-> 0]
  PROVE  SlotInv
<1>1. Holders = {}
  BY DEF Holders
<1>2. Background(Holders) = {}
  BY <1>1 DEF Background
<1>3. \A c : HoldersOf(c) = {}
  BY <1>1 DEF HoldersOf
<1>4. \A c : Background(HoldersOf(c)) = {}
  BY <1>3 DEF Background
<1>5. /\ Cardinality(Holders) = 0 /\ Cardinality(Background(Holders)) = 0
      /\ \A c : /\ Cardinality(HoldersOf(c)) = 0
                /\ Cardinality(Background(HoldersOf(c))) = 0
  <2>1. Cardinality({}) = 0
    BY FS_EmptySet
  <2>2. Cardinality(Background(Holders)) = 0
    BY <1>2, <2>1, Zenon
  <2>3. ASSUME NEW c PROVE Cardinality(Background(HoldersOf(c))) = 0
    BY <1>4, <2>1, Zenon
  <2> QED
    BY <1>1, <1>3, <2>1, <2>2, <2>3
<1>6. /\ GlobalLimit \in Nat /\ \A c \in Crawlers : CrawlerLimit[c] \in Nat
  BY LimitAssumption
<1> QED
  BY <1>5, <1>6 DEF SlotInv, PoolAccounting, ConcurrencyBound, Reserved

(* ... the latter in the next state.                                       *)
LEMMA EmptyPoolsNext ==
  ASSUME emptyMemory PROVE SlotInv'
<1>1. \A r \in Runners : runner'[r].pc = "idle"
  BY DEF emptyMemory, Idle
<1>2. globalPool' = 0 /\ crawlerPools' = [c \in Crawlers |-> 0]
  BY DEF emptyMemory
<1>3. Holders' = {}
  BY <1>1 DEF Holders
<1>4. Background(Holders)' = {}
  BY <1>3 DEF Background
<1>5. \A c : HoldersOf(c)' = {}
  BY <1>3 DEF HoldersOf
<1>6. \A c : Background(HoldersOf(c))' = {}
  BY <1>5 DEF Background
<1>7. Cardinality({}) = 0
  BY FS_EmptySet
<1>8. /\ GlobalLimit \in Nat /\ \A c \in Crawlers : CrawlerLimit[c] \in Nat
  BY LimitAssumption
<1> QED
  BY <1>2, <1>3, <1>4, <1>5, <1>6, <1>7, <1>8
     DEF SlotInv, PoolAccounting, ConcurrencyBound, Reserved

(* The accounting and the bounds are kept by every step.                   *)
LEMMA SlotInvariant == Spec => []SlotInv
<1>1. Init => SlotInv
  BY EmptyPools DEF Init, Idle
<1>2. ASSUME TypeInv, SlotInv, [Next]_vars PROVE SlotInv'
  <2>1. CASE \E t \in Tasks, r \in Runners : Launch(t, r)
    BY <1>2, <2>1, LaunchSlots
  <2>2. CASE \E r \in Runners : Release(r)
    BY <1>2, <2>2, ReleaseSlots
  <2>3. CASE ServiceDestroy \/ Crash
    BY <2>3, EmptyPoolsNext DEF ServiceDestroy, Crash
  <2>4. ASSUME NEW r \in Runners, Run(r), ~Release(r) PROVE SlotInv'
    BY <1>2, <2>4, RunKeepsSlots, SameSlotsKeep
  <2>5. CASE \/ Poll /\ ~\E t \in Tasks, r \in Runners : Launch(t, r)
             \/ \E c \in Clients : Request(c) \/ Step(c)
             \/ \E t \in Tasks : BackoffElapses(t) \/ LeaseExpires(t)
             \/ AppStart
             \/ UNCHANGED vars
    BY <1>2, <2>5, OthersKeepSlots, SameSlotsKeep
  <2> QED
    BY <1>2, <2>1, <2>2, <2>3, <2>4, <2>5 DEF Next
<1> QED
  BY <1>1, <1>2, TypeInvariant, PTL DEF Spec

(* Every acquired slot is held by exactly one coroutine, and every         *)
(* coroutine holds its slots: neither pool loses one or hands one out      *)
(* twice, on whichever path a launch or a run ends (launchReadyJobs,       *)
(* JobScheduler.kt:213-292).                                               *)
THEOREM PoolsAccounted == Spec => []PoolAccounting
<1>1. SlotInv => PoolAccounting
  BY DEF SlotInv
<1> QED
  BY <1>1, SlotInvariant, PTL

(* At most GlobalLimit background downloads run at once, and CrawlerLimit  *)
(* of a source; a high-priority one can take one slot more                 *)
(* (WorkerPool.tryAcquire).                                                *)
THEOREM ConcurrencyBounded == Spec => []ConcurrencyBound
<1>1. SlotInv => ConcurrencyBound
  BY DEF SlotInv
<1> QED
  BY <1>1, SlotInvariant, PTL

-----------------------------------------------------------------------------
(***************************************************************************)
(* Where downloads run one at a time, the scheduler implements the queue   *)
(* of DownloadQueue: every statement that moves a task is a move of the    *)
(* queue, the write at the end of syncBatchCompletion gives the verdict,   *)
(* and everything else, a crash included, the queue does not see.          *)
(***************************************************************************)

(* At most one coroutine.                                                  *)
Single ==
  \A r, q \in Runners : runner[r].pc # "idle" /\ runner[q].pc # "idle" => r = q

LEMMA BoundIsOne ==
  ASSUME GlobalLimit = 1, HighPriority = {}, TypeInv, ConcurrencyBound PROVE Single
<1> SUFFICES ASSUME NEW r \in Runners, NEW q \in Runners,
                    runner[r].pc # "idle", runner[q].pc # "idle", r # q
             PROVE  FALSE
  BY DEF Single
<1>1. Background(Holders) = Holders
  BY DEF Background
<1>2. IsFiniteSet(Holders) /\ Cardinality(Holders) \in Nat /\ Cardinality(Holders) <= 1
  BY <1>1, HoldersFinite DEF ConcurrencyBound
<1>3. r \in Holders /\ q \in Holders \ {r}
  BY DEF Holders
<1>4. IsFiniteSet(Holders \ {r}) /\ Cardinality(Holders \ {r}) = Cardinality(Holders) - 1
  BY <1>2, <1>3, FS_RemoveElement
<1>5. Holders \ {r} = {}
  BY <1>2, <1>4, FS_EmptySet, FS_CardinalityType
<1> QED
  BY <1>3, <1>5

(* The coroutine that is there reopens no verdict: it writes RUNNING to a  *)
(* batch, or BLOCKED to those of its source, while a task has none yet.    *)
(* Every task has its row.                                                 *)
SingleFits ==
  /\ \A t \in Tasks : task[t].status # Absent
  /\ \A r \in Runners :
       /\ runner[r].pc \in Syncs /\ runner[r].target = "RUNNING" =>
            \E t \in Rows(task, batchOf(r)) : ~Completed(task[t].status)
       /\ runner[r].pc = "blockEach" =>
            \A b \in runner[r].todo : b \in Batches => ~Completed(batch[b])

(* The rows a step writes, and the others.                                 *)
RowsElsewhere(t) == \A u \in Tasks : u # t => task'[u] = task[u]
Outcome(t) ==
  \/ /\ task'[t].status \in {"SUCCESS", "BLOCKED", "CANCELLED"}
     /\ task'[t].attempts = task[t].attempts
  \/ /\ task'[t].status = "FAILED"
     /\ task'[t].attempts = task[t].attempts + 1
  \/ /\ task'[t].status = "PENDING"
     /\ task'[t].attempts = task[t].attempts + 1
     /\ task[t].attempts + 1 < MaxAttempts

LEMMA WriteMoves ==
  ASSUME Alone, RunnersFit, NEW r \in Runners, Write(r), NEW t \in Tasks,
         t = runner[r].task
  PROVE  Outcome(t) /\ RowsElsewhere(t) /\ UNCHANGED batch /\ task[t].status = "RUNNING"
<1> DEFINE me == runner[r]
           row == task[t]
<1>1. task \in TaskTable /\ row \in TaskRow /\ UNCHANGED batch
  BY DEF Alone, TypeInv, TypeOK, TaskTable, Write
<1>2. /\ row.status = "RUNNING"
      /\ me.result \in {"Fatal", "Retry"} => me.attempts = row.attempts + 1
      /\ me.result = "Retry" => me.attempts < MaxAttempts
      /\ me.result = "Cancelled" => me.target = "CANCELLED"
      /\ me.result = "Blocked" => me.target = "BLOCKED"
      /\ me.result \in {"Success", "Fatal", "Retry", "Cancelled", "Blocked"}
  BY DEF Write, At, RunnersFit, Fits, InRun, Taken
<1>3. ASSUME NEW s
      PROVE  /\ updateTaskStatus(task, t, s)[t].status = s
             /\ updateTaskStatus(task, t, s)[t].attempts = row.attempts
             /\ \A u \in Tasks : u # t => updateTaskStatus(task, t, s)[u] = task[u]
  BY <1>1, <1>2 DEF updateTaskStatus, Update, Absent, TaskRow
<1>4. ASSUME NEW n
      PROVE  /\ markFailed(task, t, n)[t].status = "FAILED"
             /\ markFailed(task, t, n)[t].attempts = n
             /\ \A u \in Tasks : u # t => markFailed(task, t, n)[u] = task[u]
             /\ markRetrying(task, t, n)[t].status = "PENDING"
             /\ markRetrying(task, t, n)[t].attempts = n
             /\ \A u \in Tasks : u # t => markRetrying(task, t, n)[u] = task[u]
  BY <1>1, <1>2 DEF markFailed, markRetrying, Update, Absent
<1>5. \/ me.result = "Success" /\ task' = updateTaskStatus(task, t, "SUCCESS")
      \/ me.result = "Cancelled" /\ task' = updateTaskStatus(task, t, "CANCELLED")
      \/ me.result = "Blocked" /\ task' = updateTaskStatus(task, t, "BLOCKED")
      \/ me.result = "Fatal" /\ task' = markFailed(task, t, me.attempts)
      \/ me.result = "Retry" /\ task' = markRetrying(task, t, me.attempts)
  BY <1>2 DEF Write
<1> HIDE DEF me, row
<1>6. CASE me.result \in {"Success", "Cancelled", "Blocked"}
  <2>1. \E s \in {"SUCCESS", "BLOCKED", "CANCELLED"} : task' = updateTaskStatus(task, t, s)
    BY <1>5, <1>6
  <2> QED
    BY <1>1, <1>2, <1>3, <2>1 DEF Outcome, RowsElsewhere, row
<1>7. CASE me.result = "Fatal"
  <2>1. task' = markFailed(task, t, me.attempts) /\ me.attempts = row.attempts + 1
    BY <1>2, <1>5, <1>7
  <2>2. /\ task'[t].status = "FAILED" /\ task'[t].attempts = me.attempts
        /\ \A u \in Tasks : u # t => task'[u] = task[u]
    BY <1>4, <2>1
  <2>3. task'[t].attempts = task[t].attempts + 1
    BY <2>1, <2>2 DEF row
  <2> QED
    BY <1>1, <1>2, <2>2, <2>3 DEF Outcome, RowsElsewhere, row
<1>8. CASE me.result = "Retry"
  <2>1. task' = markRetrying(task, t, me.attempts) /\ me.attempts = row.attempts + 1
        /\ me.attempts < MaxAttempts
    BY <1>2, <1>5, <1>8
  <2> QED
    BY <1>1, <1>2, <1>4, <2>1 DEF Outcome, RowsElsewhere, row
<1> QED
  BY <1>2, <1>6, <1>7, <1>8

(* What is recovered goes back into the queue, or is blocked with its      *)
(* batch; what is claimed was waiting.                                     *)
LEMMA RecoverMoves ==
  ASSUME Alone, Recovering, NEW t \in Tasks, Recovered(t)
  PROVE  /\ task[t].status = "RUNNING" /\ task'[t].status \in {"PENDING", "BLOCKED"}
         /\ task'[t].attempts = task[t].attempts
         /\ RowsElsewhere(t) /\ UNCHANGED batch
<1>1. /\ task[t].status = "RUNNING" /\ task'[t].status \in {"PENDING", "BLOCKED"}
      /\ task'[t].attempts = task[t].attempts
      /\ UNCHANGED batch /\ task' = updateTaskStatus(task, t, poll.target)
  BY DEF Recovered, RecoverWrite, Recovering
<1>2. RowsElsewhere(t)
  BY <1>1 DEF RowsElsewhere, updateTaskStatus, Update
<1> QED
  BY <1>1, <1>2

LEMMA ClaimMoves ==
  ASSUME Alone, NEW t \in Tasks, NEW r \in Runners, Claimed(t, r)
  PROVE  /\ task'[t].status = "RUNNING" /\ task'[t].attempts = task[t].attempts
         /\ RowsElsewhere(t) /\ UNCHANGED batch
<1>1. /\ task'[t].status = "RUNNING" /\ task'[t].attempts = task[t].attempts
      /\ UNCHANGED batch /\ \E s : task' = updateTaskStatus(task, t, s)
  BY DEF Claimed, ClaimTask
<1>2. RowsElsewhere(t)
  BY <1>1 DEF RowsElsewhere, updateTaskStatus, Update
<1> QED
  BY <1>1, <1>2

(* SingleFits stays so.                                                    *)
LEMMA SingleRows ==
  ASSUME Alone, VerdictInv, SingleFits, [Next]_vars, NEW t \in Tasks
  PROVE  task'[t].status # Absent
<1>1. CASE task'[t].status = task[t].status
  BY <1>1 DEF SingleFits
<1>2. CASE Recovered(t)
  BY <1>2, RecoverMoves DEF VerdictInv, Absent
<1>3. ASSUME NEW r \in Runners, Claimed(t, r) PROVE task'[t].status # Absent
  BY <1>3 DEF Claimed, Absent
<1>4. ASSUME NEW r \in Runners, Decided(t, r) PROVE task'[t].status # Absent
  <2>1. Outcome(t)
    BY <1>4, WriteMoves DEF Decided, VerdictInv
  <2> QED
    BY <2>1 DEF Outcome, Absent
<1> QED
  BY <1>1, <1>2, <1>3, <1>4, RowMoves DEF VerdictInv

(* While one coroutine does nothing, no other one does anything.           *)
LEMMA SingleStep ==
  ASSUME Single, NEW r \in Runners, runner[r].pc # "idle", NEW q \in Runners, Run(q)
  PROVE  q = r
<1>1. runner[q].pc # "idle"
  BY DEF Run, PreClaim, ClaimTask, ClaimBatch, PreExec, Handle, Latest, Write, BlockBatch,
     BlockCrawler, BlockEach, SyncTasks, SyncBatch, SyncWrite, Abort, NeverStarted,
     Complete, Rethrow, Release, At, Suspending, InRun
<1> QED
  BY <1>1 DEF Single

LEMMA SingleOpen ==
  ASSUME Alone, VerdictInv, Single, SingleFits, [Next]_vars,
         NEW r \in Runners, runner'[r].pc \in Syncs, runner'[r].target = "RUNNING"
  PROVE  \E t \in Rows(task', BatchOf[runner'[r].task]) : ~Completed(task'[t].status)
<1> DEFINE me == runner[r]
           Goal == \E t \in Rows(task', BatchOf[runner'[r].task]) : ~Completed(task'[t].status)
<1>1. me \in RunnerState /\ runner \in [Runners -> RunnerState] /\ runner'[r].pc \in InRun
  BY DEF Alone, TypeInv, TypeOK, Syncs, InRun
<1>2. \A x : Become(r, x) => runner'[r] = x
  BY <1>1 DEF Become
<1>3. ASSUME NEW t \in Tasks, Launch(t, r) PROVE FALSE
  <2>1. runner'[r].pc = "launched"
    BY <1>1, <1>3 DEF Launch, Idle
  <2> QED
    BY <2>1 DEF Syncs
<1>4. ASSUME ~Run(r), runner'[r] = runner[r] PROVE Goal
  <2>1. PICK t \in Rows(task, batchOf(r)) : ~Completed(task[t].status)
    BY <1>4 DEF SingleFits
  <2>2. t \in Tasks /\ t \in TasksOf(batchOf(r)) /\ me.pc # "idle"
    BY <1>4 DEF Rows, TasksOf, Syncs
  <2>3. \A q \in Runners : ~Claimed(t, q) /\ ~Decided(t, q)
    BY <1>4, <2>2, SingleStep DEF Claimed, Decided, Run
  <2>4. task'[t].status = task[t].status \/ task'[t].status \in {"PENDING", "BLOCKED"}
    BY <2>2, <2>3, RowMoves, RecoverMoves DEF VerdictInv
  <2>5. ~Completed(task'[t].status) /\ task'[t].status # Absent
    BY <2>1, <2>2, <2>4, SingleRows DEF Completed
  <2> QED
    BY <1>4, <2>2, <2>5 DEF Rows, batchOf
<1>5. ASSUME SyncTasks(r) PROVE Goal
  <2> DEFINE rows == Rows(task, batchOf(r))
             statuses == {task[t].status : t \in rows}
             decided(s) == [me EXCEPT !.pc = "syncBatch", !.target = s]
             done == [me EXCEPT !.pc = "complete"]
  <2>1. /\ done.pc = "complete"
        /\ \A s : decided(s).target = s /\ decided(s).task = me.task
    BY <1>1, SMT DEF RunnerState
  <2>2. \/ Become(r, done)
        \/ Become(r, decided(finalStatus(statuses)))
        \/ "RUNNING" \in statuses /\ Become(r, decided("RUNNING"))
    BY <1>5 DEF SyncTasks
  <2>3. UNCHANGED task
    BY <1>5 DEF SyncTasks, store
  <2>4. finalStatus(statuses) # "RUNNING"
    BY DEF finalStatus
  <2> HIDE DEF decided, done, statuses
  <2>5. "RUNNING" \in statuses /\ runner'[r].task = me.task
    BY <1>2, <2>1, <2>2, <2>4 DEF Syncs
  <2>6. \E t \in rows : task[t].status = "RUNNING"
    BY <2>5 DEF statuses
  <2>7. ~Completed("RUNNING")
    BY DEF Completed
  <2> QED
    BY <2>3, <2>5, <2>6, <2>7 DEF batchOf
<1>6. ASSUME SyncBatch(r) PROVE Goal
  <2>1. me.pc = "syncBatch" /\ (\E pc : Goto(r, pc)) /\ UNCHANGED task
    BY <1>6 DEF SyncBatch, At, store
  <2>2. runner'[r].target = me.target /\ runner'[r].task = me.task
    BY <1>1, <1>2, <2>1 DEF Goto, RunnerState
  <2>3. \E t \in Rows(task, batchOf(r)) : ~Completed(task[t].status)
    BY <2>1, <2>2 DEF SingleFits, Syncs
  <2> QED
    BY <2>1, <2>2, <2>3 DEF batchOf
<1>7. Run(r) => SyncTasks(r) \/ SyncBatch(r)
  BY RunTo DEF Syncs
<1> HIDE DEF Goal, me
<1>8. Goal
  BY <1>1, <1>3, <1>4, <1>5, <1>6, <1>7, RecordSteps DEF me
<1> QED
  BY <1>8 DEF Goal

LEMMA SingleTodo ==
  ASSUME Alone, VerdictInv, Single, SingleFits, [Next]_vars,
         NEW r \in Runners, runner'[r].pc = "blockEach",
         NEW b \in Batches, b \in runner'[r].todo
  PROVE  ~Completed(batch'[b])
<1> DEFINE me == runner[r]
           left(c) == [me EXCEPT !.todo = @ \ {c}]
           blocking(S) == [me EXCEPT !.pc = "blockEach", !.todo = S]
           at(pc) == [me EXCEPT !.pc = pc]
<1>1. me \in RunnerState /\ runner \in [Runners -> RunnerState] /\ runner'[r].pc \in InRun
  BY DEF Alone, TypeInv, TypeOK, InRun
<1>2. \A x : Become(r, x) => runner'[r] = x
  BY <1>1 DEF Become
<1>3. /\ \A c : left(c).todo = me.todo \ {c}
      /\ \A S : blocking(S).todo = S
      /\ \A pc : at(pc).pc = pc
  BY <1>1, SMT DEF RunnerState
<1> HIDE DEF left, blocking, at
<1>4. ASSUME NEW t \in Tasks, Launch(t, r) PROVE FALSE
  <2>1. runner'[r].pc = "launched"
    BY <1>1, <1>4 DEF Launch, Idle
  <2> QED
    BY <2>1
<1>5. ASSUME ~Run(r), runner'[r] = runner[r] PROVE ~Completed(batch'[b])
  <2>1. me.pc = "blockEach" /\ ~Completed(batch[b])
    BY <1>5 DEF SingleFits
  <2>2. ASSUME NEW q \in Runners, Run(q) PROVE FALSE
    BY <1>5, <2>1, <2>2, SingleStep
  <2>3. batch'[b] = batch[b]
    BY <2>2, BatchSteps DEF VerdictInv, Run
  <2> QED
    BY <2>1, <2>3
<1>6. ASSUME BlockCrawler(r) PROVE ~Completed(batch'[b])
  <2>1. \/ Become(r, at("complete"))
        \/ \E c : Become(r, blocking({a \in getActiveBatches(batch) : CrawlerOf[a] = c}))
    BY <1>6 DEF BlockCrawler, Goto, at, blocking
  <2>2. ~Become(r, at("complete"))
    BY <1>2, <1>3
  <2>3. b \in getActiveBatches(batch) /\ UNCHANGED batch
    BY <1>2, <1>3, <1>6, <2>1, <2>2 DEF BlockCrawler, store
  <2> QED
    BY <2>3 DEF getActiveBatches, Completed
<1>7. ASSUME BlockEach(r) PROVE ~Completed(batch'[b])
  <2>1. me.pc = "blockEach"
    BY <1>7 DEF BlockEach, At
  <2>2. ~Become(r, at("complete"))
    BY <1>2, <1>3
  <2>3. \E c : Become(r, left(c))
    BY <1>7, <2>2 DEF BlockEach, Goto, at, left
  <2>4. b \in me.todo
    BY <1>2, <1>3, <2>3
  <2>5. ~Completed(batch[b])
    BY <2>1, <2>4 DEF SingleFits
  <2>6. \A q \in Runners : Run(q) => q = r
    BY <2>1, SingleStep
  <2>7. \A q \in Runners : ~ClaimBatch(q) /\ ~BlockBatch(q) /\ ~SyncWrite(q)
    BY <2>1, <2>6 DEF Run, ClaimBatch, BlockBatch, SyncWrite, At
  <2>8. batch'[b] = batch[b] \/ batch'[b] = "BLOCKED"
    BY <2>7, BatchSteps DEF VerdictInv
  <2> QED
    BY <2>5, <2>8 DEF Completed
<1>8. Run(r) => BlockCrawler(r) \/ BlockEach(r)
  <2>1. CASE SyncTasks(r)
    <3>1. runner'[r].pc \in {"complete", "syncBatch"}
      <4> DEFINE decided(s) == [me EXCEPT !.pc = "syncBatch", !.target = s]
      <4>1. \A s : decided(s).pc = "syncBatch"
        BY <1>1, SMT DEF RunnerState
      <4>2. Become(r, at("complete")) \/ \E s : Become(r, decided(s))
        BY <2>1 DEF SyncTasks, at
      <4> HIDE DEF decided
      <4> QED
        BY <1>2, <1>3, <4>1, <4>2
    <3> QED
      BY <3>1
  <2>2. CASE SyncBatch(r)
    <3>1. \E pc \in {"complete", "syncWrite"} : Become(r, at(pc))
      BY <2>2 DEF SyncBatch, Goto, at
    <3> QED
      BY <1>2, <1>3, <3>1
  <2> QED
    BY <2>1, <2>2, RunTo
<1> QED
  BY <1>1, <1>4, <1>5, <1>6, <1>7, <1>8, RecordSteps

LEMMA SingleFitsStep ==
  ASSUME Alone, VerdictInv, Single, SingleFits, [Next]_vars PROVE SingleFits'
BY SingleRows, SingleOpen, SingleTodo DEF SingleFits, batchOf

(* A verdict is final, and given by the last write of a coroutine.         *)
LEMMA VerdictSteps ==
  ASSUME Alone, VerdictInv, Single, SingleFits, [Next]_vars, NEW b \in Batches
  PROVE  \/ ~Completed(batch[b]) /\ ~Completed(batch'[b])
         \/ Completed(batch[b]) /\ batch'[b] = batch[b]
         \/ /\ ~Completed(batch[b]) /\ Final(task, b, batch'[b])
            /\ \E r \in Runners : SyncWrite(r) /\ batchOf(r) = b
<1>1. CASE batch'[b] = batch[b]
  BY <1>1
<1>2. /\ ~Completed("RUNNING") /\ ~Completed("BLOCKED")
  BY DEF Completed
<1>3. ASSUME NEW r \in Runners, ClaimBatch(r) \/ BlockBatch(r), batchOf(r) = b
      PROVE  ~Completed(batch[b])
  <2>1. /\ task[runner[r].task].status \in {"RUNNING", "BLOCKED"}
        /\ runner[r].pc \in InRun
    BY <1>3 DEF ClaimBatch, BlockBatch, At, VerdictInv, RunnersFit, Fits, InRun, Taken
  <2>2. runner[r].task \in Tasks
    BY <2>1 DEF Alone, TypeInv, HasTask, InRun
  <2> QED
    BY <1>3, <2>1, <2>2, RunningIsOpen DEF batchOf, VerdictInv
<1>4. ASSUME NEW r \in Runners, BlockEach(r), b \in runner[r].todo
      PROVE  ~Completed(batch[b])
  BY <1>4 DEF BlockEach, At, SingleFits
<1>5. ASSUME NEW r \in Runners, SyncWrite(r), batchOf(r) = b, batch'[b] = runner[r].target
      PROVE  \/ ~Completed(batch[b]) /\ ~Completed(batch'[b])
             \/ Completed(batch[b]) /\ batch'[b] = batch[b]
             \/ ~Completed(batch[b]) /\ Final(task, b, batch'[b])
  <2>1. runner[r].pc \in Syncs
    BY <1>5 DEF SyncWrite, At, Syncs
  <2>2. CASE runner[r].target = "RUNNING"
    <3>1. ~Completed(batch[b])
      BY <1>5, <2>1, <2>2, OpenTask DEF SingleFits, VerdictInv
    <3> QED
      BY <1>2, <1>5, <2>2, <3>1
  <2>3. CASE Final(task, b, runner[r].target)
    <3>1. Completed(batch[b]) => batch[b] = runner[r].target
      BY <2>3 DEF VerdictInv, BatchesFit, Final
    <3> QED
      BY <1>5, <2>3, <3>1
  <2> QED
    BY <1>5, <2>1, <2>2, <2>3 DEF VerdictInv, SyncsFit
<1> QED
  BY <1>1, <1>2, <1>3, <1>4, <1>5, BatchSteps DEF VerdictInv

(* What the queue sees of the tables.                                      *)
statusOf(tk)   == [t \in Tasks |-> tk[t].status]
failuresOf(tk) == [t \in Tasks |-> tk[t].attempts]
verdictOf(bt)  == [b \in Batches |-> IF Completed(bt[b]) THEN bt[b] ELSE "open"]

LEMMA QueueView ==
  /\ Queue!qvars = <<statusOf(task), failuresOf(task), verdictOf(batch)>>
  /\ Queue!qvars' = <<statusOf(task'), failuresOf(task'), verdictOf(batch')>>
BY DEF Queue!qvars, statusOf, failuresOf, verdictOf

(* A step that moves one task is one of the queue's.                       *)
LEMMA MoveSimulated ==
  ASSUME TypeInv, NEW t \in Tasks, RowsElsewhere(t), UNCHANGED batch,
         \/ /\ task'[t].attempts = task[t].attempts
            /\ \/ task[t].status = "PENDING" /\ task'[t].status = "RUNNING"
               \/ task[t].status = "RUNNING" /\ task'[t].status \in {"PENDING", "BLOCKED"}
         \/ task[t].status = "RUNNING" /\ Outcome(t)
  PROVE  Queue!QNext
<1>1. statusOf(task') = [statusOf(task) EXCEPT ![t] = task'[t].status]
  BY DEF statusOf, RowsElsewhere
<1>2. failuresOf(task') = [failuresOf(task) EXCEPT ![t] = task'[t].attempts]
  BY DEF failuresOf, RowsElsewhere
<1>3. task'[t].attempts = task[t].attempts => failuresOf(task') = failuresOf(task)
  BY <1>2 DEF failuresOf
<1>4. statusOf(task)[t] = task[t].status /\ failuresOf(task)[t] = task[t].attempts
  BY DEF statusOf, failuresOf
<1>5. verdictOf(batch') = verdictOf(batch)
  OBVIOUS
<1> DEFINE Moves(from, to) == statusOf(task)[t] = from
                              /\ statusOf(task') = [statusOf(task) EXCEPT ![t] = to]
           Kept == failuresOf(task') = failuresOf(task) /\ verdictOf(batch') = verdictOf(batch)
<1>6. /\ Moves("PENDING", "RUNNING") /\ Kept => Queue!Claimed(t)
      /\ Moves("RUNNING", "PENDING") /\ Kept => Queue!Lost(t)
      /\ Moves("RUNNING", "BLOCKED") /\ Kept => Queue!Blocked(t)
      /\ Moves("RUNNING", "SUCCESS") /\ Kept => Queue!Succeeded(t)
      /\ Moves("RUNNING", "CANCELLED") /\ Kept => Queue!Cancelled(t)
  BY DEF Queue!Claimed, Queue!Lost, Queue!Blocked, Queue!Succeeded, Queue!Cancelled,
         Queue!Move, statusOf, failuresOf, verdictOf
<1>7. ASSUME failuresOf(task') = [failuresOf(task) EXCEPT ![t] = failuresOf(task)[t] + 1],
             \/ Moves("RUNNING", "FAILED")
             \/ Moves("RUNNING", "PENDING") /\ failuresOf(task)[t] + 1 < MaxAttempts
      PROVE  Queue!Failed(t)
  BY <1>5, <1>7 DEF Queue!Failed, Queue!Move, statusOf, failuresOf, verdictOf
<1>8. \A from, to : task[t].status = from /\ task'[t].status = to => Moves(from, to)
  BY <1>1, <1>4
<1>9. task'[t].attempts = task[t].attempts => Kept
  BY <1>3, <1>5
<1> HIDE DEF Moves, Kept
<1>10. CASE /\ task'[t].attempts = task[t].attempts
            /\ \/ task[t].status = "PENDING" /\ task'[t].status = "RUNNING"
               \/ /\ task[t].status = "RUNNING"
                  /\ task'[t].status \in {"PENDING", "BLOCKED", "SUCCESS", "CANCELLED"}
  <2>1. \/ Queue!Claimed(t) \/ Queue!Lost(t) \/ Queue!Blocked(t)
        \/ Queue!Succeeded(t) \/ Queue!Cancelled(t)
    BY <1>6, <1>8, <1>9, <1>10
  <2> QED
    BY <2>1 DEF Queue!QNext
<1>11. ASSUME task[t].status = "RUNNING", Outcome(t),
              task'[t].status \in {"FAILED", "PENDING"},
              task'[t].attempts = task[t].attempts + 1,
              task'[t].status = "PENDING" => task[t].attempts + 1 < MaxAttempts
       PROVE  Queue!Failed(t)
  <2>1. failuresOf(task') = [failuresOf(task) EXCEPT ![t] = failuresOf(task)[t] + 1]
    BY <1>2, <1>4, <1>11
  <2>2. \/ Moves("RUNNING", "FAILED")
        \/ Moves("RUNNING", "PENDING") /\ failuresOf(task)[t] + 1 < MaxAttempts
    BY <1>4, <1>8, <1>11
  <2> QED
    BY <1>7, <2>1, <2>2
<1> QED
  BY <1>10, <1>11 DEF Outcome, Queue!QNext

(* A step that writes a verdict closes the batch.                          *)
LEMMA CloseSimulated ==
  ASSUME TypeInv, SingleFits, NEW b \in Batches, NEW r \in Runners, SyncWrite(r),
         batchOf(r) = b, ~Completed(batch[b]), Final(task, b, batch'[b])
  PROVE  Queue!Closed(b)
<1>1. Rows(task, b) = {t \in Tasks : BatchOf[t] = b}
  BY DEF Rows, TasksOf, SingleFits
<1> DEFINE statuses == {task[t].status : t \in Rows(task, b)}
<1>2. /\ statuses # {} /\ \A s \in statuses : Completed(s)
      /\ batch'[b] = finalStatus(statuses)
  BY DEF Final
<1>3. Completed(batch'[b])
  BY <1>2 DEF finalStatus, Completed
<1>4. UNCHANGED task /\ \A a \in Batches : a # b => batch'[a] = batch[a]
  BY DEF SyncWrite, updateBatchStatus, TypeInv, TypeOK, BatchTable, store
<1>5. verdictOf(batch') = [verdictOf(batch) EXCEPT ![b] = finalStatus(statuses)]
  BY <1>2, <1>3, <1>4 DEF verdictOf
<1>6. verdictOf(batch)[b] = "open"
  BY DEF verdictOf
<1>7. {statusOf(task)[t] : t \in {u \in Tasks : BatchOf[u] = b}} = statuses
  BY <1>1 DEF statusOf
<1>8. \A t \in Tasks : BatchOf[t] = b => Completed(statusOf(task)[t])
  BY <1>1, <1>2 DEF statusOf
<1>9. finalStatus(statuses) = Queue!finalStatus(statuses)
      /\ \A s : Completed(s) <=> Queue!Completed(s)
  BY DEF finalStatus, Queue!finalStatus, Completed, Queue!Completed
<1>10. UNCHANGED <<statusOf(task), failuresOf(task)>>
  BY <1>4
<1> HIDE DEF statuses
<1> QED
  BY <1>5, <1>6, <1>7, <1>8, <1>9, <1>10
     DEF Queue!Closed, Queue!members, Queue!Open, statusOf, failuresOf, verdictOf

(* Every step of the scheduler is one of the queue, or none.               *)
LEMMA StepSimulated ==
  ASSUME Alone, VerdictInv, Single, SingleFits, [Next]_vars
  PROVE  [Queue!QNext]_(Queue!qvars)
<1>1. CASE \E b \in Batches : /\ ~Completed(batch[b]) /\ Final(task, b, batch'[b])
                              /\ \E r \in Runners : SyncWrite(r) /\ batchOf(r) = b
  BY <1>1, CloseSimulated DEF Alone, Queue!QNext
<1>2. CASE \A b \in Batches : \/ ~Completed(batch[b]) /\ ~Completed(batch'[b])
                              \/ Completed(batch[b]) /\ batch'[b] = batch[b]
  <2>1. verdictOf(batch') = verdictOf(batch)
    BY <1>2 DEF verdictOf
  <2>2. CASE \A t \in Tasks : /\ task'[t].status = task[t].status
                              /\ task'[t].attempts = task[t].attempts
    <3>1. statusOf(task') = statusOf(task) /\ failuresOf(task') = failuresOf(task)
      BY <2>2 DEF statusOf, failuresOf
    <3>2. UNCHANGED Queue!qvars
      BY <2>1, <3>1, QueueView
    <3> QED
      BY <3>2
  <2>3. ASSUME NEW t \in Tasks, Recovered(t) PROVE Queue!QNext
    BY <2>3, RecoverMoves, MoveSimulated DEF Alone, VerdictInv
  <2>4. ASSUME NEW t \in Tasks, NEW r \in Runners, Claimed(t, r), task[t].status = "PENDING"
        PROVE  Queue!QNext
    BY <2>4, ClaimMoves, MoveSimulated DEF Alone
  <2>5. ASSUME NEW t \in Tasks, NEW r \in Runners, Decided(t, r)
        PROVE  Queue!QNext
    BY <2>5, WriteMoves, MoveSimulated DEF Alone, VerdictInv, Decided
  <2> QED
    BY <2>2, <2>3, <2>4, <2>5, RowMoves DEF VerdictInv
<1> QED
  BY <1>1, <1>2, VerdictSteps

(* Where downloads run one at a time and no request comes between, the     *)
(* scheduler, its recoveries and its crashes implement the queue: no task  *)
(* leaves its verdict, none is executed more than MaxAttempts times but    *)
(* for those that were lost, and a batch gets one verdict, the right one,  *)
(* when its last task has its own (JobRunner.kt, JobScheduler.kt).  With   *)
(* two coroutines of one batch this is not so: see stale_running.          *)
THEOREM QueueImplemented ==
  /\ Requests = {} /\ ~Overtaking /\ ~SlowHandlers
  /\ GlobalLimit = 1 /\ HighPriority = {} /\ InitialBatches = Batches
  => (Spec => ImplementsQueue)
<1> SUFFICES ASSUME Requests = {}, ~Overtaking, ~SlowHandlers,
                    GlobalLimit = 1, HighPriority = {}, InitialBatches = Batches
             PROVE  Spec => ImplementsQueue
  OBVIOUS
<1>1. Init => SingleFits /\ Queue!QInit
  <2> SUFFICES ASSUME Init PROVE SingleFits /\ Queue!QInit
    OBVIOUS
  <2>1. /\ \A t \in Tasks : task[t] = NewRow
        /\ \A b \in Batches : batch[b] = "PENDING"
        /\ \A r \in Runners : runner[r].pc = "idle"
    BY BatchOfAssumption DEF Init, Idle
  <2>2. SingleFits
    BY <2>1 DEF SingleFits, Syncs, NewRow, Absent
  <2>3. Queue!QInit
    BY <2>1 DEF Queue!QInit, Queue!Open, NewRow, Completed
  <2> QED
    BY <2>2, <2>3
<1>2. TypeInv /\ ConcurrencyBound => Single
  BY BoundIsOne
<1>3. Alone /\ VerdictInv /\ Single /\ SingleFits /\ [Next]_vars => SingleFits'
  BY SingleFitsStep
<1>4. Alone /\ VerdictInv /\ Single /\ SingleFits /\ [Next]_vars
        => [Queue!QNext]_(Queue!qvars)
  BY StepSimulated
<1>5. Spec => [](Alone /\ VerdictInv)
  BY VerdictInvariant
<1> QED
  BY <1>1, <1>2, <1>3, <1>4, <1>5, TypeInvariant, ConcurrencyBounded, PTL
     DEF Spec, ImplementsQueue, Queue!QSpec
=============================================================================
