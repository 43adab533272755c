---------------------------- MODULE JobScheduler ----------------------------
(***************************************************************************)
(* The download scheduler of Bunori: the polling loop of JobScheduler, the *)
(* JobRunner coroutines it launches, and the requests of the user, which   *)
(* reach the same two tables through BatchRepository and, a second time,   *)
(* through SchedulerService and the scheduler's own coroutines.            *)
(*                                                                         *)
(* A step is one SQL statement or one access to the scheduler's in-memory  *)
(* maps, with the straight-line code around it: everything between two     *)
(* such points can be overtaken by the other coroutines, which run on the  *)
(* threads of Dispatchers.Default.                                         *)
(***************************************************************************)
EXTENDS JobStore, Sequences

CONSTANTS
  Runners,         (* names for the coroutines launchReadyJobs starts      *)
  Clients,         (* coroutines that carry out a request of the user      *)
  None,
  HighPriority,    (* tasks with priority >= 5 or of type NOVEL_METADATA   *)
  GlobalLimit,     (* the user's maxConcurrentJobs                         *)
  CrawlerLimit,    (* runnerConcurrency of each source, here at most the   *)
                   (* global limit: a larger one would replace globalPool  *)
  MaxAttempts,     (* maxAttemptsFor(task)                                 *)
  Outcomes,        (* the answers of handlers that are considered          *)
  Requests,        (* the kinds of request users make                      *)
  MaxRequests,     (* bound: how many requests                             *)
  MaxCrashes,      (* bound: how many times the process dies               *)
  InitialBatches,  (* batches in the database when the app starts          *)
  SlowHandlers,    (* can an execution outlast the lease?                  *)
  Overtaking       (* can a runner's end overtake the polling loop between *)
                   (* the query of the runnable tasks and the end of       *)
                   (* launchReadyJobs, or be overtaken by it half-way?     *)

Reserved == 1      (* WorkerPool.reservedHighPrioritySlots                 *)

RequestKinds ==
  {"create", "pause", "resume", "replay", "cancel", "replayTask", "cancelTask"}

ASSUME LimitAssumption ==
  /\ GlobalLimit \in Nat \ {0}
  /\ CrawlerLimit \in [Crawlers -> Nat \ {0}]
  /\ \A c \in Crawlers : CrawlerLimit[c] <= GlobalLimit
  /\ MaxAttempts \in Nat \ {0}
ASSUME BoundAssumption ==
  /\ MaxRequests \in Nat /\ MaxCrashes \in Nat
  /\ Outcomes \subseteq JobResult /\ Requests \subseteq RequestKinds
  /\ InitialBatches \subseteq Batches /\ HighPriority \subseteq Tasks
  /\ SlowHandlers \in BOOLEAN /\ Overtaking \in BOOLEAN
ASSUME RunnersAssumption ==
  /\ IsFiniteSet(Runners) /\ Cardinality(Runners) >= GlobalLimit + Reserved
  /\ None \notin Runners \cup Tasks \cup JobStatus \cup {"dead"}

VARIABLES
  (* the database, which survives the process                              *)
  task,            (* table tasks                                          *)
  batch,           (* table batches                                        *)
  (* the memory of JobScheduler                                            *)
  activeJobs,      (* the map from a task's id to its Job                  *)
  blockedCrawlers,
  globalPool,      (* activeCount of the global pool                       *)
  crawlerPools,    (* activeCount of each source's pool                    *)
  (* the coroutines                                                        *)
  poll,            (* the polling loop                                     *)
  runner,          (* the launched jobs                                    *)
  script,          (* what a request still has to do, per client           *)
  (* the bounds' counters                                                  *)
  requests, crashes

store == <<task, batch>>
pools == <<globalPool, crawlerPools>>
vars  == <<task, batch, activeJobs, blockedCrawlers, globalPool, crawlerPools,
           poll, runner, script, requests, crashes>>

-----------------------------------------------------------------------------
(* Coroutine records                                                       *)

(* An entry of activeJobs whose job has already ended.                     *)
Dead == "dead"

(* A runner's program counter; "leaked" is a coroutine cancelled before it *)
(* was dispatched: its body, with the finally block, never runs.           *)
InRun == {"launched", "claimTask", "claimBatch", "limit", "handle", "latest",
          "write", "blockBatch", "blockCrawler", "blockEach", "syncTasks",
          "syncBatch", "syncWrite", "complete", "abort"}
RunnerPc == InRun \cup {"idle", "rethrow", "release", "leaked"}

Kinds == JobResult \cup {"Retry"}

Idle == [pc |-> "idle", task |-> None, cancelled |-> FALSE, attempts |-> 0,
         result |-> "Success", target |-> "PENDING", todo |-> {}]

NotQueued == -1
EmptyQueue == [t \in Tasks |-> NotQueued]

Waiting == [pc |-> "wait", todo |-> {}, task |-> None, target |-> "PENDING",
            queue |-> EmptyQueue, saturated |-> {}, runner |-> None]

PollPc == {"wait", "recover", "recoverWrite", "fetch", "empty", "launch",
           "register", "stopping", "stopped"}

(* One statement of a request: an operation on a batch, with the status it *)
(* writes or the task it concerns.                                         *)
Operations ==
  {"setBatch", "setTasks", "resumeTasks", "resumeBlocked", "resetBatch",
   "resetTask", "cancelTask", "cancelJobs", "unblock", "resumeJob", "start",
   "insertBatch", "insertTasks"}
Statement ==
  {s \in [op : Operations, batch : Batches, arg : JobStatus \cup Tasks \cup {None}] :
     /\ s.op = "setBatch" => s.arg \in JobStatus
     /\ s.op = "setTasks" => s.arg \in {"PAUSED", "CANCELLED"}}

PollState ==
  [pc : PollPc, todo : SUBSET Tasks, task : Tasks \cup {None},
   target : {"PENDING", "CANCELLED", "PAUSED", "BLOCKED"},
   queue : [Tasks -> Nat \cup {NotQueued}],
   saturated : SUBSET Crawlers, runner : Runners \cup {None}]

RunnerState ==
  [pc : RunnerPc, task : Tasks \cup {None}, cancelled : BOOLEAN,
   attempts : Nat, result : Kinds, target : JobStatus, todo : SUBSET Batches]

TypeOK ==
  /\ task \in TaskTable /\ batch \in BatchTable
  /\ activeJobs \in [Tasks -> Runners \cup {None, Dead}]
  /\ blockedCrawlers \subseteq Crawlers
  /\ globalPool \in Nat /\ crawlerPools \in [Crawlers -> Nat]
  /\ poll \in PollState
  /\ runner \in [Runners -> RunnerState]
  /\ script \in [Clients -> Seq(Statement)]
  /\ requests \in 0..MaxRequests /\ crashes \in 0..MaxCrashes

-----------------------------------------------------------------------------
(* The app is started with some batches in the database; the polling loop  *)
(* runs (MainActivity.onCreate, ACTION_START).                             *)
Init ==
  /\ task = [t \in Tasks |-> IF BatchOf[t] \in InitialBatches
                             THEN NewRow ELSE NoRow]
  /\ batch = [b \in Batches |-> IF b \in InitialBatches
                                THEN "PENDING" ELSE Absent]
  /\ activeJobs = [t \in Tasks |-> None]
  /\ blockedCrawlers = {}
  /\ globalPool = 0
  /\ crawlerPools = [c \in Crawlers |-> 0]
  /\ poll = Waiting
  /\ runner = [r \in Runners |-> Idle]
  /\ script = [c \in Clients |-> <<>>]
  /\ requests = 0
  /\ crashes = 0

-----------------------------------------------------------------------------
(* The polling loop: schedule() and launchReadyJobs().                     *)

pollVars == <<activeJobs, blockedCrawlers, globalPool, crawlerPools, runner>>
others   == <<script, requests, crashes>>

(* A token on the trigger channel or the polling interval: the interval    *)
(* alone wakes the loop for ever.  recoverAbandoned then reads the RUNNING *)
(* tasks; isExpired is a function of what it read.                         *)
Wake ==
  /\ poll.pc = "wait"
  /\ poll' = [poll EXCEPT
                !.pc = "recover",
                !.todo = {t \in getRunningTasks(task) : task[t].age = "expired"}]
  /\ UNCHANGED <<store, pollVars, others>>

(* Changed: an abandoned task follows its batch, whatever its status.      *)
batchStatusForTask(b) == IF batch[b] = Absent THEN "PENDING" ELSE batch[b]

(* The status an abandoned task gets, by the status of its batch.          *)
recoveredStatus(b) ==
  IF batch[b] \in {"CANCELLED", "PAUSED", "BLOCKED"} THEN batch[b]
  ELSE "PENDING"

RecoverAbandoned(t) ==
  /\ poll.pc = "recover"
  /\ t \in poll.todo
  /\ poll' = IF activeJobs[t] # None
             THEN [poll EXCEPT !.todo = @ \ {t}]
             ELSE [poll EXCEPT !.pc = "recoverWrite", !.task = t,
                               !.todo = @ \ {t},
                               !.target = recoveredStatus(BatchOf[t])]
  /\ UNCHANGED <<store, pollVars, others>>

RecoverWrite ==
  /\ poll.pc = "recoverWrite"
  /\ task' = updateTaskStatus(task, poll.task, poll.target)
  /\ poll' = [poll EXCEPT !.pc = "recover", !.task = None, !.target = "PENDING"]
  /\ UNCHANGED <<batch, pollVars, others>>

(* blockedCrawlers := the sources of the BLOCKED batches.                  *)
SyncBlocked ==
  /\ poll.pc = "recover"
  /\ poll.todo = {}
  /\ blockedCrawlers' =
       {CrawlerOf[b] : b \in getBlockedBatches(batch)} \ {NoCrawler}
  /\ poll' = [poll EXCEPT !.pc = "fetch"]
  /\ UNCHANGED <<store, activeJobs, pools, runner, others>>

(* Changed: without activeJobs.isEmpty().                                  *)
FetchIgnoringActive ==
  /\ poll.pc = "fetch"
  /\ LET runnable == getRunnableTasks(task, batch)
     IN poll' = [poll EXCEPT
                   !.pc = IF runnable = {} THEN "empty" ELSE "launch",
                   !.queue = [t \in Tasks |-> IF t \in runnable
                                THEN task[t].attempts ELSE NotQueued],
                   !.saturated = blockedCrawlers]
  /\ UNCHANGED <<store, pollVars, others>>

FetchRunnable ==
  /\ poll.pc = "fetch"
  /\ LET runnable == getRunnableTasks(task, batch)
         idle     == \A t \in Tasks : activeJobs[t] = None
     IN poll' = [poll EXCEPT
                   !.pc = IF idle /\ runnable = {} THEN "empty" ELSE "launch",
                   !.queue = [t \in Tasks |-> IF t \in runnable
                                THEN task[t].attempts ELSE NotQueued],
                   !.saturated = blockedCrawlers]
  /\ UNCHANGED <<store, pollVars, others>>

(* With nothing to do and no active batch the listener calls stopSelf().   *)
CheckEmpty ==
  /\ poll.pc = "empty"
  /\ poll' = IF hasActiveOrPendingBatches(batch) THEN Waiting
             ELSE [Waiting EXCEPT !.pc = "stopping"]
  /\ UNCHANGED <<store, pollVars, others>>

(* ReadyQueue.pop gives the next queued task of a source that is not       *)
(* saturated; which one is left open here.                                 *)
Popped(t) ==
  /\ poll.pc = "launch"
  /\ poll.queue[t] # NotQueued
  /\ crawlerName(t) \notin poll.saturated

(* Changed: off by one.                                                    *)
tryAcquireOneMore(activeCount, baseLimit, t) ==
  activeCount <= baseLimit + IF t \in HighPriority THEN Reserved ELSE 0

tryAcquire(activeCount, baseLimit, t) ==
  activeCount < baseLimit + IF t \in HighPriority THEN Reserved ELSE 0

globalRoom(t) == tryAcquire(globalPool, GlobalLimit, t)
crawlerRoom(t) ==
  crawlerName(t) # NoCrawler =>
    tryAcquire(crawlerPools[crawlerName(t)], CrawlerLimit[crawlerName(t)], t)

(* No runner is between its two removals from activeJobs.                  *)
NotOvertaken == Overtaking \/ \A r \in Runners : runner[r].pc # "rethrow"

SkipActive(t) ==
  /\ Popped(t)
  /\ activeJobs[t] # None
  /\ poll' = [poll EXCEPT !.queue[t] = NotQueued]
  /\ UNCHANGED <<store, pollVars, others>>

(* The global pool is full: the cycle ends.                                *)
PoolFull(t) ==
  /\ Popped(t)
  /\ activeJobs[t] = None
  /\ ~globalRoom(t)
  /\ poll' = Waiting
  /\ UNCHANGED <<store, pollVars, others>>

(* Changed: the slot of the global pool is not given back.                 *)
SaturateAndLeak(t) ==
  /\ Popped(t)
  /\ activeJobs[t] = None
  /\ globalRoom(t) /\ ~crawlerRoom(t)
  /\ t \notin HighPriority
  /\ globalPool' = globalPool + 1
  /\ poll' = [poll EXCEPT !.saturated = @ \cup {crawlerName(t)}]
  /\ UNCHANGED <<store, activeJobs, blockedCrawlers, crawlerPools, runner, others>>

(* The source's pool is full: no further background task of that source    *)
(* in this cycle.  (A high-priority task is pushed back and popped again   *)
(* until there is room: a step that changes nothing.)                      *)
Saturate(t) ==
  /\ Popped(t)
  /\ activeJobs[t] = None
  /\ globalRoom(t) /\ ~crawlerRoom(t)
  /\ t \notin HighPriority
  /\ poll' = [poll EXCEPT !.saturated = @ \cup {crawlerName(t)}]
  /\ UNCHANGED <<store, pollVars, others>>

(* Changed: without the look into activeJobs.                              *)
LaunchAgain(t, r) ==
  /\ Popped(t)
  /\ globalRoom(t) /\ crawlerRoom(t)
  /\ runner[r].pc = "idle"
  /\ runner' = [runner EXCEPT ![r] =
                  [Idle EXCEPT !.pc = "launched", !.task = t,
                               !.attempts = poll.queue[t]]]
  /\ globalPool' = globalPool + 1
  /\ crawlerPools' = IF crawlerName(t) = NoCrawler THEN crawlerPools
                     ELSE [crawlerPools EXCEPT ![crawlerName(t)] = @ + 1]
  /\ poll' = [poll EXCEPT !.pc = "register", !.runner = r, !.task = t,
                          !.queue[t] = NotQueued]
  /\ UNCHANGED <<store, activeJobs, blockedCrawlers, others>>

Launch(t, r) ==
  /\ Popped(t)
  /\ NotOvertaken
  /\ activeJobs[t] = None
  /\ globalRoom(t) /\ crawlerRoom(t)
  /\ runner[r].pc = "idle"
  /\ runner' = [runner EXCEPT ![r] =
                  [Idle EXCEPT !.pc = "launched", !.task = t,
                               !.attempts = poll.queue[t]]]
  /\ globalPool' = globalPool + 1
  /\ crawlerPools' = IF crawlerName(t) = NoCrawler THEN crawlerPools
                     ELSE [crawlerPools EXCEPT ![crawlerName(t)] = @ + 1]
  /\ poll' = [poll EXCEPT !.pc = "register", !.runner = r, !.task = t,
                          !.queue[t] = NotQueued]
  /\ UNCHANGED <<store, activeJobs, blockedCrawlers, others>>

(* activeJobs[task.id] = job, after the job has been launched.             *)
Register ==
  /\ poll.pc = "register"
  /\ activeJobs' = [activeJobs EXCEPT ![poll.task] =
                      IF runner[poll.runner].pc = "idle" THEN Dead
                      ELSE poll.runner]
  /\ poll' = [poll EXCEPT !.pc = "launch", !.runner = None, !.task = None]
  /\ UNCHANGED <<store, blockedCrawlers, pools, runner, others>>

EndOfCycle ==
  /\ poll.pc = "launch"
  /\ \A t \in Tasks : ~Popped(t)
  /\ poll' = Waiting
  /\ UNCHANGED <<store, pollVars, others>>

Poll ==
  \/ Wake \/ RecoverWrite \/ SyncBlocked \/ FetchRunnable \/ CheckEmpty
  \/ Register \/ EndOfCycle
  \/ \E t \in Tasks :
       \/ RecoverAbandoned(t) \/ SkipActive(t) \/ PoolFull(t) \/ Saturate(t)
       \/ \E r \in Runners : Launch(t, r)

-----------------------------------------------------------------------------
(* JobRunner.run(task), one coroutine per launched task.                   *)

runnerVars == <<activeJobs, blockedCrawlers, globalPool, crawlerPools>>

(* The pcs at which the next thing the coroutine does is to suspend: there *)
(* a cancelled one throws CancellationException instead.                   *)
Suspending == InRun \ {"handle", "complete", "abort"}

At(r, pc) == runner[r].pc = pc /\ (pc \in Suspending => ~runner[r].cancelled)
Become(r, next) == runner' = [runner EXCEPT ![r] = next]
Goto(r, pc) == Become(r, [runner[r] EXCEPT !.pc = pc])

rowOf(r) == task[runner[r].task]
batchOf(r) == BatchOf[runner[r].task]

(* Lines 30-33.                                                            *)
PreClaim(r) ==
  /\ At(r, "launched")
  /\ Goto(r, IF rowOf(r).status \in {Absent, "CANCELLED", "PAUSED"}
             THEN "complete" ELSE "claimTask")
  /\ UNCHANGED <<store, runnerVars, poll, others>>

(* The claim: transition() of the status the task had when it was fetched, *)
(* PENDING.                                                                *)
ClaimTask(r) ==
  /\ At(r, "claimTask")
  /\ task' = updateTaskStatus(task, runner[r].task,
                              transition("PENDING", "CLAIMED"))
  /\ Goto(r, "claimBatch")
  /\ UNCHANGED <<batch, runnerVars, poll, others>>

ClaimBatch(r) ==
  /\ At(r, "claimBatch")
  /\ batch' = updateBatchStatus(batch, batchOf(r), "RUNNING")
  /\ Goto(r, "limit")
  /\ UNCHANGED <<task, runnerVars, poll, others>>

(* The wait of SourceRateLimiter.acquire, then lines 55-58.                *)
PreExec(r) ==
  /\ At(r, "limit")
  /\ Goto(r, IF rowOf(r).status \in {"CANCELLED", "PAUSED"}
             THEN "complete" ELSE "handle")
  /\ UNCHANGED <<store, runnerVars, poll, others>>

(* The handler answers, or throws: the catch block then fails the task     *)
(* with the attempts counted when it was fetched.                          *)
Handle(r, result) ==
  /\ At(r, "handle")
  /\ result \in Outcomes
  /\ IF result = "Throw" /\ ~runner[r].cancelled
     THEN Become(r, [runner[r] EXCEPT !.pc = "write", !.result = "Fatal",
                                      !.attempts = @ + 1])
     ELSE Become(r, [runner[r] EXCEPT !.pc = "latest", !.result = result])
  /\ UNCHANGED <<store, runnerVars, poll, others>>

(* Changed: the row as it is, deleted or not.                              *)
readBackAnyway(row, fetched) == row

(* getTaskById(task.id) ?: task -- the row, or what was fetched of it.     *)
readBack(row, fetched) ==
  IF row.status = Absent THEN [NewRow EXCEPT !.attempts = fetched] ELSE row

(* Lines 62-97 up to the write: the row is read once more and the outcome  *)
(* decided on what was read.                                               *)
Latest(r) ==
  /\ At(r, "latest")
  /\ LET latest   == readBack(rowOf(r), runner[r].attempts)
         status   == latest.status
         attempts == latest.attempts + 1
         result   == runner[r].result
         counted(kind) == [runner[r] EXCEPT !.pc = "write", !.result = kind,
                                            !.attempts = attempts]
         moved(event)  == [runner[r] EXCEPT !.pc = "write",
                                    !.target = transition(status, event)]
     IN Become(r,
          CASE status \in {"CANCELLED", "PAUSED"} ->
                 [runner[r] EXCEPT !.pc = "complete"]
            [] result = "Cancelled" -> moved("CANCEL_REQUESTED")
            [] result = "Blocked"   -> moved("BLOCKED_BY_PROTECTION")
            [] canRetry(result, attempts, MaxAttempts) -> counted("Retry")
            [] result = "Success"   -> [runner[r] EXCEPT !.pc = "write"]
            [] OTHER -> counted("Fatal"))
  /\ UNCHANGED <<store, runnerVars, poll, others>>

(* markSuccess, markFailed, markRetrying, markCancelled or markBlocked.    *)
Write(r) ==
  /\ At(r, "write")
  /\ LET t == runner[r].task
         n == runner[r].attempts
     IN CASE runner[r].result = "Success" ->
               /\ task' = updateTaskStatus(task, t, "SUCCESS")
               /\ Goto(r, "syncTasks")
          [] runner[r].result = "Fatal" ->
               /\ task' = markFailed(task, t, n)
               /\ Goto(r, "syncTasks")
          [] runner[r].result = "Cancelled" ->
               /\ task' = updateTaskStatus(task, t, runner[r].target)
               /\ Goto(r, "syncTasks")
          [] runner[r].result = "Blocked" ->
               /\ task' = updateTaskStatus(task, t, runner[r].target)
               /\ Goto(r, "blockBatch")
          [] OTHER ->
               /\ task' = markRetrying(task, t, n)
               /\ Goto(r, "complete")
  /\ UNCHANGED <<batch, runnerVars, poll, others>>

(* markBlocked goes on with the batch, and blockCrawler with every active  *)
(* batch of the source, one after the other.                               *)
BlockBatch(r) ==
  /\ At(r, "blockBatch")
  /\ batch' = updateBatchStatus(batch, batchOf(r), runner[r].target)
  /\ Goto(r, "blockCrawler")
  /\ UNCHANGED <<task, runnerVars, poll, others>>

BlockCrawler(r) ==
  /\ At(r, "blockCrawler")
  /\ LET crawler == CrawlerOf[batchOf(r)]
     IN \/ /\ crawler = NoCrawler
           /\ Goto(r, "complete")
           /\ UNCHANGED blockedCrawlers
        \/ /\ crawler # NoCrawler
           /\ blockedCrawlers' = blockedCrawlers \cup {crawler}
           /\ Become(r, [runner[r] EXCEPT !.pc = "blockEach",
                 !.todo = {b \in getActiveBatches(batch) : CrawlerOf[b] = crawler}])
  /\ UNCHANGED <<store, activeJobs, pools, poll, others>>

BlockEach(r) ==
  /\ At(r, "blockEach")
  /\ \/ \E b \in runner[r].todo :
          /\ batch' = updateBatchStatus(batch, b, "BLOCKED")
          /\ Become(r, [runner[r] EXCEPT !.todo = @ \ {b}])
     \/ /\ runner[r].todo = {}
        /\ Goto(r, "complete")
        /\ UNCHANGED batch
  /\ UNCHANGED <<task, runnerVars, poll, others>>

(* syncBatchCompletion: reads the tasks of the batch, reads the batch, and *)
(* writes what follows from the two.  target is the status to write; when  *)
(* the tasks leave nothing to write, reading the batch changes nothing.    *)
SyncTasks(r) ==
  /\ At(r, "syncTasks")
  /\ LET rows     == Rows(task, batchOf(r))
         statuses == {task[t].status : t \in rows}
         decided(status) == [runner[r] EXCEPT !.pc = "syncBatch",
                                              !.target = status]
     IN Become(r,
          CASE rows = {} -> [runner[r] EXCEPT !.pc = "complete"]
            [] rows # {} /\ (\A s \in statuses : Completed(s)) ->
                 decided(finalStatus(statuses))
            [] "RUNNING" \in statuses -> decided("RUNNING")
            [] OTHER -> [runner[r] EXCEPT !.pc = "complete"])
  /\ UNCHANGED <<store, runnerVars, poll, others>>

SyncBatch(r) ==
  /\ At(r, "syncBatch")
  /\ LET read == batch[batchOf(r)]
     IN Goto(r, IF \/ read \in {Absent, "CANCELLED", "PAUSED", "BLOCKED"}
                   \/ runner[r].target = "RUNNING" /\ read = "RUNNING"
                THEN "complete" ELSE "syncWrite")
  /\ UNCHANGED <<store, runnerVars, poll, others>>

SyncWrite(r) ==
  /\ At(r, "syncWrite")
  /\ batch' = updateBatchStatus(batch, batchOf(r), runner[r].target)
  /\ Goto(r, "complete")
  /\ UNCHANGED <<task, runnerVars, poll, others>>

(* A cancelled runner throws at its next suspension point.  The reads and  *)
(* writes of its catch block are suspending calls of the same cancelled    *)
(* coroutine: runCatching swallows the exception of the first of them.     *)
Abort(r) ==
  /\ runner[r].cancelled
  /\ runner[r].pc \in Suspending
  /\ Goto(r, "abort")
  /\ UNCHANGED <<store, runnerVars, poll, others>>

(* ... and a coroutine cancelled before it was dispatched does not run.    *)
NeverStarted(r) ==
  /\ runner[r].cancelled
  /\ runner[r].pc = "launched"
  /\ Goto(r, "leaked")
  /\ UNCHANGED <<store, runnerVars, poll, others>>

(* run()'s finally block: onComplete, the removal from activeJobs.         *)
Complete(r) ==
  /\ runner[r].pc \in {"complete", "abort"}
  /\ Overtaking \/ poll.pc \notin {"launch", "register"}
  /\ activeJobs' = [activeJobs EXCEPT ![runner[r].task] = None]
  /\ Goto(r, IF runner[r].pc = "abort" THEN "rethrow" ELSE "release")
  /\ UNCHANGED <<store, blockedCrawlers, pools, poll, others>>

(* The launched block's catch of the exception: a second removal.          *)
Rethrow(r) ==
  /\ runner[r].pc = "rethrow"
  /\ activeJobs' = [activeJobs EXCEPT ![runner[r].task] = None]
  /\ Goto(r, "release")
  /\ UNCHANGED <<store, blockedCrawlers, pools, poll, others>>

(* The launched block's finally: both pools get the slot back.             *)
release(activeCount) == IF activeCount > 0 THEN activeCount - 1 ELSE 0

Release(r) ==
  /\ runner[r].pc = "release"
  /\ LET c == crawlerName(runner[r].task)
     IN crawlerPools' = IF c = NoCrawler THEN crawlerPools
                        ELSE [crawlerPools EXCEPT ![c] = release(@)]
  /\ globalPool' = release(globalPool)
  /\ activeJobs' = [t \in Tasks |-> IF activeJobs[t] = r THEN Dead
                                    ELSE activeJobs[t]]
  /\ Become(r, Idle)
  /\ UNCHANGED <<store, blockedCrawlers, poll, others>>

Run(r) ==
  \/ PreClaim(r) \/ ClaimTask(r) \/ ClaimBatch(r) \/ PreExec(r)
  \/ \E result \in JobResult : Handle(r, result)
  \/ Latest(r) \/ Write(r)
  \/ BlockBatch(r) \/ BlockCrawler(r) \/ BlockEach(r)
  \/ SyncTasks(r) \/ SyncBatch(r) \/ SyncWrite(r)
  \/ Abort(r) \/ NeverStarted(r) \/ Complete(r) \/ Rethrow(r) \/ Release(r)

-----------------------------------------------------------------------------
(* Requests: BatchRepository's statements, then those of the scheduler     *)
(* coroutine that SchedulerService.onStartCommand starts for the intent.   *)

Do(op, b, arg) == [op |-> op, batch |-> b, arg |-> arg]

(* pauseBatch and pauseJob; cancelBatch and cancelActiveJob.               *)
stopScript(b, status) ==
  << Do("setBatch", b, status), Do("setTasks", b, status),
     Do("setBatch", b, status), Do("setTasks", b, status),
     Do("cancelJobs", b, None) >>

(* resumeBatch, whose two intents reach unblockCrawler and resumeJob.      *)
resumeScript(b) ==
  << Do("setBatch", b, "RUNNING"), Do("resumeTasks", b, None) >>
  \o (IF CrawlerOf[b] = NoCrawler THEN <<>>
      ELSE << Do("resumeBlocked", b, None), Do("unblock", b, None) >>)
  \o << Do("resumeJob", b, None) >>

(* replayBatch and replayJob.                                              *)
replayScript(b) ==
  << Do("setBatch", b, "PENDING"), Do("resetBatch", b, None),
     Do("setBatch", b, "PENDING"), Do("resetBatch", b, None),
     Do("start", b, None) >>

(* replayTasks; cancelTasks, which sends the task's id where cancelActiveJob *)
(* expects a batch: no row and no job answer to it.                        *)
replayTaskScript(t) ==
  << Do("resetTask", BatchOf[t], t), Do("setBatch", BatchOf[t], "PENDING"),
     Do("start", BatchOf[t], None), Do("resumeJob", BatchOf[t], None) >>
cancelTaskScript(t) == << Do("cancelTask", BatchOf[t], t) >>

(* NovelViewModel.downloadChapters and its like.  The ids of metadata and  *)
(* single-chapter batches are fixed: a second one replaces the first.      *)
createScript(b) ==
  << Do("insertBatch", b, None), Do("insertTasks", b, None),
     Do("start", b, None) >>

(* The tasks of a request belong to a batch the user sees in the list.     *)
Request(c) ==
  /\ script[c] = <<>>
  /\ requests < MaxRequests
  /\ requests' = requests + 1
  /\ \E kind \in Requests :
       \/ /\ kind \in {"create", "pause", "resume", "replay", "cancel"}
          /\ \E b \in Batches :
               /\ batch[b] = Absent => kind = "create"
               /\ script' = [script EXCEPT ![c] =
                    CASE kind = "create" -> createScript(b)
                      [] kind = "pause"  -> stopScript(b, "PAUSED")
                      [] kind = "resume" -> resumeScript(b)
                      [] kind = "replay" -> replayScript(b)
                      [] kind = "cancel" -> stopScript(b, "CANCELLED")]
       \/ /\ kind \in {"replayTask", "cancelTask"}
          /\ \E t \in Tasks :
               /\ task[t].status # Absent
               /\ script' = [script EXCEPT ![c] =
                    IF kind = "replayTask" THEN replayTaskScript(t)
                    ELSE cancelTaskScript(t)]
  /\ UNCHANGED <<store, activeJobs, blockedCrawlers, pools, poll, runner, crashes>>

(* scheduler.start(): nothing, but for a loop that is not running.         *)
started == IF poll.pc = "stopped" THEN Waiting ELSE poll

SetBatch(c, s) ==
  /\ s.op = "setBatch"
  /\ batch' = updateBatchStatus(batch, s.batch, s.arg)
  /\ script' = [script EXCEPT ![c] = Tail(@)]
  /\ UNCHANGED <<task, pollVars, poll>>

SetTasks(c, s) ==
  /\ \/ /\ s.op = "setTasks"
        /\ task' = updateUnfinishedStatusForBatch(task, s.batch, s.arg)
     \/ /\ s.op = "resumeTasks"
        /\ task' = resumeTasksForBatch(task, s.batch)
     \/ /\ s.op = "resetBatch"
        /\ task' = resetTasks(task, TasksOf(s.batch))
     \/ /\ s.op = "resetTask"
        /\ task' = resetTasks(task, {s.arg})
     \/ /\ s.op = "cancelTask"
        /\ task' = cancelTasks(task, {s.arg})
     \/ /\ s.op = "insertTasks"
        /\ task' = insertTasks(task, s.batch)
  /\ script' = [script EXCEPT ![c] = Tail(@)]
  /\ UNCHANGED <<batch, pollVars, poll>>

InsertBatch(c, s) ==
  /\ s.op = "insertBatch"
  /\ batch' = [batch EXCEPT ![s.batch] = "PENDING"]
  /\ task' = cascadeTasks(task, s.batch)
  /\ script' = [script EXCEPT ![c] = Tail(@)]
  /\ UNCHANGED <<pollVars, poll>>

(* Changed: activeJobs.remove(it.id)?.cancel().                            *)
RemoveJobs(c, s) ==
  /\ s.op = "cancelJobs"
  /\ runner' = [r \in Runners |->
       IF \E t \in Rows(task, s.batch) : activeJobs[t] = r
       THEN [runner[r] EXCEPT !.cancelled = TRUE] ELSE runner[r]]
  /\ activeJobs' = [t \in Tasks |-> IF BatchOf[t] = s.batch THEN None
                                    ELSE activeJobs[t]]
  /\ script' = [script EXCEPT ![c] = Tail(@)]
  /\ UNCHANGED <<store, blockedCrawlers, pools, poll>>

(* activeJobs[it.id]?.cancel() for the tasks of the batch.                 *)
CancelJobs(c, s) ==
  /\ s.op = "cancelJobs"
  /\ runner' = [r \in Runners |->
       IF \E t \in Rows(task, s.batch) : activeJobs[t] = r
       THEN [runner[r] EXCEPT !.cancelled = TRUE] ELSE runner[r]]
  /\ script' = [script EXCEPT ![c] = Tail(@)]
  /\ UNCHANGED <<store, activeJobs, blockedCrawlers, pools, poll>>

(* The BLOCKED batches of the source are read and resumed one by one, first *)
(* in resumeBatch, then again in unblockCrawler, which ends with start().  *)
siblings(b) == {x \in getBlockedBatches(batch) : CrawlerOf[x] = CrawlerOf[b]}
orders(S) ==
  {f \in [1..Cardinality(S) -> S] : \A x \in S : \E i \in DOMAIN f : f[i] = x}
resumeAll(order) ==
  [i \in 1..(2 * Len(order)) |->
     IF i % 2 = 1 THEN Do("setBatch", order[(i + 1) \div 2], "RUNNING")
     ELSE Do("resumeTasks", order[i \div 2], None)]

ResumeBlocked(c, s) ==
  /\ s.op = "resumeBlocked"
  /\ \E order \in orders(siblings(s.batch)) :
       script' = [script EXCEPT ![c] = resumeAll(order) \o Tail(@)]
  /\ UNCHANGED <<store, pollVars, poll>>

Unblock(c, s) ==
  /\ s.op = "unblock"
  /\ blockedCrawlers' = blockedCrawlers \ {CrawlerOf[s.batch]}
  /\ script' = [script EXCEPT ![c] =
       << Do("resumeBlocked", s.batch, None), Do("start", s.batch, None) >>
       \o Tail(@)]
  /\ UNCHANGED <<store, activeJobs, pools, poll, runner>>

ResumeJob(c, s) ==
  /\ s.op = "resumeJob"
  /\ script' = [script EXCEPT ![c] =
       IF batch[s.batch] # Absent /\ CrawlerOf[s.batch] \in blockedCrawlers
       THEN << Do("unblock", s.batch, None) >>
       ELSE << Do("setBatch", s.batch, "RUNNING"),
               Do("resumeTasks", s.batch, None), Do("start", s.batch, None) >>]
  /\ UNCHANGED <<store, pollVars, poll>>

Start(c, s) ==
  /\ s.op = "start"
  /\ poll' = started
  /\ script' = [script EXCEPT ![c] = Tail(@)]
  /\ UNCHANGED <<store, pollVars>>

Step(c) ==
  /\ script[c] # <<>>
  /\ LET s == Head(script[c])
     IN \/ SetBatch(c, s) \/ SetTasks(c, s) \/ InsertBatch(c, s)
        \/ CancelJobs(c, s) \/ ResumeBlocked(c, s) \/ Unblock(c, s)
        \/ ResumeJob(c, s) \/ Start(c, s)
  /\ UNCHANGED <<requests, crashes>>

-----------------------------------------------------------------------------
(* Time: a retry's updatedAt comes due, a running task's becomes older than *)
(* the lease.                                                              *)

live(t) == \E r \in Runners : runner[r].pc \in InRun /\ runner[r].task = t

BackoffElapses(t) ==
  /\ task[t].age = "later"
  /\ task' = [task EXCEPT ![t].age = "fresh"]
  /\ UNCHANGED <<batch, pollVars, poll, others>>

LeaseExpires(t) ==
  /\ task[t].status = "RUNNING" /\ task[t].age = "fresh"
  /\ SlowHandlers \/ ~live(t)
  /\ task' = [task EXCEPT ![t].age = "expired"]
  /\ UNCHANGED <<batch, pollVars, poll, others>>

(* The process: stopSelf() takes effect and onDestroy stops the loop; the  *)
(* memory goes with the service's scheduler.  (That a runner can survive   *)
(* the service is left to the service's own module.)                       *)
emptyMemory ==
  /\ activeJobs' = [t \in Tasks |-> None]
  /\ blockedCrawlers' = {}
  /\ globalPool' = 0
  /\ crawlerPools' = [c \in Crawlers |-> 0]
  /\ runner' = [r \in Runners |-> Idle]
  /\ poll' = [Waiting EXCEPT !.pc = "stopped"]

ServiceDestroy ==
  /\ poll.pc = "stopping"
  /\ \A t \in Tasks : ~live(t)
  /\ emptyMemory
  /\ UNCHANGED <<store, others>>

(* The process is killed; requests under way are lost with it.             *)
Crash ==
  /\ crashes < MaxCrashes
  /\ crashes' = crashes + 1
  /\ emptyMemory
  /\ script' = [c \in Clients |-> <<>>]
  /\ UNCHANGED <<store, requests>>

(* The user opens the app: MainActivity.onCreate starts the service.       *)
AppStart ==
  /\ poll.pc = "stopped"
  /\ poll' = Waiting
  /\ UNCHANGED <<store, pollVars, others>>

Next ==
  \/ Poll
  \/ \E r \in Runners : Run(r)
  \/ \E c \in Clients : Request(c) \/ Step(c)
  \/ \E t \in Tasks : BackoffElapses(t) \/ LeaseExpires(t)
  \/ ServiceDestroy \/ Crash \/ AppStart

Spec == Init /\ [][Next]_vars

(* Coroutines make progress, the clock goes on, and the app is opened again *)
(* some time after it was closed; nobody has to make a request, and        *)
(* nothing has to crash.  Complete is disabled while it may not overtake   *)
(* the polling loop's straight-line code, hence its strong fairness.       *)
Fairness ==
  /\ WF_vars(Poll)
  /\ \A r \in Runners : WF_vars(Run(r)) /\ SF_vars(Complete(r))
  /\ \A c \in Clients : WF_vars(Step(c))
  /\ \A t \in Tasks : WF_vars(BackoffElapses(t)) /\ WF_vars(LeaseExpires(t))
  /\ WF_vars(ServiceDestroy) /\ WF_vars(AppStart)

FairSpec == Spec /\ Fairness

-----------------------------------------------------------------------------
(* Properties                                                              *)

(* Every slot that was acquired is held by exactly one coroutine, and      *)
(* every coroutine holds one slot of the global pool and one of its        *)
(* source's: the two pools neither lose a slot nor hand one out twice, on  *)
(* whichever path a launch or a run ends.                                  *)
Holders == {r \in Runners : runner[r].pc # "idle"}
HoldersOf(c) == {r \in Holders : crawlerName(runner[r].task) = c}

PoolAccounting ==
  /\ globalPool = Cardinality(Holders)
  /\ \A c \in Crawlers : crawlerPools[c] = Cardinality(HoldersOf(c))

(* The number of downloads that run at once stays within the user's limit  *)
(* and each source's, with one further slot that only a high-priority task *)
(* can take.                                                               *)
Background(S) == {r \in S : runner[r].task \notin HighPriority}

ConcurrencyBound ==
  /\ Cardinality(Holders) <= GlobalLimit + Reserved
  /\ Cardinality(Background(Holders)) <= GlobalLimit
  /\ \A c \in Crawlers :
       /\ Cardinality(HoldersOf(c)) <= CrawlerLimit[c] + Reserved
       /\ Cardinality(Background(HoldersOf(c))) <= CrawlerLimit[c]

(* Two coroutines never work on the same task at the same time.            *)
OneRunnerPerTask ==
  \A r1, r2 \in Runners :
    /\ runner[r1].pc \in InRun /\ runner[r2].pc \in InRun
    /\ runner[r1].task = runner[r2].task
    => r1 = r2

(* The service stops itself only when no coroutine is inside run().        *)
StopsWhenIdle ==
  poll.pc \in {"stopping", "stopped"} => \A t \in Tasks : ~live(t)

(* A batch that shows a verdict shows the right one: each of its tasks has *)
(* one too, and the batch's follows from theirs (syncBatchCompletion).     *)
Verdicts == {"SUCCESS", "FAILED", "CANCELLED"}

VerdictMatchesTasks ==
  \A b \in Batches :
    batch[b] \in Verdicts =>
      LET statuses == {task[t].status : t \in Rows(task, b)}
      IN /\ statuses \subseteq Verdicts
         /\ batch[b] = "FAILED" <=> "FAILED" \in statuses
         /\ batch[b] = "SUCCESS" => "SUCCESS" \in statuses

(* A retry is not claimed before its back-off has elapsed.                 *)
BackoffHonoured ==
  [][\A t \in Tasks : task[t].age = "later" => task'[t].status # "RUNNING"]_task

(* Once a task has succeeded only a request that asks for it again (replay, *)
(* or a new batch in the place of the old) takes the success away: no      *)
(* pause, cancellation, recovery or late runner does.                      *)
SuccessIsFinal ==
  [][\A t \in Tasks :
       task[t].status = "SUCCESS" =>
         \/ task'[t].status = "SUCCESS"
         \/ \E c \in Clients :
              /\ script'[c] # script[c]
              /\ Head(script[c]).op \in
                   {"resetBatch", "resetTask", "insertBatch", "insertTasks"}]_vars

(* Every task comes to its end: a verdict, or the BLOCKED state the user   *)
(* has to lift (its own or its batch's).                                   *)
TasksSettle ==
  \A t \in Tasks :
    <>[](\/ task[t].status \in Verdicts
         \/ "BLOCKED" \in {task[t].status, batch[BatchOf[t]]})

(* ... and so does every batch, ...                                        *)
BatchesSettle ==
  \A b \in Batches : <>[](batch[b] \in Verdicts \/ batch[b] = "BLOCKED")

(* ... if the process is not killed: the runner that ends last writes the  *)
(* verdict, whatever the others read and wrote meanwhile.                  *)
BatchesSettleAlive == [](crashes = 0) => BatchesSettle

(* The scheduler implements the queue of DownloadQueue.                    *)
Queue == INSTANCE DownloadQueue WITH
  status   <- [t \in Tasks |-> task[t].status],
  failures <- [t \in Tasks |-> task[t].attempts],
  verdict  <- [b \in Batches |-> IF Completed(batch[b]) THEN batch[b] ELSE "open"]

ImplementsQueue == Queue!QSpec
=============================================================================
