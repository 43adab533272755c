---------------------------- MODULE WorkerPools -----------------------------
(***************************************************************************)
(* The worker pools of JobScheduler and their replacement.  JobScheduler   *)
(* (the module) keeps the limits fixed; here the user changes the maximum  *)
(* number of downloads while some are running, and a source may ask for a  *)
(* larger runnerConcurrency than the user's limit: in both cases the       *)
(* scheduler puts a new, empty pool in the place of the global one, while  *)
(* the jobs that hold slots of the old one go on.                          *)
(*                                                                         *)
(* A job captures its source's pool when it is launched, but reads the     *)
(* field globalPool again, twice, when it ends: the pool that gets a slot  *)
(* back need not be the one it was taken from.                             *)
(***************************************************************************)
EXTENDS Integers, Sequences, FiniteSets

CONSTANTS
  Tasks, Sources,
  SourceOf,           (* a task's crawlerName                              *)
  NoSource,           (* ... null                                          *)
  NoTask,
  RunnerConcurrency,  (* of each source; 0 for one CrawlerFactory does not *)
                      (* know                                              *)
  HighPriority,       (* tasks with priority >= 5 or of type NOVEL_METADATA *)
  Limits,             (* values of the preference maxConcurrentJobs        *)
  InitialLimit,
  MaxChanges          (* bound: how often the user changes it              *)

ASSUME TasksAssumption ==
  /\ IsFiniteSet(Tasks)
  /\ SourceOf \in [Tasks -> Sources \cup {NoSource}] /\ NoSource \notin Sources
  /\ HighPriority \subseteq Tasks /\ NoTask \notin Tasks
ASSUME LimitsAssumption ==
  /\ RunnerConcurrency \in [Sources -> Nat]
  /\ Limits \subseteq Nat \ {0} /\ InitialLimit \in Limits
  /\ MaxChanges \in Nat

Reserved == 1

VARIABLES
  preference,    (* maxConcurrentJobs, as the user set it                  *)
  changes,       (* the bound's counter                                    *)
  limit,         (* currentGlobalLimit                                     *)
  pools,         (* every WorkerPool made so far, the newest last          *)
  globalPool,    (* the field globalPool: a position in pools              *)
  sourcePools,   (* the map crawlerPools: a position, or NoPool           *)
  poll,          (* the polling loop                                       *)
  job            (* of each task: where it is, and its pool                *)

vars == <<preference, changes, limit, pools, globalPool, sourcePools, poll, job>>

NoPool == 0   (* no entry in the map, or no job                            *)

Pool == [base : Nat, active : Nat]
NewPool(base) == [base |-> base, active |-> 0]

PollPc == {"wait", "launch", "global", "source", "giveBack"}
JobPc  == {"queued", "running", "compare", "releaseGlobal", "done"}

TypeOK ==
  /\ preference \in Limits /\ limit \in Limits /\ changes \in 0..MaxChanges
  /\ pools \in Seq(Pool)
  /\ globalPool \in DOMAIN pools
  /\ sourcePools \in [Sources -> DOMAIN pools \cup {NoPool}]
  /\ poll \in [pc : PollPc, task : Tasks \cup {NoTask}, saturated : SUBSET Sources]
  /\ job \in [Tasks -> [pc : JobPc, pool : DOMAIN pools \cup {NoPool}]]

Init ==
  /\ preference = InitialLimit /\ changes = 0 /\ limit = InitialLimit
  /\ pools = << NewPool(InitialLimit) >>
  /\ globalPool = 1
  /\ sourcePools = [s \in Sources |-> NoPool]
  /\ poll = [pc |-> "wait", task |-> NoTask, saturated |-> {}]
  /\ job = [t \in Tasks |-> [pc |-> "queued", pool |-> NoPool]]

-----------------------------------------------------------------------------
(* WorkerPool                                                              *)

hasRoom(p, t) ==
  pools[p].active < pools[p].base + IF t \in HighPriority THEN Reserved ELSE 0

acquire(p) == [pools EXCEPT ![p].active = @ + 1]

release(p) == [pools EXCEPT ![p].active = IF @ > 0 THEN @ - 1 ELSE 0]

-----------------------------------------------------------------------------
(* The polling loop                                                        *)

ChangePreference ==
  /\ changes < MaxChanges
  /\ changes' = changes + 1
  /\ preference' \in Limits \ {preference}
  /\ UNCHANGED <<limit, pools, globalPool, sourcePools, poll, job>>

(* Changed: the sources' pools are cleared in every cycle.                 *)
RefreshAlways ==
  /\ poll.pc = "wait"
  /\ limit' = preference
  /\ sourcePools' = [s \in Sources |-> NoPool]
  /\ poll' = [poll EXCEPT !.pc = "launch", !.saturated = {}]
  /\ UNCHANGED <<preference, changes, pools, globalPool, job>>

(* A cycle begins: schedule() compares the preference with the limit in    *)
(* force, and starts afresh when they differ.                              *)
Refresh ==
  /\ poll.pc = "wait"
  /\ \/ /\ preference = limit
        /\ UNCHANGED <<limit, pools, globalPool, sourcePools>>
     \/ /\ preference # limit
        /\ limit' = preference
        /\ pools' = Append(pools, NewPool(preference))
        /\ globalPool' = Len(pools) + 1
        /\ sourcePools' = [s \in Sources |-> NoPool]
  /\ poll' = [poll EXCEPT !.pc = "launch", !.saturated = {}]
  /\ UNCHANGED <<preference, changes, job>>

Popped(t) ==
  /\ poll.pc = "launch"
  /\ job[t].pc = "queued"
  /\ SourceOf[t] \notin poll.saturated

hasPool(t) ==
  SourceOf[t] # NoSource => sourcePools[SourceOf[t]] # NoPool

(* crawlerPools.getOrPut: the pool of a source is made when its first task *)
(* comes up, and may replace a smaller global pool.                        *)
Pop(t) ==
  /\ Popped(t)
  /\ LET s    == SourceOf[t]
         base == IF RunnerConcurrency[s] = 0 THEN limit ELSE RunnerConcurrency[s]
     IN \/ /\ hasPool(t)
           /\ UNCHANGED <<pools, globalPool, sourcePools>>
        \/ /\ ~hasPool(t)
           /\ base <= pools[globalPool].base
           /\ pools' = Append(pools, NewPool(base))
           /\ sourcePools' = [sourcePools EXCEPT ![s] = Len(pools) + 1]
           /\ UNCHANGED globalPool
        \/ /\ ~hasPool(t)
           /\ base > pools[globalPool].base
           /\ pools' = pools \o << NewPool(base), NewPool(base) >>
           /\ globalPool' = Len(pools) + 1
           /\ sourcePools' = [sourcePools EXCEPT ![s] = Len(pools) + 2]
  /\ poll' = [poll EXCEPT !.pc = "global", !.task = t]
  /\ UNCHANGED <<preference, changes, limit, job>>

poolOf(t) ==
  IF SourceOf[t] = NoSource THEN globalPool ELSE sourcePools[SourceOf[t]]

launched(t) == [job EXCEPT ![t] = [pc |-> "running", pool |-> poolOf(t)]]

(* The global pool first: when it is full the cycle ends.  A task without  *)
(* a source needs no second slot.                                          *)
AcquireGlobal ==
  /\ poll.pc = "global"
  /\ LET t == poll.task
     IN \/ /\ ~hasRoom(globalPool, t)
           /\ poll' = [poll EXCEPT !.pc = "wait", !.task = NoTask]
           /\ UNCHANGED <<pools, job>>
        \/ /\ hasRoom(globalPool, t)
           /\ pools' = acquire(globalPool)
           /\ \/ /\ poolOf(t) # globalPool
                 /\ poll' = [poll EXCEPT !.pc = "source"]
                 /\ UNCHANGED job
              \/ /\ poolOf(t) = globalPool
                 /\ poll' = [poll EXCEPT !.pc = "launch", !.task = NoTask]
                 /\ job' = launched(t)
  /\ UNCHANGED <<preference, changes, limit, globalPool, sourcePools>>

AcquireSource ==
  /\ poll.pc = "source"
  /\ LET t == poll.task
     IN \/ /\ ~hasRoom(poolOf(t), t)
           /\ poll' = [poll EXCEPT !.pc = "giveBack"]
           /\ UNCHANGED <<pools, job>>
        \/ /\ hasRoom(poolOf(t), t)
           /\ pools' = acquire(poolOf(t))
           /\ poll' = [poll EXCEPT !.pc = "launch", !.task = NoTask]
           /\ job' = launched(t)
  /\ UNCHANGED <<preference, changes, limit, globalPool, sourcePools>>

(* Changed: the slot of the global pool is kept.                           *)
KeepSlot ==
  /\ poll.pc = "giveBack"
  /\ poll' = [pc |-> "launch", task |-> NoTask,
              saturated |-> IF poll.task \in HighPriority THEN poll.saturated
                            ELSE poll.saturated \cup {SourceOf[poll.task]}]
  /\ UNCHANGED <<preference, changes, limit, pools, globalPool, sourcePools, job>>

(* The task goes back to the front of its queue; of a source that is full  *)
(* no further background task is popped in this cycle.                     *)
GiveBack ==
  /\ poll.pc = "giveBack"
  /\ pools' = release(globalPool)
  /\ poll' = [pc |-> "launch", task |-> NoTask,
              saturated |-> IF poll.task \in HighPriority THEN poll.saturated
                            ELSE poll.saturated \cup {SourceOf[poll.task]}]
  /\ UNCHANGED <<preference, changes, limit, globalPool, sourcePools, job>>

EndOfCycle ==
  /\ poll.pc = "launch"
  /\ \A t \in Tasks : ~Popped(t)
  /\ poll' = [poll EXCEPT !.pc = "wait"]
  /\ UNCHANGED <<preference, changes, limit, pools, globalPool, sourcePools, job>>

Poll ==
  \/ Refresh \/ AcquireGlobal \/ AcquireSource \/ GiveBack \/ EndOfCycle
  \/ \E t \in Tasks : Pop(t)

-----------------------------------------------------------------------------
(* The end of a job: pool.release(), then, if the pool is not (any more)   *)
(* the global one, globalPool.release().                                   *)

jobVars == <<preference, changes, limit, globalPool, sourcePools, poll>>

ReleasePool(t) ==
  /\ job[t].pc = "running"
  /\ pools' = release(job[t].pool)
  /\ job' = [job EXCEPT ![t].pc = "compare"]
  /\ UNCHANGED jobVars

Compare(t) ==
  /\ job[t].pc = "compare"
  /\ job' = [job EXCEPT ![t].pc = IF job[t].pool # globalPool
                                  THEN "releaseGlobal" ELSE "done"]
  /\ UNCHANGED <<pools, jobVars>>

(* Changed: the slot of the global pool is forgotten.                      *)
ReleaseNothing(t) ==
  /\ job[t].pc = "releaseGlobal"
  /\ job' = [job EXCEPT ![t].pc = "done"]
  /\ UNCHANGED <<pools, jobVars>>

ReleaseGlobal(t) ==
  /\ job[t].pc = "releaseGlobal"
  /\ pools' = release(globalPool)
  /\ job' = [job EXCEPT ![t].pc = "done"]
  /\ UNCHANGED jobVars

Run(t) == ReleasePool(t) \/ Compare(t) \/ ReleaseGlobal(t)

Next == ChangePreference \/ Poll \/ \E t \in Tasks : Run(t)

Spec == Init /\ [][Next]_vars

(* The polling interval wakes the loop for ever, and downloads end.        *)
FairSpec == Spec /\ WF_vars(Poll) /\ \A t \in Tasks : WF_vars(Run(t))

-----------------------------------------------------------------------------
(* Properties                                                              *)

Running    == {t \in Tasks : job[t].pc = "running"}
Unfinished == {t \in Tasks : job[t].pc \in {"running", "compare", "releaseGlobal"}}
Held       == IF poll.pc \in {"source", "giveBack"} THEN 1 ELSE 0

(* No slot is lost, however often the pools are replaced: a source's pool  *)
(* counts exactly the running jobs that were launched from it, and the     *)
(* global pool never more than the jobs that still have a slot to give     *)
(* back; when all have ended the whole capacity is there again.            *)
NoSlotLost ==
  /\ \A s \in Sources :
       sourcePools[s] # NoPool =>
         pools[sourcePools[s]].active =
           Cardinality({t \in Running : job[t].pool = sourcePools[s]})
  /\ pools[globalPool].active <= Cardinality(Unfinished) + Held

(* A source that asks for more than the user's limit replaces the global   *)
(* pool, but none ever runs more jobs than it asks for, and one            *)
(* high-priority job, as long as the preference stays as it is.            *)
SourceLimited ==
  \A s \in Sources :
    LET mine == {t \in Running : SourceOf[t] = s}
    IN changes = 0 /\ RunnerConcurrency[s] # 0 =>
         /\ Cardinality(mine \ HighPriority) <= RunnerConcurrency[s]
         /\ Cardinality(mine) <= RunnerConcurrency[s] + Reserved

(* Every task gets its turn: no replacement, and no high-priority task     *)
(* that keeps coming back while its source is full, stops the loop.        *)
AllRun == \A t \in Tasks : <>(job[t].pc = "done")
=============================================================================
