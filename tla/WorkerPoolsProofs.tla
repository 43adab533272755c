------------------------- MODULE WorkerPoolsProofs --------------------------
(***************************************************************************)
(* The worker pools while the user changes the limit, for any tasks,       *)
(* sources, concurrencies and limits: no slot is lost, and a source's own  *)
(* limit holds.  Both rest on where the pools are: the map of the sources  *)
(* and the field globalPool never name the same pool, and a pool that was  *)
(* replaced is reached by the jobs launched from it only.                  *)
(***************************************************************************)
EXTENDS WorkerPools, FiniteSetTheorems, SequenceTheorems, TLAPS

-----------------------------------------------------------------------------
(* The invariant.                                                          *)

(* The task the loop is about to launch.                                   *)
Asking ==
  poll.pc \in {"global", "source", "giveBack"} =>
    /\ poll.task \in Tasks /\ job[poll.task].pc = "queued"
    /\ hasPool(poll.task)
    /\ poll.pc # "global" => SourceOf[poll.task] # NoSource

(* Whoever was launched knows its pool.                                    *)
Knowing == \A t \in Tasks : job[t].pc # "queued" => job[t].pool # NoPool

(* No pool is used for two purposes.                                       *)
Apart ==
  \A s \in Sources : sourcePools[s] # NoPool =>
    /\ sourcePools[s] # globalPool
    /\ \A other \in Sources : sourcePools[other] = sourcePools[s] => other = s

LaunchedFrom(p) == {t \in Running : job[t].pool = p}
Counted ==
  \A s \in Sources : sourcePools[s] # NoPool =>
    pools[sourcePools[s]].active = Cardinality(LaunchedFrom(sourcePools[s]))

(* Who may still give a slot of the global pool back: a job that took one  *)
(* slot, of the global pool itself, has done so before it compares.        *)
Owing ==
  {t \in Tasks : \/ job[t].pc \in {"running", "releaseGlobal"}
                 \/ job[t].pc = "compare" /\ job[t].pool # globalPool}
Owed == pools[globalPool].active <= Cardinality(Owing) + Held

(* While the preference stays as it is a source keeps its pool.            *)
Mine(s) == {t \in Running : SourceOf[t] = s}
Steady ==
  /\ changes = 0 =>
       /\ preference = limit
       /\ \A t \in Running : SourceOf[t] # NoSource =>
            job[t].pool = sourcePools[SourceOf[t]]
  /\ \A s \in Sources :
       sourcePools[s] # NoPool /\ RunnerConcurrency[s] # 0 =>
         pools[sourcePools[s]].base = RunnerConcurrency[s]

PoolsInv ==
  /\ TypeOK /\ Asking /\ Knowing /\ Apart
  /\ Counted /\ Owed /\ Steady /\ SourceLimited

-----------------------------------------------------------------------------
(* Counting: the sets of tasks are finite.                                 *)
LEMMA TaskSets ==
  \A S \in SUBSET Tasks : IsFiniteSet(S) /\ Cardinality(S) \in Nat
BY TasksAssumption, FS_Subset, FS_CardinalityType

(* One task more or less.                                                  *)
LEMMA OneMore ==
  ASSUME NEW S \in SUBSET Tasks, NEW t \in Tasks
  PROVE  /\ t \notin S => Cardinality(S \cup {t}) = Cardinality(S) + 1
         /\ t \in S => Cardinality(S \ {t}) = Cardinality(S) - 1
BY TaskSets, FS_AddElement, FS_RemoveElement

(* A larger set has no fewer tasks.                                        *)
LEMMA Monotone ==
  \A S, T \in SUBSET Tasks : S \subseteq T => Cardinality(S) <= Cardinality(T)
BY TaskSets, FS_Subset

(* What the two operations do to a sequence of pools.                      *)
LEMMA PoolSteps ==
  ASSUME pools \in Seq(Pool), NEW p \in DOMAIN pools
  PROVE  /\ DOMAIN pools = 1..Len(pools) /\ Len(pools) \in Nat
         /\ \A q \in DOMAIN pools : /\ pools[q] \in Pool
                                    /\ pools[q].active \in Nat /\ pools[q].base \in Nat
         /\ acquire(p) \in Seq(Pool) /\ release(p) \in Seq(Pool)
         /\ DOMAIN acquire(p) = DOMAIN pools /\ DOMAIN release(p) = DOMAIN pools
         /\ \A q \in DOMAIN pools :
              /\ acquire(p)[q].base = pools[q].base
              /\ release(p)[q].base = pools[q].base
              /\ q # p => acquire(p)[q] = pools[q] /\ release(p)[q] = pools[q]
         /\ acquire(p)[p].active = pools[p].active + 1
         /\ release(p)[p].active = IF pools[p].active > 0 THEN pools[p].active - 1 ELSE 0
<1>1. DOMAIN pools = 1..Len(pools) /\ Len(pools) \in Nat /\ pools \in [1..Len(pools) -> Pool]
  BY LenProperties
<1>2. \A q \in DOMAIN pools : /\ pools[q] \in Pool
                              /\ pools[q].active \in Nat /\ pools[q].base \in Nat
  BY <1>1 DEF Pool
<1>3. \A x \in Pool, n \in Nat : /\ [x EXCEPT !.active = n] \in Pool
                                 /\ [x EXCEPT !.active = n].active = n
                                 /\ [x EXCEPT !.active = n].base = x.base
  BY DEF Pool
<1> DEFINE more == pools[p].active + 1
           less == IF pools[p].active > 0 THEN pools[p].active - 1 ELSE 0
<1>4. more \in Nat /\ less \in Nat
  BY <1>2
<1> HIDE DEF more, less
<1>5. acquire(p) = [pools EXCEPT ![p] = [pools[p] EXCEPT !.active = more]]
  BY DEF acquire, more
<1>6. release(p) = [pools EXCEPT ![p] = [pools[p] EXCEPT !.active = less]]
  BY DEF release, less
<1>7. acquire(p) \in [1..Len(pools) -> Pool] /\ release(p) \in [1..Len(pools) -> Pool]
  BY <1>1, <1>2, <1>3, <1>4, <1>5, <1>6
<1>8. acquire(p) \in Seq(Pool) /\ release(p) \in Seq(Pool)
  BY <1>1, <1>7, SeqDef
<1>9. /\ \A q \in DOMAIN pools :
           /\ acquire(p)[q].base = pools[q].base
           /\ release(p)[q].base = pools[q].base
           /\ q # p => acquire(p)[q] = pools[q] /\ release(p)[q] = pools[q]
      /\ acquire(p)[p].active = more
      /\ release(p)[p].active = less
  BY <1>1, <1>2, <1>3, <1>4, <1>5, <1>6
<1> QED
  BY <1>1, <1>2, <1>7, <1>8, <1>9 DEF more, less

(* A pool, or two, more.                                                   *)
LEMMA NewPools ==
  ASSUME pools \in Seq(Pool), NEW base \in Nat
  PROVE  /\ Len(pools) \in Nat /\ DOMAIN pools = 1..Len(pools)
         /\ Append(pools, NewPool(base)) \in Seq(Pool)
         /\ DOMAIN Append(pools, NewPool(base)) = 1..(Len(pools) + 1)
         /\ \A q \in DOMAIN pools : Append(pools, NewPool(base))[q] = pools[q]
         /\ Append(pools, NewPool(base))[Len(pools) + 1] = NewPool(base)
         /\ pools \o << NewPool(base), NewPool(base) >> \in Seq(Pool)
         /\ DOMAIN (pools \o << NewPool(base), NewPool(base) >>) = 1..(Len(pools) + 2)
         /\ \A q \in DOMAIN pools :
              (pools \o << NewPool(base), NewPool(base) >>)[q] = pools[q]
         /\ (pools \o << NewPool(base), NewPool(base) >>)[Len(pools) + 1] = NewPool(base)
         /\ (pools \o << NewPool(base), NewPool(base) >>)[Len(pools) + 2] = NewPool(base)
         /\ NewPool(base).active = 0 /\ NewPool(base).base = base
<1> DEFINE new == NewPool(base)
           two == << new, new >>
<1>1. new \in Pool /\ new.active = 0 /\ new.base = base
  BY DEF NewPool, Pool
<1> HIDE DEF new
<1>2. two \in Seq(Pool) /\ Len(two) = 2 /\ two[1] = new /\ two[2] = new
  BY <1>1
<1> HIDE DEF two
<1>3. Len(pools) \in Nat /\ DOMAIN pools = 1..Len(pools)
  BY LenProperties
<1>4. /\ Append(pools, new) \in Seq(Pool)
      /\ DOMAIN Append(pools, new) = 1..(Len(pools) + 1)
      /\ \A q \in DOMAIN pools : Append(pools, new)[q] = pools[q]
      /\ Append(pools, new)[Len(pools) + 1] = new
  BY <1>1, <1>3, AppendProperties, LenProperties
<1>5. /\ pools \o two \in Seq(Pool)
      /\ Len(pools \o two) = Len(pools) + 2
      /\ \A i \in 1..(Len(pools) + 2) :
           (pools \o two)[i] = IF i <= Len(pools) THEN pools[i] ELSE two[i - Len(pools)]
  <2>1. /\ pools \o two \in Seq(Pool)
        /\ Len(pools \o two) = Len(pools) + Len(two)
        /\ \A i \in 1..(Len(pools) + Len(two)) :
             (pools \o two)[i] = IF i <= Len(pools) THEN pools[i] ELSE two[i - Len(pools)]
    BY <1>2, ConcatProperties, Zenon
  <2> QED
    BY <1>2, <2>1
<1>6. DOMAIN (pools \o two) = 1..(Len(pools) + 2)
  <2> DEFINE all == pools \o two
  <2>1. all \in Seq(Pool) /\ Len(all) = Len(pools) + 2
    BY <1>5
  <2> HIDE DEF all
  <2>2. DOMAIN all = 1..Len(all)
    BY <2>1, LenProperties
  <2> QED
    BY <2>1, <2>2 DEF all
<1>7. /\ \A q \in DOMAIN pools : (pools \o two)[q] = pools[q]
      /\ (pools \o two)[Len(pools) + 1] = new
      /\ (pools \o two)[Len(pools) + 2] = new
  <2>1. \A q \in 1..Len(pools) : q \in 1..(Len(pools) + 2) /\ q <= Len(pools)
    BY <1>3
  <2>2. /\ Len(pools) + 1 \in 1..(Len(pools) + 2) /\ ~(Len(pools) + 1 <= Len(pools))
        /\ Len(pools) + 2 \in 1..(Len(pools) + 2) /\ ~(Len(pools) + 2 <= Len(pools))
        /\ Len(pools) + 1 - Len(pools) = 1 /\ Len(pools) + 2 - Len(pools) = 2
    BY <1>3
  <2> QED
    BY <1>2, <1>3, <1>5, <2>1, <2>2
<1> QED
  BY <1>1, <1>3, <1>4, <1>5, <1>6, <1>7 DEF new, two

(* What is recorded of a job.                                              *)
JobType == [pc : JobPc, pool : DOMAIN pools \cup {NoPool}]

(* What the types say of the pools, the jobs and the loop.                 *)
LEMMA Shapes ==
  ASSUME PoolsInv
  PROVE  /\ pools \in Seq(Pool) /\ DOMAIN pools = 1..Len(pools) /\ Len(pools) \in Nat
         /\ NoPool \notin DOMAIN pools /\ globalPool \in DOMAIN pools
         /\ \A s \in Sources : sourcePools[s] # NoPool => sourcePools[s] \in DOMAIN pools
         /\ \A t \in Tasks : /\ job[t].pool \in DOMAIN pools \cup {NoPool}
                             /\ job[t].pc \in JobPc
                             /\ job[t].pc # "queued" => job[t].pool \in DOMAIN pools
         /\ job \in [Tasks -> JobType]
         /\ Held \in {0, 1}
         /\ \A q \in DOMAIN pools : pools[q].active \in Nat /\ pools[q].base \in Nat
<1>1. pools \in Seq(Pool) /\ globalPool \in DOMAIN pools /\ job \in [Tasks -> JobType]
      /\ sourcePools \in [Sources -> DOMAIN pools \cup {NoPool}]
  BY DEF PoolsInv, TypeOK, JobType
<1>2. DOMAIN pools = 1..Len(pools) /\ Len(pools) \in Nat
      /\ \A q \in DOMAIN pools : pools[q].active \in Nat /\ pools[q].base \in Nat
  BY <1>1, PoolSteps
<1>3. NoPool \notin DOMAIN pools
  BY <1>2 DEF NoPool
<1>4. \A t \in Tasks : /\ job[t].pool \in DOMAIN pools \cup {NoPool}
                      /\ job[t].pc \in JobPc
  BY <1>1 DEF JobType
<1> QED
  BY <1>1, <1>2, <1>3, <1>4 DEF PoolsInv, Knowing, Held

(* The app starts with one empty pool.                                     *)
LEMMA InitPools == Init => PoolsInv
<1> SUFFICES ASSUME Init PROVE PoolsInv
  OBVIOUS
<1>1. InitialLimit \in Nat
  BY LimitsAssumption
<1>2. NewPool(InitialLimit) \in Pool /\ NewPool(InitialLimit).active = 0
  BY <1>1 DEF NewPool, Pool
<1>3. pools = << NewPool(InitialLimit) >> /\ globalPool = 1
  BY DEF Init
<1>4. pools \in Seq(Pool) /\ DOMAIN pools = {1} /\ pools[1] = NewPool(InitialLimit)
  BY <1>2, <1>3
<1>5. TypeOK
  <2>1. job \in [Tasks -> [pc : JobPc, pool : DOMAIN pools \cup {NoPool}]]
    BY DEF Init, JobPc
  <2>2. poll \in [pc : PollPc, task : Tasks \cup {NoTask}, saturated : SUBSET Sources]
    BY DEF Init, PollPc
  <2>3. preference \in Limits /\ limit \in Limits /\ changes \in 0..MaxChanges
    BY LimitsAssumption DEF Init
  <2>4. globalPool \in DOMAIN pools
    BY <1>3, <1>4
  <2>5. sourcePools \in [Sources -> DOMAIN pools \cup {NoPool}]
    BY DEF Init
  <2> QED
    BY <1>4, <2>1, <2>2, <2>3, <2>4, <2>5 DEF TypeOK
<1>6. Running = {}
  BY DEF Init, Running
<1>7. Owed
  BY <1>2, <1>3, <1>4, TaskSets DEF Owed, Owing, Held, Init
<1>8. SourceLimited
  <2>1. \A s \in Sources : RunnerConcurrency[s] \in Nat
    BY LimitsAssumption
  <2>2. Cardinality({}) = 0
    BY FS_EmptySet
  <2>3. \A s : {t \in Running : SourceOf[t] = s} = {}
                /\ {t \in Running : SourceOf[t] = s} \ HighPriority = {}
    BY <1>6
  <2>4. \A s : /\ Cardinality({t \in Running : SourceOf[t] = s}) = 0
                /\ Cardinality({t \in Running : SourceOf[t] = s} \ HighPriority) = 0
    BY <2>2, <2>3
  <2>5. \A n \in Nat : 0 <= n /\ 0 <= n + Reserved
    BY DEF Reserved
  <2> QED
    BY <2>1, <2>4, <2>5 DEF SourceLimited
<1>9. \A s \in Sources : sourcePools[s] = NoPool
  BY DEF Init
<1>10. Asking /\ Knowing /\ Apart /\ Counted /\ Steady
  BY <1>6, <1>9 DEF Init, Asking, Knowing, Apart, Counted, Steady
<1> QED
  BY <1>5, <1>7, <1>8, <1>10 DEF PoolsInv

(* Steps that leave pools and jobs alone.                                  *)
LEMMA PoolsStay ==
  ASSUME PoolsInv, UNCHANGED <<pools, globalPool, sourcePools, job>>,
         preference' \in Limits, limit' \in Limits, changes' \in 0..MaxChanges,
         changes' = 0 => changes = 0 /\ UNCHANGED <<preference, limit>>,
         poll' \in [pc : PollPc, task : Tasks \cup {NoTask}, saturated : SUBSET Sources],
         Asking', Held' = Held
  PROVE  PoolsInv'
<1>1. TypeOK' /\ Knowing' /\ Apart'
  BY DEF PoolsInv, TypeOK, Knowing, Apart
<1>2. Counted'
  BY DEF PoolsInv, Counted, LaunchedFrom, Running
<1>3. Owed'
  BY DEF PoolsInv, Owed, Owing
<1>4. Steady'
  BY DEF PoolsInv, Steady, Running
<1>5. SourceLimited'
  BY DEF PoolsInv, SourceLimited, Running
<1> QED
  BY <1>1, <1>2, <1>3, <1>4, <1>5 DEF PoolsInv

(* A source gets a pool of its own, beside the global pool or a new one.   *)
LEMMA SourceGetsPool ==
  ASSUME PoolsInv, NEW s \in Sources, sourcePools[s] = NoPool,
         UNCHANGED <<preference, limit, changes, job>>,
         poll' \in [pc : PollPc, task : Tasks \cup {NoTask}, saturated : SUBSET Sources],
         Asking', Held' = Held,
         pools' \in Seq(Pool), DOMAIN pools \subseteq DOMAIN pools',
         \A q \in DOMAIN pools : pools'[q] = pools[q],
         NEW p \in DOMAIN pools', p \notin DOMAIN pools, p # NoPool,
         pools'[p].active = 0,
         RunnerConcurrency[s] # 0 => pools'[p].base = RunnerConcurrency[s],
         sourcePools' = [sourcePools EXCEPT ![s] = p],
         globalPool' \in DOMAIN pools', globalPool' # p,
         \/ globalPool' = globalPool
         \/ globalPool' \notin DOMAIN pools /\ pools'[globalPool'].active = 0
  PROVE  PoolsInv'
<1>0. sourcePools \in [Sources -> DOMAIN pools \cup {NoPool}]
  BY DEF PoolsInv, TypeOK
<1>1. \A other \in Sources : sourcePools'[other] = IF other = s THEN p ELSE sourcePools[other]
  BY <1>0
<1>2. \A other \in Sources : other # s /\ sourcePools[other] # NoPool =>
        sourcePools[other] \in DOMAIN pools /\ sourcePools[other] # p
  BY Shapes
<1>3. TypeOK'
  BY <1>0 DEF PoolsInv, TypeOK
<1>4. Knowing'
  BY DEF PoolsInv, Knowing
<1>5. Apart'
  BY <1>1, <1>2 DEF PoolsInv, Apart
<1>6. Running' = Running
  BY DEF Running
<1>7. Counted'
  <2>1. LaunchedFrom(p) = {} /\ \A q : LaunchedFrom(q)' = LaunchedFrom(q)
    BY <1>6, Shapes DEF LaunchedFrom, Running
  <2>2. Cardinality({}) = 0
    BY FS_EmptySet
  <2>3. ASSUME NEW other \in Sources, sourcePools'[other] # NoPool
        PROVE  pools'[sourcePools'[other]].active
                 = Cardinality({t \in Running : job[t].pool = sourcePools'[other]})
    <3>1. CASE other = s
      BY <1>1, <2>1, <2>2, <3>1 DEF LaunchedFrom
    <3>2. CASE other # s
      BY <1>1, <1>2, <2>3, <3>2 DEF PoolsInv, Counted, LaunchedFrom
    <3> QED
      BY <3>1, <3>2
  <2> QED
    BY <1>6, <2>3 DEF Counted, LaunchedFrom
<1>8. Owed'
  <2>1. CASE globalPool' = globalPool
    BY <2>1, Shapes DEF PoolsInv, Owed, Owing
  <2>2. CASE pools'[globalPool'].active = 0
    <3>1. Cardinality(Owing') \in Nat /\ Held' \in Nat
      BY TaskSets, Shapes DEF Owing
    <3> QED
      BY <2>2, <3>1 DEF Owed
  <2> QED
    BY <2>1, <2>2
<1>9. Steady'
  <2>1. ASSUME changes = 0, NEW t \in Running, SourceOf[t] # NoSource
        PROVE  job[t].pool = sourcePools'[SourceOf[t]]
    <3>1. SourceOf[t] \in Sources /\ t \in Tasks /\ job[t].pool # NoPool
      BY <2>1, TasksAssumption DEF Running, PoolsInv, Knowing
    <3>2. job[t].pool = sourcePools[SourceOf[t]]
      BY <2>1 DEF PoolsInv, Steady
    <3> QED
      BY <1>1, <3>1, <3>2
  <2>2. ASSUME NEW other \in Sources, sourcePools'[other] # NoPool, RunnerConcurrency[other] # 0
        PROVE  pools'[sourcePools'[other]].base = RunnerConcurrency[other]
    <3>1. CASE other = s
      BY <1>1, <2>2, <3>1
    <3>2. CASE other # s
      BY <1>1, <1>2, <2>2, <3>2 DEF PoolsInv, Steady
    <3> QED
      BY <3>1, <3>2
  <2> QED
    BY <1>6, <2>1, <2>2 DEF PoolsInv, Steady
<1>10. SourceLimited'
  BY <1>6 DEF PoolsInv, SourceLimited
<1> QED
  BY <1>3, <1>4, <1>5, <1>7, <1>8, <1>9, <1>10 DEF PoolsInv

(* A job that goes on, or has just been launched.                          *)
LEMMA JobGoes ==
  ASSUME PoolsInv, NEW t \in Tasks, NEW pc \in JobPc, NEW p \in DOMAIN pools \cup {NoPool}
  PROVE  /\ [job EXCEPT ![t] = [pc |-> pc, pool |-> p]] \in [Tasks -> JobType]
         /\ \A u \in Tasks : [job EXCEPT ![t] = [pc |-> pc, pool |-> p]][u] =
              IF u = t THEN [pc |-> pc, pool |-> p] ELSE job[u]
         /\ [job EXCEPT ![t].pc = pc] \in [Tasks -> JobType]
         /\ [job EXCEPT ![t].pc = pc][t].pc = pc
         /\ [job EXCEPT ![t].pc = pc][t].pool = job[t].pool
         /\ \A u \in Tasks : u # t => [job EXCEPT ![t].pc = pc][u] = job[u]
<1>1. job \in [Tasks -> JobType]
  BY Shapes
<1> QED
  BY <1>1 DEF JobType

(* The cycle begins; the preference may have changed.                      *)
LEMMA RefreshPools == PoolsInv /\ Refresh => PoolsInv'
<1> SUFFICES ASSUME PoolsInv, Refresh PROVE PoolsInv'
  OBVIOUS
<1>1. /\ poll' \in [pc : PollPc, task : Tasks \cup {NoTask}, saturated : SUBSET Sources]
      /\ poll.pc = "wait" /\ poll'.pc = "launch"
  BY DEF Refresh, PoolsInv, TypeOK, PollPc
<1>2. Asking' /\ Held = 0 /\ Held' = 0
  BY <1>1 DEF Asking, Held
<1>3. preference \in Limits /\ limit \in Limits /\ changes \in 0..MaxChanges
  BY DEF PoolsInv, TypeOK
<1>4. CASE preference = limit
  BY <1>1, <1>2, <1>3, <1>4, PoolsStay DEF Refresh
<1>5. CASE preference # limit
  <2>1. preference \in Nat
    BY <1>3, LimitsAssumption
  <2>2. /\ limit' = preference /\ pools' = Append(pools, NewPool(preference))
        /\ globalPool' = Len(pools) + 1
        /\ sourcePools' = [s \in Sources |-> NoPool]
        /\ UNCHANGED <<preference, changes, job>>
    BY <1>5 DEF Refresh
  <2>3. /\ pools' \in Seq(Pool) /\ DOMAIN pools \subseteq DOMAIN pools'
        /\ globalPool' \in DOMAIN pools' /\ pools'[globalPool'].active = 0
    <3>1. Len(pools) \in Nat /\ pools \in Seq(Pool) /\ DOMAIN pools = 1..Len(pools)
      BY Shapes
    <3>2. /\ pools' \in Seq(Pool) /\ DOMAIN pools' = 1..(Len(pools) + 1)
          /\ pools'[Len(pools) + 1].active = 0
      BY <2>1, <2>2, <3>1, NewPools
    <3> QED
      BY <2>2, <3>1, <3>2
  <2>4. \A s \in Sources : sourcePools'[s] = NoPool
    BY <2>2
  <2>5. TypeOK'
    BY <1>1, <1>3, <2>2, <2>3 DEF PoolsInv, TypeOK
  <2>6. Running' = Running
    BY <2>2 DEF Running
  <2>7. Owed'
    <3>1. Cardinality(Owing') \in Nat
      BY TaskSets DEF Owing
    <3> QED
      BY <1>2, <2>3, <3>1 DEF Owed
  <2>8. changes # 0
    BY <1>5 DEF PoolsInv, Steady
  <2>9. Apart' /\ Counted' /\ Steady' /\ SourceLimited'
    BY <2>2, <2>4, <2>8 DEF Apart, Counted, Steady, SourceLimited
  <2> QED
    BY <1>2, <2>2, <2>5, <2>7, <2>9 DEF PoolsInv, Knowing
<1> QED
  BY <1>4, <1>5

(* A task comes up; its source may get its pool.                           *)
LEMMA PopPools == ASSUME PoolsInv, NEW t \in Tasks, Pop(t) PROVE PoolsInv'
<1> DEFINE s == SourceOf[t]
           base == IF RunnerConcurrency[s] = 0 THEN limit ELSE RunnerConcurrency[s]
<1>1. poll \in [pc : PollPc, task : Tasks \cup {NoTask}, saturated : SUBSET Sources]
  BY DEF PoolsInv, TypeOK
<1>2. /\ poll' \in [pc : PollPc, task : Tasks \cup {NoTask}, saturated : SUBSET Sources]
      /\ poll.pc = "launch" /\ poll'.pc = "global" /\ poll'.task = t
      /\ job[t].pc = "queued"
  BY <1>1 DEF Pop, Popped, PollPc
<1>3. Held = 0 /\ Held' = 0
  BY <1>2 DEF Held
<1>4. /\ preference \in Limits /\ limit \in Limits /\ changes \in 0..MaxChanges
      /\ sourcePools \in [Sources -> DOMAIN pools \cup {NoPool}]
      /\ UNCHANGED <<preference, changes, limit, job>>
  BY DEF PoolsInv, TypeOK, Pop
<1>5. hasPool(t)' => Asking'
  BY <1>2, <1>4 DEF Asking
<1>6. CASE hasPool(t)
  <2>1. UNCHANGED <<pools, globalPool, sourcePools>>
    BY <1>6 DEF Pop
  <2>2. hasPool(t)'
    BY <1>6, <2>1 DEF hasPool
  <2> QED
    BY <1>2, <1>3, <1>4, <1>5, <2>1, <2>2, PoolsStay
<1>7. CASE ~hasPool(t)
  <2>1. s \in Sources /\ sourcePools[s] = NoPool
    BY <1>7, TasksAssumption DEF hasPool
  <2>2. base \in Nat /\ (RunnerConcurrency[s] # 0 => base = RunnerConcurrency[s])
    BY <1>4, <2>1, LimitsAssumption
  <2>3. \/ /\ pools' = Append(pools, NewPool(base))
           /\ sourcePools' = [sourcePools EXCEPT ![s] = Len(pools) + 1]
           /\ globalPool' = globalPool
        \/ /\ pools' = pools \o << NewPool(base), NewPool(base) >>
           /\ globalPool' = Len(pools) + 1
           /\ sourcePools' = [sourcePools EXCEPT ![s] = Len(pools) + 2]
    BY <1>7 DEF Pop
  <2> HIDE DEF base
  <2>4. /\ Len(pools) \in Nat /\ pools \in Seq(Pool) /\ DOMAIN pools = 1..Len(pools)
        /\ globalPool \in DOMAIN pools
    BY Shapes
  <2>5. NewPool(base).active = 0 /\ NewPool(base).base = base
    BY <2>2, <2>4, NewPools
  <2> DEFINE Fits(p) ==
        /\ pools' \in Seq(Pool) /\ DOMAIN pools \subseteq DOMAIN pools'
        /\ \A q \in DOMAIN pools : pools'[q] = pools[q]
        /\ p \in DOMAIN pools' /\ p \notin DOMAIN pools /\ p # NoPool
        /\ pools'[p] = NewPool(base)
        /\ sourcePools' = [sourcePools EXCEPT ![s] = p]
        /\ globalPool' \in DOMAIN pools' /\ globalPool' # p
        /\ \/ globalPool' = globalPool
           \/ globalPool' \notin DOMAIN pools /\ pools'[globalPool'] = NewPool(base)
  <2>6. \E p \in DOMAIN pools' : Fits(p)
    <3>1. CASE pools' = Append(pools, NewPool(base))
               /\ sourcePools' = [sourcePools EXCEPT ![s] = Len(pools) + 1]
               /\ globalPool' = globalPool
      <4>1. /\ pools' \in Seq(Pool) /\ DOMAIN pools' = 1..(Len(pools) + 1)
            /\ \A q \in DOMAIN pools : pools'[q] = pools[q]
            /\ pools'[Len(pools) + 1] = NewPool(base)
        BY <2>2, <2>4, <3>1, NewPools
      <4>2. Fits(Len(pools) + 1)
        BY <2>4, <3>1, <4>1 DEF NoPool
      <4> QED
        BY <4>2
    <3>2. CASE pools' = pools \o << NewPool(base), NewPool(base) >>
               /\ globalPool' = Len(pools) + 1
               /\ sourcePools' = [sourcePools EXCEPT ![s] = Len(pools) + 2]
      <4>1. /\ pools' \in Seq(Pool) /\ DOMAIN pools' = 1..(Len(pools) + 2)
            /\ \A q \in DOMAIN pools : pools'[q] = pools[q]
            /\ pools'[Len(pools) + 1] = NewPool(base)
            /\ pools'[Len(pools) + 2] = NewPool(base)
        BY <2>2, <2>4, <3>2, NewPools
      <4>2. Fits(Len(pools) + 2)
        BY <2>4, <3>2, <4>1 DEF NoPool
      <4> QED
        BY <4>2
    <3> QED
      BY <2>3, <3>1, <3>2
  <2>7. PICK p \in DOMAIN pools' : Fits(p)
    BY <2>6
  <2>8. hasPool(t)'
    BY <1>4, <2>1, <2>7 DEF hasPool
  <2> HIDE DEF s
  <2> QED
    BY <1>2, <1>3, <1>4, <1>5, <2>1, <2>2, <2>5, <2>7, <2>8, SourceGetsPool
<1> QED
  BY <1>6, <1>7

(* A source's own limit, after a step that starts at most one job.         *)
LEMMA LimitStays ==
  ASSUME PoolsInv, NEW t \in Tasks,
         Running' \subseteq Running \/ Running' = Running \cup {t},
         changes' = 0 => changes = 0,
         Running' \subseteq Running \/ SourceOf[t] = NoSource \/
           \E room \in Nat :
             /\ changes = 0 => Cardinality(Mine(SourceOf[t])) <= room
             /\ changes = 0 /\ RunnerConcurrency[SourceOf[t]] # 0 =>
                  room < RunnerConcurrency[SourceOf[t]]
                         + IF t \in HighPriority THEN Reserved ELSE 0
  PROVE  SourceLimited'
<1> SUFFICES ASSUME changes = 0, NEW s \in Sources, RunnerConcurrency[s] # 0
             PROVE  /\ Cardinality(Mine(s)' \ HighPriority) <= RunnerConcurrency[s]
                    /\ Cardinality(Mine(s)') <= RunnerConcurrency[s] + Reserved
  BY DEF SourceLimited, Mine
<1>1. /\ Cardinality(Mine(s) \ HighPriority) <= RunnerConcurrency[s]
      /\ Cardinality(Mine(s)) <= RunnerConcurrency[s] + Reserved
  BY DEF PoolsInv, SourceLimited, Mine
<1>2. /\ RunnerConcurrency[s] \in Nat /\ Mine(s) \in SUBSET Tasks
      /\ Mine(s)' \in SUBSET Tasks /\ NoSource \notin Sources
      /\ Mine(s) \ HighPriority \in SUBSET Tasks /\ Mine(s)' \ HighPriority \in SUBSET Tasks
  BY LimitsAssumption, TasksAssumption DEF Mine, Running
<1>3. /\ Cardinality(Mine(s)) \in Nat /\ Cardinality(Mine(s)') \in Nat
      /\ Cardinality(Mine(s) \ HighPriority) \in Nat
      /\ Cardinality(Mine(s)' \ HighPriority) \in Nat
  BY <1>2, TaskSets
<1>4. CASE Mine(s)' \subseteq Mine(s)
  <2>1. Mine(s)' \ HighPriority \subseteq Mine(s) \ HighPriority
    BY <1>4
  <2>2. /\ Cardinality(Mine(s)') <= Cardinality(Mine(s))
        /\ Cardinality(Mine(s)' \ HighPriority) <= Cardinality(Mine(s) \ HighPriority)
    BY <1>2, <1>4, <2>1, Monotone
  <2>3. Reserved \in Nat
    BY DEF Reserved
  <2> QED
    BY <1>1, <1>2, <1>3, <2>2, <2>3
<1>5. CASE ~(Mine(s)' \subseteq Mine(s))
  <2>1. /\ SourceOf[t] = s /\ Mine(s)' = Mine(s) \cup {t} /\ t \notin Mine(s)
        /\ ~(Running' \subseteq Running)
    BY <1>5 DEF Mine
  <2>2. PICK room \in Nat : /\ Cardinality(Mine(s)) <= room
                            /\ room < RunnerConcurrency[s]
                                      + IF t \in HighPriority THEN Reserved ELSE 0
    BY <1>2, <2>1
  <2>3. Cardinality(Mine(s)') = Cardinality(Mine(s)) + 1
    BY <1>2, <2>1, OneMore
  <2>4. CASE t \in HighPriority
    <3>1. Mine(s)' \ HighPriority = Mine(s) \ HighPriority
      BY <2>1, <2>4
    <3> QED
      BY <1>1, <1>2, <1>3, <2>2, <2>3, <2>4, <3>1 DEF Reserved
  <2>5. CASE t \notin HighPriority
    <3>1. Cardinality(Mine(s)' \ HighPriority) <= Cardinality(Mine(s)')
      BY <1>2, Monotone
    <3> QED
      BY <1>1, <1>2, <1>3, <2>2, <2>3, <2>5, <3>1 DEF Reserved
  <2> QED
    BY <2>4, <2>5
<1> QED
  BY <1>4, <1>5

(* The slot of the global pool.                                            *)
LEMMA AcquireGlobalPools == PoolsInv /\ AcquireGlobal => PoolsInv'
<1> SUFFICES ASSUME PoolsInv, AcquireGlobal PROVE PoolsInv'
  OBVIOUS
<1> DEFINE t == poll.task
<1>1. /\ poll \in [pc : PollPc, task : Tasks \cup {NoTask}, saturated : SUBSET Sources]
      /\ poll.pc = "global" /\ t \in Tasks /\ job[t].pc = "queued" /\ hasPool(t)
      /\ preference \in Limits /\ limit \in Limits /\ changes \in 0..MaxChanges
      /\ UNCHANGED <<preference, changes, limit, globalPool, sourcePools>>
      /\ Held = 0
  BY DEF PoolsInv, TypeOK, Asking, AcquireGlobal, Held
<1>2. /\ pools \in Seq(Pool) /\ globalPool \in DOMAIN pools
      /\ pools[globalPool].active \in Nat
      /\ job \in [Tasks -> JobType]
  BY Shapes
<1>3. CASE ~hasRoom(globalPool, t)
  <2>1. /\ UNCHANGED <<pools, job>>
        /\ poll' = [poll EXCEPT !.pc = "wait", !.task = NoTask]
    BY <1>3 DEF AcquireGlobal
  <2>2. /\ poll' \in [pc : PollPc, task : Tasks \cup {NoTask}, saturated : SUBSET Sources]
        /\ poll'.pc = "wait"
    BY <1>1, <2>1 DEF PollPc
  <2>3. Asking' /\ Held' = Held
    BY <1>1, <2>2 DEF Asking, Held
  <2> QED
    BY <1>1, <2>1, <2>2, <2>3, PoolsStay
<1>4. CASE hasRoom(globalPool, t)
  <2>1. /\ pools' = acquire(globalPool)
        /\ \/ /\ poolOf(t) # globalPool
              /\ poll' = [poll EXCEPT !.pc = "source"]
              /\ UNCHANGED job
           \/ /\ poolOf(t) = globalPool
              /\ poll' = [poll EXCEPT !.pc = "launch", !.task = NoTask]
              /\ job' = launched(t)
    BY <1>4 DEF AcquireGlobal
  <2>2. /\ pools' \in Seq(Pool) /\ DOMAIN pools' = DOMAIN pools
        /\ \A q \in DOMAIN pools : /\ pools'[q].base = pools[q].base
                                   /\ q # globalPool => pools'[q] = pools[q]
        /\ pools'[globalPool].active = pools[globalPool].active + 1
    BY <1>2, <2>1, PoolSteps
  <2>3. \A s \in Sources : sourcePools[s] # NoPool =>
           /\ sourcePools[s] \in DOMAIN pools /\ sourcePools[s] # globalPool
           /\ pools'[sourcePools[s]] = pools[sourcePools[s]]
    BY <2>2, Shapes DEF PoolsInv, Apart
  <2>4. Apart'
    BY <1>1 DEF PoolsInv, Apart
  <2>5. CASE poolOf(t) # globalPool
    <3>1. UNCHANGED job /\ poll' = [poll EXCEPT !.pc = "source"]
      BY <2>1, <2>5
    <3>2. /\ poll' \in [pc : PollPc, task : Tasks \cup {NoTask}, saturated : SUBSET Sources]
          /\ poll'.pc = "source" /\ poll'.task = t
      BY <1>1, <3>1 DEF PollPc
    <3>3. SourceOf[t] # NoSource
      BY <2>5 DEF poolOf
    <3>4. Asking' /\ Held' = 1
      BY <1>1, <3>1, <3>2, <3>3 DEF Asking, Held, hasPool
    <3>5. TypeOK'
      BY <1>1, <2>2, <3>1, <3>2 DEF PoolsInv, TypeOK
    <3>6. Running' = Running /\ Owing' = Owing
      BY <1>1, <3>1 DEF Running, Owing
    <3>7. Owed'
      <4>1. Cardinality(Owing) \in Nat
        BY TaskSets DEF Owing
      <4>2. pools[globalPool].active <= Cardinality(Owing) + 0
        BY <1>1 DEF PoolsInv, Owed
      <4> QED
        BY <1>1, <1>2, <2>2, <3>4, <3>6, <4>1, <4>2 DEF Owed
    <3>8. Counted'
      BY <1>1, <2>3, <3>1, <3>6 DEF PoolsInv, Counted, LaunchedFrom
    <3>9. Steady' /\ SourceLimited'
      BY <1>1, <2>2, <2>3, <3>1, <3>6 DEF PoolsInv, Steady, SourceLimited
    <3> QED
      BY <2>4, <3>1, <3>4, <3>5, <3>7, <3>8, <3>9 DEF PoolsInv, Knowing
  <2>6. CASE poolOf(t) = globalPool
    <3>1. job' = launched(t) /\ poll' = [poll EXCEPT !.pc = "launch", !.task = NoTask]
      BY <2>1, <2>6
    <3>2. /\ poll' \in [pc : PollPc, task : Tasks \cup {NoTask}, saturated : SUBSET Sources]
          /\ poll'.pc = "launch"
      BY <1>1, <3>1 DEF PollPc
    <3>3. SourceOf[t] = NoSource
      BY <1>1, <2>6, TasksAssumption DEF poolOf, hasPool, PoolsInv, Apart
    <3>4. Asking' /\ Held' = 0
      BY <3>2 DEF Asking, Held
    <3>5. /\ job' \in [Tasks -> JobType]
          /\ \A u \in Tasks : job'[u] = IF u = t THEN [pc |-> "running", pool |-> globalPool]
                                        ELSE job[u]
      <4>1. job' = [job EXCEPT ![t] = [pc |-> "running", pool |-> globalPool]]
        BY <2>6, <3>1 DEF launched
      <4>2. "running" \in JobPc
        BY DEF JobPc
      <4> QED
        BY <1>1, <1>2, <4>1, <4>2, JobGoes
    <3>6. TypeOK'
      BY <1>1, <2>2, <3>2, <3>5 DEF PoolsInv, TypeOK, JobType
    <3>7. Running' = Running \cup {t} /\ Owing' = Owing \cup {t} /\ t \notin Owing
      BY <1>1, <3>5 DEF Running, Owing
    <3>8. Owed'
      <4>1. Cardinality(Owing) \in Nat /\ Cardinality(Owing') = Cardinality(Owing) + 1
        BY <1>1, <3>7, TaskSets, OneMore DEF Owing
      <4>2. pools[globalPool].active <= Cardinality(Owing) + 0
        BY <1>1 DEF PoolsInv, Owed
      <4> QED
        BY <1>1, <1>2, <2>2, <3>4, <4>1, <4>2 DEF Owed
    <3>9. Counted'
      <4>1. \A s \in Sources : sourcePools[s] # NoPool =>
              LaunchedFrom(sourcePools[s])' = LaunchedFrom(sourcePools[s])
        BY <1>1, <2>3, <3>5, <3>7 DEF LaunchedFrom, Running
      <4> QED
        BY <1>1, <2>3, <4>1 DEF PoolsInv, Counted
    <3>10. Steady'
      <4>1. \A u \in Running' : SourceOf[u] # NoSource => u \in Running /\ job'[u] = job[u]
        BY <3>3, <3>5, <3>7 DEF Running
      <4> QED
        BY <1>1, <2>3, <4>1 DEF PoolsInv, Steady
    <3>11. SourceLimited'
      BY <1>1, <3>3, <3>7, LimitStays
    <3>12. Knowing'
      BY <1>2, <3>5, Shapes DEF PoolsInv, Knowing
    <3> QED
      BY <2>4, <3>4, <3>6, <3>8, <3>9, <3>10, <3>11, <3>12 DEF PoolsInv
  <2> QED
    BY <2>5, <2>6
<1> QED
  BY <1>3, <1>4

(* ... and that of the source's own pool.                                  *)
LEMMA AcquireSourcePools == PoolsInv /\ AcquireSource => PoolsInv'
<1> SUFFICES ASSUME PoolsInv, AcquireSource PROVE PoolsInv'
  OBVIOUS
<1> DEFINE t == poll.task
           s == SourceOf[t]
           p == sourcePools[s]
<1>1. /\ poll \in [pc : PollPc, task : Tasks \cup {NoTask}, saturated : SUBSET Sources]
      /\ poll.pc = "source" /\ t \in Tasks /\ job[t].pc = "queued" /\ hasPool(t)
      /\ s # NoSource
      /\ preference \in Limits /\ limit \in Limits /\ changes \in 0..MaxChanges
      /\ UNCHANGED <<preference, changes, limit, globalPool, sourcePools>>
      /\ Held = 1
  BY DEF PoolsInv, TypeOK, Asking, AcquireSource, Held
<1>2. s \in Sources /\ p # NoPool /\ poolOf(t) = p
  BY <1>1, TasksAssumption DEF hasPool, poolOf
<1>3. /\ p \in DOMAIN pools /\ p # globalPool /\ globalPool \in DOMAIN pools
      /\ pools \in Seq(Pool) /\ pools[p].active \in Nat /\ pools[p].base \in Nat
      /\ pools[globalPool].active \in Nat
  BY <1>2, Shapes DEF PoolsInv, Apart
<1> HIDE DEF p
<1>4. CASE ~hasRoom(p, t)
  <2>1. UNCHANGED <<pools, job>> /\ poll' = [poll EXCEPT !.pc = "giveBack"]
    BY <1>2, <1>4 DEF AcquireSource
  <2>2. /\ poll' \in [pc : PollPc, task : Tasks \cup {NoTask}, saturated : SUBSET Sources]
        /\ poll'.pc = "giveBack" /\ poll'.task = t
    BY <1>1, <2>1 DEF PollPc
  <2>3. Asking' /\ Held' = Held
    BY <1>1, <2>1, <2>2 DEF Asking, Held, hasPool
  <2> QED
    BY <1>1, <2>1, <2>2, <2>3, PoolsStay
<1>5. CASE hasRoom(p, t)
  <2>1. /\ pools' = acquire(p) /\ job' = [job EXCEPT ![t] = [pc |-> "running", pool |-> p]]
        /\ poll' = [poll EXCEPT !.pc = "launch", !.task = NoTask]
    BY <1>2, <1>5 DEF AcquireSource, launched
  <2>2. /\ pools' \in Seq(Pool) /\ DOMAIN pools' = DOMAIN pools
        /\ \A q \in DOMAIN pools : /\ pools'[q].base = pools[q].base
                                   /\ q # p => pools'[q] = pools[q]
        /\ pools'[p].active = pools[p].active + 1
    BY <1>3, <2>1, PoolSteps
  <2>3. /\ poll' \in [pc : PollPc, task : Tasks \cup {NoTask}, saturated : SUBSET Sources]
        /\ poll'.pc = "launch"
    BY <1>1, <2>1 DEF PollPc
  <2>4. Asking' /\ Held' = 0
    BY <2>3 DEF Asking, Held
  <2>5. /\ job' \in [Tasks -> JobType]
        /\ \A u \in Tasks : job'[u] = IF u = t THEN [pc |-> "running", pool |-> p]
                                      ELSE job[u]
    <3>1. "running" \in JobPc
      BY DEF JobPc
    <3> QED
      BY <1>1, <1>3, <2>1, <3>1, JobGoes
  <2>6. TypeOK'
    BY <1>1, <2>2, <2>3, <2>5 DEF PoolsInv, TypeOK, JobType
  <2>7. /\ Running' = Running \cup {t} /\ t \notin Running
        /\ Owing' = Owing \cup {t} /\ t \notin Owing
    BY <1>1, <2>5 DEF Running, Owing
  <2>8. Owed'
    <3>1. Cardinality(Owing) \in Nat /\ Cardinality(Owing') = Cardinality(Owing) + 1
      BY <1>1, <2>7, TaskSets, OneMore DEF Owing
    <3>2. pools[globalPool].active <= Cardinality(Owing) + 1
      BY <1>1 DEF PoolsInv, Owed
    <3>3. pools'[globalPool'].active = pools[globalPool].active
      BY <1>1, <1>3, <2>2
    <3> QED
      BY <1>3, <2>4, <3>1, <3>2, <3>3 DEF Owed
  <2>9. Counted'
    <3>1. ASSUME NEW other \in Sources, sourcePools[other] # NoPool
          PROVE  pools'[sourcePools[other]].active = Cardinality(LaunchedFrom(sourcePools[other])')
      <4>1. /\ sourcePools[other] \in DOMAIN pools
            /\ pools[sourcePools[other]].active = Cardinality(LaunchedFrom(sourcePools[other]))
            /\ LaunchedFrom(sourcePools[other]) \in SUBSET Tasks
        BY <3>1, Shapes DEF PoolsInv, Counted, LaunchedFrom, Running
      <4>2. CASE sourcePools[other] = p
        <5> DEFINE q == sourcePools[other]
        <5>1. LaunchedFrom(q)' = LaunchedFrom(q) \cup {t} /\ t \notin LaunchedFrom(q)
          BY <1>1, <2>5, <2>7, <4>2 DEF LaunchedFrom, Running
        <5>2. Cardinality(LaunchedFrom(q)') = Cardinality(LaunchedFrom(q)) + 1
          BY <1>1, <4>1, <5>1, OneMore
        <5> QED
          BY <2>2, <4>1, <4>2, <5>2
      <4>3. CASE sourcePools[other] # p
        <5>1. LaunchedFrom(sourcePools[other])' = LaunchedFrom(sourcePools[other])
          BY <1>1, <2>5, <2>7, <4>3 DEF LaunchedFrom, Running
        <5> QED
          BY <2>2, <4>1, <4>3, <5>1
      <4> QED
        BY <4>2, <4>3
    <3> QED
      BY <1>1, <3>1 DEF Counted
  <2>10. Steady'
    <3>1. \A u \in Running' : SourceOf[u] # NoSource =>
            \/ u = t /\ job'[u].pool = p
            \/ u \in Running /\ job'[u] = job[u]
      BY <1>1, <2>5, <2>7 DEF Running
    <3>2. \A other \in Sources : sourcePools[other] # NoPool =>
            pools'[sourcePools[other]].base = pools[sourcePools[other]].base
      BY <2>2, Shapes
    <3> QED
      BY <1>1, <3>1, <3>2 DEF PoolsInv, Steady, p
  <2>11. SourceLimited'
    <3>1. changes = 0 => Cardinality(Mine(s)) <= pools[p].active
      <4> SUFFICES ASSUME changes = 0 PROVE Cardinality(Mine(s)) <= pools[p].active
        OBVIOUS
      <4>1. Mine(s) \subseteq LaunchedFrom(p)
        BY <1>1 DEF PoolsInv, Steady, Mine, LaunchedFrom, p
      <4>2. Mine(s) \in SUBSET Tasks /\ LaunchedFrom(p) \in SUBSET Tasks
        BY DEF Mine, LaunchedFrom, Running
      <4>3. pools[p].active = Cardinality(LaunchedFrom(p))
        BY <1>2 DEF PoolsInv, Counted, p
      <4> QED
        BY <4>1, <4>2, <4>3, Monotone
    <3>2. RunnerConcurrency[s] # 0 => pools[p].base = RunnerConcurrency[s]
      BY <1>2 DEF PoolsInv, Steady, p
    <3>3. pools[p].active < pools[p].base + IF t \in HighPriority THEN Reserved ELSE 0
      BY <1>5 DEF hasRoom
    <3>4. RunnerConcurrency[s] # 0 =>
            pools[p].active < RunnerConcurrency[s]
                              + IF t \in HighPriority THEN Reserved ELSE 0
      BY <3>2, <3>3
    <3> QED
      BY <1>1, <1>3, <2>7, <3>1, <3>4, LimitStays
  <2>12. Knowing' /\ Apart'
    BY <1>1, <1>2, <2>5 DEF PoolsInv, Knowing, Apart, p
  <2> QED
    BY <2>4, <2>6, <2>8, <2>9, <2>10, <2>11, <2>12 DEF PoolsInv
<1> QED
  BY <1>4, <1>5

(* A slot of the global pool goes back.                                    *)
LEMMA GiveBackPools == PoolsInv /\ GiveBack => PoolsInv'
<1> SUFFICES ASSUME PoolsInv, GiveBack PROVE PoolsInv'
  OBVIOUS
<1>1. /\ poll.pc = "giveBack" /\ SourceOf[poll.task] \in Sources
      /\ UNCHANGED <<preference, changes, limit, globalPool, sourcePools, job>>
      /\ Held = 1
  BY TasksAssumption DEF GiveBack, PoolsInv, Asking, Held
<1>2. /\ poll' \in [pc : PollPc, task : Tasks \cup {NoTask}, saturated : SUBSET Sources]
      /\ poll'.pc = "launch"
  BY <1>1 DEF GiveBack, PoolsInv, TypeOK, PollPc
<1>3. Asking' /\ Held' = 0
  BY <1>2 DEF Asking, Held
<1>4. /\ pools' \in Seq(Pool) /\ DOMAIN pools' = DOMAIN pools
      /\ \A q \in DOMAIN pools : /\ pools'[q].base = pools[q].base
                                 /\ q # globalPool => pools'[q] = pools[q]
      /\ pools'[globalPool].active = IF pools[globalPool].active > 0
                                     THEN pools[globalPool].active - 1 ELSE 0
      /\ pools[globalPool].active \in Nat
  BY Shapes, PoolSteps DEF GiveBack
<1>5. TypeOK'
  BY <1>1, <1>2, <1>4 DEF PoolsInv, TypeOK
<1>6. Running' = Running /\ Owing' = Owing
  BY <1>1 DEF Running, Owing
<1>7. Owed'
  <2>1. Cardinality(Owing) \in Nat
    BY TaskSets DEF Owing
  <2>2. pools[globalPool].active <= Cardinality(Owing) + 1
    BY <1>1 DEF PoolsInv, Owed
  <2> QED
    BY <1>1, <1>3, <1>4, <1>6, <2>1, <2>2 DEF Owed
<1>8. \A s \in Sources : sourcePools[s] # NoPool =>
         sourcePools[s] \in DOMAIN pools /\ pools'[sourcePools[s]] = pools[sourcePools[s]]
  BY <1>4, Shapes DEF PoolsInv, Apart
<1>9. Counted' /\ Steady' /\ SourceLimited'
  BY <1>1, <1>6, <1>8 DEF PoolsInv, Counted, LaunchedFrom, Steady, SourceLimited
<1>10. Knowing' /\ Apart'
  BY <1>1 DEF PoolsInv, Knowing, Apart
<1> QED
  BY <1>3, <1>5, <1>7, <1>9, <1>10 DEF PoolsInv

(* The end of a job: its own pool, ...                                     *)
LEMMA ReleasePoolPools == ASSUME PoolsInv, NEW t \in Tasks, ReleasePool(t) PROVE PoolsInv'
<1> DEFINE p == job[t].pool
<1>1. /\ job[t].pc = "running" /\ UNCHANGED jobVars
      /\ pools' = release(p) /\ job' = [job EXCEPT ![t].pc = "compare"]
  BY DEF ReleasePool
<1>2. p \in DOMAIN pools /\ globalPool \in DOMAIN pools /\ pools[globalPool].active \in Nat
  BY <1>1, Shapes
<1>3. /\ pools' \in Seq(Pool) /\ DOMAIN pools' = DOMAIN pools
      /\ \A q \in DOMAIN pools : /\ pools'[q].base = pools[q].base
                                 /\ q # p => pools'[q] = pools[q]
      /\ pools'[p].active = IF pools[p].active > 0 THEN pools[p].active - 1 ELSE 0
  BY <1>1, <1>2, Shapes, PoolSteps
<1>4. /\ job' \in [Tasks -> JobType] /\ job'[t].pc = "compare" /\ job'[t].pool = p
      /\ \A u \in Tasks : u # t => job'[u] = job[u]
  <2>1. "compare" \in JobPc
    BY DEF JobPc
  <2> QED
    BY <1>1, <1>2, <2>1, JobGoes
<1>5. TypeOK'
  BY <1>1, <1>3, <1>4 DEF PoolsInv, TypeOK, JobType, jobVars
<1>6. /\ Running' = Running \ {t} /\ t \in Running
      /\ Held' = Held
  BY <1>1, <1>4 DEF Running, Held, jobVars
<1>7. Asking'
  BY <1>1, <1>4 DEF PoolsInv, Asking, hasPool, jobVars
<1>8. Knowing'
  BY <1>1, <1>4 DEF PoolsInv, Knowing
<1>9. Apart'
  BY <1>1 DEF PoolsInv, Apart, jobVars
<1>10. Counted'
  <2>1. ASSUME NEW s \in Sources, sourcePools[s] # NoPool
        PROVE  pools'[sourcePools[s]].active = Cardinality(LaunchedFrom(sourcePools[s])')
    <3> DEFINE q == sourcePools[s]
    <3>1. /\ q \in DOMAIN pools /\ pools[q].active = Cardinality(LaunchedFrom(q))
          /\ LaunchedFrom(q) \in SUBSET Tasks
      BY <2>1, Shapes DEF PoolsInv, Counted, LaunchedFrom, Running
    <3>2. CASE q = p
      <4>1. /\ LaunchedFrom(q)' = LaunchedFrom(q) \ {t} /\ t \in LaunchedFrom(q)
            /\ LaunchedFrom(q)' \in SUBSET Tasks
        BY <1>1, <1>4, <1>6, <3>2 DEF LaunchedFrom, Running, jobVars
      <4>2. /\ Cardinality(LaunchedFrom(q)') = Cardinality(LaunchedFrom(q)) - 1
            /\ Cardinality(LaunchedFrom(q)) \in Nat
            /\ Cardinality(LaunchedFrom(q)') \in Nat
        BY <3>1, <4>1, OneMore, TaskSets
      <4>3. pools'[q].active = IF pools[q].active > 0 THEN pools[q].active - 1 ELSE 0
        BY <1>3, <3>2
      <4> QED
        BY <3>1, <4>2, <4>3
    <3>3. CASE q # p
      <4>1. LaunchedFrom(q)' = LaunchedFrom(q)
        BY <1>1, <1>4, <1>6, <3>3 DEF LaunchedFrom, Running, jobVars
      <4> QED
        BY <1>3, <3>1, <3>3, <4>1
    <3> QED
      BY <3>2, <3>3
  <2> QED
    BY <1>1, <2>1 DEF Counted, jobVars
<1>11. Owed'
  <2>1. globalPool' = globalPool /\ Owing \in SUBSET Tasks /\ Owing' \in SUBSET Tasks
    BY <1>1 DEF Owing, jobVars
  <2>2. Cardinality(Owing) \in Nat /\ Cardinality(Owing') \in Nat /\ Held \in Nat
    BY <2>1, TaskSets, Shapes
  <2>3. pools[globalPool].active <= Cardinality(Owing) + Held
    BY DEF PoolsInv, Owed
  <2>4. CASE p = globalPool
    <3>1. Owing' = Owing \ {t} /\ t \in Owing
      BY <1>1, <1>4, <2>1, <2>4 DEF Owing
    <3>2. Cardinality(Owing') = Cardinality(Owing) - 1
      BY <2>1, <3>1, OneMore
    <3>3. pools'[globalPool].active = IF pools[globalPool].active > 0
                                      THEN pools[globalPool].active - 1 ELSE 0
      BY <1>3, <2>4
    <3> QED
      BY <1>2, <1>6, <2>1, <2>2, <2>3, <3>2, <3>3 DEF Owed
  <2>5. CASE p # globalPool
    <3>1. Owing' = Owing
      BY <1>1, <1>4, <2>1, <2>5 DEF Owing
    <3>2. pools'[globalPool] = pools[globalPool]
      BY <1>2, <1>3, <2>5
    <3> QED
      BY <1>6, <2>1, <2>3, <3>1, <3>2 DEF Owed
  <2> QED
    BY <2>4, <2>5
<1>12. Steady'
  <2>1. \A u \in Running' : u \in Running /\ job'[u] = job[u]
    BY <1>4, <1>6 DEF Running
  <2>2. \A s \in Sources : sourcePools[s] # NoPool =>
          pools'[sourcePools[s]].base = pools[sourcePools[s]].base
    BY <1>3, Shapes
  <2> QED
    BY <1>1, <2>1, <2>2 DEF PoolsInv, Steady, jobVars
<1>13. SourceLimited'
  BY <1>1, <1>6, LimitStays DEF jobVars
<1> QED
  BY <1>5, <1>7, <1>8, <1>9, <1>10, <1>11, <1>12, <1>13 DEF PoolsInv

(* ... the look at the field globalPool, ...                               *)
LEMMA ComparePools == ASSUME PoolsInv, NEW t \in Tasks, Compare(t) PROVE PoolsInv'
<1> DEFINE next == IF job[t].pool # globalPool THEN "releaseGlobal" ELSE "done"
<1>1. /\ job[t].pc = "compare" /\ UNCHANGED <<pools, jobVars>>
      /\ job' = [job EXCEPT ![t].pc = next] /\ next \in JobPc
  BY DEF Compare, JobPc
<1> HIDE DEF next
<1>2. /\ job' \in [Tasks -> JobType] /\ job'[t].pc = next /\ job'[t].pool = job[t].pool
      /\ \A u \in Tasks : u # t => job'[u] = job[u]
  <2>1. job[t].pool \in DOMAIN pools \cup {NoPool}
    BY Shapes
  <2> QED
    BY <1>1, <2>1, JobGoes, Shapes
<1>3. TypeOK'
  BY <1>1, <1>2 DEF PoolsInv, TypeOK, JobType, jobVars
<1>4. /\ Running' = Running /\ Held' = Held
      /\ \A u \in Running : job'[u] = job[u]
  BY <1>1, <1>2 DEF Running, Held, jobVars, next
<1>5. Owing' = Owing
  BY <1>1, <1>2 DEF Owing, jobVars, next
<1>6. Asking'
  BY <1>1, <1>2 DEF PoolsInv, Asking, hasPool, jobVars
<1>7. Knowing'
  BY <1>1, <1>2 DEF PoolsInv, Knowing
<1>8. Apart' /\ Owed'
  BY <1>1, <1>4, <1>5 DEF PoolsInv, Apart, Owed, jobVars
<1>9. Counted'
  <2>1. \A q : LaunchedFrom(q)' = {u \in Running : job[u].pool = q'}
    BY <1>4 DEF LaunchedFrom
  <2> QED
    BY <1>1, <1>4 DEF PoolsInv, Counted, LaunchedFrom, jobVars
<1>10. Steady'
  BY <1>1, <1>4 DEF PoolsInv, Steady, jobVars
<1>11. SourceLimited'
  BY <1>1, <1>4, LimitStays DEF jobVars
<1> QED
  BY <1>3, <1>6, <1>7, <1>8, <1>9, <1>10, <1>11 DEF PoolsInv

(* ... and the slot of what is the global pool now.                        *)
LEMMA ReleaseGlobalPools == ASSUME PoolsInv, NEW t \in Tasks, ReleaseGlobal(t) PROVE PoolsInv'
<1>1. /\ job[t].pc = "releaseGlobal" /\ UNCHANGED jobVars
      /\ pools' = release(globalPool) /\ job' = [job EXCEPT ![t].pc = "done"]
  BY DEF ReleaseGlobal
<1>2. globalPool \in DOMAIN pools /\ pools[globalPool].active \in Nat
      /\ job[t].pool \in DOMAIN pools
  BY <1>1, Shapes
<1>3. /\ pools' \in Seq(Pool) /\ DOMAIN pools' = DOMAIN pools
      /\ \A q \in DOMAIN pools : /\ pools'[q].base = pools[q].base
                                 /\ q # globalPool => pools'[q] = pools[q]
      /\ pools'[globalPool].active = IF pools[globalPool].active > 0
                                     THEN pools[globalPool].active - 1 ELSE 0
  BY <1>1, <1>2, Shapes, PoolSteps
<1>4. /\ job' \in [Tasks -> JobType] /\ job'[t].pc = "done" /\ job'[t].pool = job[t].pool
      /\ \A u \in Tasks : u # t => job'[u] = job[u]
  <2>1. "done" \in JobPc
    BY DEF JobPc
  <2> QED
    BY <1>1, <1>2, <2>1, JobGoes
<1>5. TypeOK'
  BY <1>1, <1>3, <1>4 DEF PoolsInv, TypeOK, JobType, jobVars
<1>6. /\ Running' = Running /\ Held' = Held
      /\ \A u \in Running : job'[u] = job[u]
  BY <1>1, <1>4 DEF Running, Held, jobVars
<1>7. Owing' = Owing \ {t} /\ t \in Owing
  BY <1>1, <1>4 DEF Owing, jobVars
<1>8. Owed'
  <2>1. Owing \in SUBSET Tasks /\ Owing' \in SUBSET Tasks
    BY DEF Owing
  <2>2. /\ Cardinality(Owing) \in Nat /\ Cardinality(Owing') \in Nat /\ Held \in Nat
        /\ Cardinality(Owing') = Cardinality(Owing) - 1
    BY <1>7, <2>1, TaskSets, OneMore, Shapes
  <2>3. pools[globalPool].active <= Cardinality(Owing) + Held
    BY DEF PoolsInv, Owed
  <2> QED
    BY <1>1, <1>2, <1>3, <1>6, <2>2, <2>3 DEF Owed, jobVars
<1>9. \A s \in Sources : sourcePools[s] # NoPool =>
         sourcePools[s] \in DOMAIN pools /\ pools'[sourcePools[s]] = pools[sourcePools[s]]
  BY <1>3, Shapes DEF PoolsInv, Apart
<1>10. Asking'
  BY <1>1, <1>4 DEF PoolsInv, Asking, hasPool, jobVars
<1>11. Knowing'
  BY <1>1, <1>4 DEF PoolsInv, Knowing
<1>12. Apart'
  BY <1>1 DEF PoolsInv, Apart, jobVars
<1>13. Counted'
  BY <1>1, <1>6, <1>9 DEF PoolsInv, Counted, LaunchedFrom, jobVars
<1>14. Steady'
  BY <1>1, <1>6, <1>9 DEF PoolsInv, Steady, jobVars
<1>15. SourceLimited'
  BY <1>1, <1>6, LimitStays DEF jobVars
<1> QED
  BY <1>5, <1>8, <1>10, <1>11, <1>12, <1>13, <1>14, <1>15 DEF PoolsInv

(* The user's hand, and the end of a cycle.                                *)
LEMMA OtherPools == PoolsInv /\ (ChangePreference \/ EndOfCycle) => PoolsInv'
<1> SUFFICES ASSUME PoolsInv, ChangePreference \/ EndOfCycle PROVE PoolsInv'
  OBVIOUS
<1>1. /\ preference \in Limits /\ limit \in Limits /\ changes \in 0..MaxChanges
      /\ poll \in [pc : PollPc, task : Tasks \cup {NoTask}, saturated : SUBSET Sources]
  BY DEF PoolsInv, TypeOK
<1>2. CASE ChangePreference
  <2>1. preference' \in Limits /\ changes' \in 0..MaxChanges /\ changes' # 0
    BY <1>1, <1>2, LimitsAssumption DEF ChangePreference
  <2>2. UNCHANGED <<limit, pools, globalPool, sourcePools, poll, job>>
    BY <1>2 DEF ChangePreference
  <2>3. Asking' /\ Held' = Held
    BY <2>2 DEF PoolsInv, Asking, hasPool, Held
  <2> QED
    BY <1>1, <2>1, <2>2, <2>3, PoolsStay
<1>3. CASE EndOfCycle
  <2>1. /\ poll' \in [pc : PollPc, task : Tasks \cup {NoTask}, saturated : SUBSET Sources]
        /\ poll.pc = "launch" /\ poll'.pc = "wait"
        /\ UNCHANGED <<preference, changes, limit, pools, globalPool, sourcePools, job>>
    BY <1>1, <1>3 DEF EndOfCycle, PollPc
  <2>2. Asking' /\ Held' = Held
    BY <2>1 DEF Asking, Held
  <2> QED
    BY <1>1, <2>1, <2>2, PoolsStay
<1> QED
  BY <1>2, <1>3

(* The invariant of the pools.                                             *)
LEMMA PoolsInvariant == Spec => []PoolsInv
<1>1. PoolsInv /\ [Next]_vars => PoolsInv'
  <2> SUFFICES ASSUME PoolsInv, [Next]_vars PROVE PoolsInv'
    OBVIOUS
  <2>1. CASE UNCHANGED vars
    <3>1. Asking' /\ Held' = Held
      BY <2>1 DEF vars, PoolsInv, Asking, hasPool, Held
    <3> QED
      BY <2>1, <3>1, PoolsStay DEF vars, PoolsInv, TypeOK
  <2>2. CASE Next
    BY <2>2, RefreshPools, PopPools, AcquireGlobalPools, AcquireSourcePools,
       GiveBackPools, ReleasePoolPools, ComparePools, ReleaseGlobalPools, OtherPools
       DEF Next, Poll, Run
  <2> QED
    BY <2>1, <2>2
<1> QED
  BY <1>1, InitPools, PTL DEF Spec

(* The fields of JobScheduler, its pools and its jobs stay well-formed.    *)
THEOREM PoolsTyped == Spec => []TypeOK
<1>1. PoolsInv => TypeOK
  BY DEF PoolsInv
<1> QED
  BY <1>1, PoolsInvariant, PTL

(* No slot is lost, whatever the user and the sources do to the pools: a   *)
(* job gives back what it took (JobScheduler.kt, the finally block of the  *)
(* launched coroutine), if need be to the pool that took the place of the  *)
(* one it came from.                                                       *)
THEOREM SlotsComeBack == Spec => []NoSlotLost
<1>1. PoolsInv => NoSlotLost
  <2> SUFFICES ASSUME PoolsInv PROVE NoSlotLost
    OBVIOUS
  <2>1. Owing \in SUBSET Tasks /\ Unfinished \in SUBSET Tasks /\ Owing \subseteq Unfinished
    BY DEF Owing, Unfinished
  <2>2. /\ Cardinality(Owing) <= Cardinality(Unfinished)
        /\ Cardinality(Owing) \in Nat /\ Cardinality(Unfinished) \in Nat
    BY <2>1, Monotone, TaskSets
  <2>3. pools[globalPool].active <= Cardinality(Owing) + Held
        /\ pools[globalPool].active \in Nat /\ Held \in Nat
    BY Shapes DEF PoolsInv, Owed
  <2>4. pools[globalPool].active <= Cardinality(Unfinished) + Held
    BY <2>2, <2>3
  <2> QED
    BY <2>4 DEF NoSlotLost, PoolsInv, Counted, LaunchedFrom
<1> QED
  BY <1>1, PoolsInvariant, PTL

(* A source never runs more jobs than it asked for, and one high-priority  *)
(* one, while the preference stays as it is (WorkerPool.tryAcquire).       *)
THEOREM SourcesLimited == Spec => []SourceLimited
<1>1. PoolsInv => SourceLimited
  BY DEF PoolsInv
<1> QED
  BY <1>1, PoolsInvariant, PTL
=============================================================================
