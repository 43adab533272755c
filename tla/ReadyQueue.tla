----------------------------- MODULE ReadyQueue -----------------------------
(***************************************************************************)
(* ReadyQueue and the loop of launchReadyJobs that empties it: one cycle   *)
(* of the scheduler.  Tasks are grouped by priority, and within a priority *)
(* by novel; novels take turns, so that a long download does not keep the  *)
(* others waiting, and of a source that is blocked or full nothing is      *)
(* handed out.  What becomes of a task that is handed out (there is room,  *)
(* or its source or the whole pool is full) is left open: that is the      *)
(* subject of JobScheduler and WorkerPools.                                *)
(***************************************************************************)
EXTENDS Integers, FiniteSets, SequencesExt

CONSTANTS
  Tasks, Novels, Priorities, Sources,
  NovelOf, PriorityOf,   (* of each task                                   *)
  SourceOf,              (* of each novel: its tasks' crawlerName          *)
  HighPriority,          (* tasks that are not counted as saturating       *)
  NoTask,
  MaxPops                (* bound: a high-priority task of a full source   *)
                         (* is pushed back and popped without end          *)

ASSUME TasksAssumption ==
  /\ IsFiniteSet(Tasks) /\ NoTask \notin Tasks /\ HighPriority \subseteq Tasks
  /\ NovelOf \in [Tasks -> Novels] /\ PriorityOf \in [Tasks -> Priorities]
  /\ Priorities \subseteq Int /\ IsFiniteSet(Priorities)
  /\ SourceOf \in [Novels -> Sources] /\ MaxPops \in Nat

VARIABLES
  fetched,    (* what getRunnableTasks answered                            *)
  pushed,     (* how many of these are in the queue                        *)
  novels,     (* of each bucket: the keys of the LinkedHashMap, in order   *)
  queue,      (* ... and the tasks under each key                          *)
  saturated,  (* saturatedCrawlers                                         *)
  held,       (* the popped task                                           *)
  end,        (* why the loop ended                                        *)
  popped,     (* history: every task popped                                *)
  launched    (* history: every task launched                              *)

vars == <<fetched, pushed, novels, queue, saturated, held, end, popped, launched>>

(* ORDER BY priority DESC; createdAt and rowid give any order within.      *)
Fetches ==
  UNION {{s \in SetToSeqs(S) :
            \A i, j \in DOMAIN s : i < j => PriorityOf[s[i]] >= PriorityOf[s[j]]}
         : S \in SUBSET Tasks}

(* saturatedCrawlers starts as a copy of blockedCrawlers.                  *)
Init ==
  /\ fetched \in Fetches
  /\ pushed = 0
  /\ novels = [p \in Priorities |-> << >>]
  /\ queue = [p \in Priorities |-> [n \in Novels |-> << >>]]
  /\ saturated \in SUBSET Sources
  /\ held = NoTask /\ end = "no"
  /\ popped = << >> /\ launched = << >>

(* buckets.getOrPut and novelMap.getOrPut: a key that is there keeps its   *)
(* place.                                                                  *)
withNovel(order, n) == IF Contains(order, n) THEN order ELSE Append(order, n)

(* queue.add: the task goes to the end of its novel's queue.               *)
pushLast(t) ==
  /\ novels' = [novels EXCEPT ![PriorityOf[t]] = withNovel(@, NovelOf[t])]
  /\ queue' = [queue EXCEPT ![PriorityOf[t]][NovelOf[t]] = Append(@, t)]

(* pushAll, one task per step: until it ends nothing else is done with the *)
(* queue.                                                                  *)
PushAll ==
  /\ pushed < Len(fetched)
  /\ pushLast(fetched[pushed + 1])
  /\ pushed' = pushed + 1
  /\ UNCHANGED <<fetched, saturated, held, end, popped, launched>>

Filled == pushed = Len(fetched)

(* The i-th novel of a bucket has a task, of a source not saturated.       *)
Eligible(p, i) ==
  LET n == novels[p][i]
  IN queue[p][n] # << >> /\ SourceOf[n] \notin saturated

(* Changed: only the highest bucket that is not empty is looked at.        *)
SelectedFirst(p, i) ==
  /\ Eligible(p, i)
  /\ \A j \in 1..i-1 : ~Eligible(p, j)
  /\ \A r \in Priorities : r > p => novels[r] = << >>

(* The first novel that is eligible, from the highest priority down.       *)
Selected(p, i) ==
  /\ Eligible(p, i)
  /\ \A j \in 1..i-1 : ~Eligible(p, j)
  /\ \A r \in Priorities : r > p => \A j \in DOMAIN novels[r] : ~Eligible(r, j)

(* Changed: the key of a novel without tasks stays.                        *)
servedKeepingKey(order, i, rest) == Append(RemoveAt(order, i), order[i])

(* Changed: a novel that was served keeps its place.                       *)
servedInPlace(order, i, rest) ==
  IF rest = << >> THEN RemoveAt(order, i) ELSE order

(* A novel that was served goes to the end; its key goes with its last     *)
(* task.                                                                   *)
served(order, i, rest) ==
  IF rest = << >> THEN RemoveAt(order, i)
  ELSE Append(RemoveAt(order, i), order[i])

Pop ==
  /\ Filled /\ end = "no" /\ held = NoTask
  /\ Len(popped) < MaxPops
  /\ \E p \in Priorities : \E i \in DOMAIN novels[p] :
       /\ Selected(p, i)
       /\ LET n    == novels[p][i]
              rest == Tail(queue[p][n])
          IN /\ held' = Head(queue[p][n])
             /\ queue' = [queue EXCEPT ![p][n] = rest]
             /\ novels' = [novels EXCEPT ![p] = served(@, i, rest)]
  /\ popped' = Append(popped, held')
  /\ UNCHANGED <<fetched, pushed, saturated, end, launched>>

(* pop() answers null.                                                     *)
PopNull ==
  /\ Filled /\ end = "no" /\ held = NoTask
  /\ \A p \in Priorities : \A i \in DOMAIN novels[p] : ~Selected(p, i)
  /\ end' = "null"
  /\ UNCHANGED <<fetched, pushed, novels, queue, saturated, held, popped, launched>>

(* activeJobs.containsKey(task.id): the task is dropped for this cycle.    *)
SkipActive ==
  /\ held # NoTask
  /\ held' = NoTask
  /\ UNCHANGED <<fetched, pushed, novels, queue, saturated, end, popped, launched>>

Launch ==
  /\ held # NoTask
  /\ held' = NoTask
  /\ launched' = Append(launched, held)
  /\ UNCHANGED <<fetched, pushed, novels, queue, saturated, end, popped>>

pushFirst(t) ==
  /\ novels' = [novels EXCEPT ![PriorityOf[t]] = withNovel(@, NovelOf[t])]
  /\ queue' = [queue EXCEPT ![PriorityOf[t]][NovelOf[t]] = <<t>> \o @]

(* The source's pool is full.  A high-priority task does not mark it so:   *)
(* the reserved slot is no background download's business.                 *)
SourceFull ==
  /\ held # NoTask
  /\ pushFirst(held)
  /\ saturated' = IF held \in HighPriority THEN saturated
                  ELSE saturated \cup {SourceOf[NovelOf[held]]}
  /\ held' = NoTask
  /\ UNCHANGED <<fetched, pushed, end, popped, launched>>

(* The global pool is full.                                                *)
PoolFull ==
  /\ held # NoTask
  /\ pushFirst(held)
  /\ held' = NoTask
  /\ end' = "full"
  /\ UNCHANGED <<fetched, pushed, saturated, popped, launched>>

Next == PushAll \/ Pop \/ PopNull \/ SkipActive \/ Launch \/ SourceFull \/ PoolFull

Spec == Init /\ [][Next]_vars

-----------------------------------------------------------------------------
(* Properties                                                              *)

Waiting(p, n) == ToSet(queue[p][n])
Pending == UNION {Waiting(p, n) : p \in Priorities, n \in Novels}

(* A key without tasks would be passed over for ever, tasks without a key  *)
(* would be lost; a task is in one place only, its own queue.              *)
TypeOK ==
  /\ fetched \in Seq(Tasks) /\ pushed \in 0..Len(fetched)
  /\ novels \in [Priorities -> Seq(Novels)]
  /\ queue \in [Priorities -> [Novels -> Seq(Tasks)]]
  /\ popped \in Seq(Tasks) /\ launched \in Seq(Tasks)
  /\ saturated \subseteq Sources /\ end \in {"no", "null", "full"}
  /\ held \in Tasks \cup {NoTask} /\ held \notin Pending
  /\ \A p \in Priorities :
       /\ IsInjective(novels[p])
       /\ \A n \in Novels :
            /\ n \in ToSet(novels[p]) <=> queue[p][n] # << >>
            /\ IsInjective(queue[p][n])
            /\ \A t \in Waiting(p, n) : NovelOf[t] = n /\ PriorityOf[t] = p

(* When the loop ends because pop() has nothing more to give, every task   *)
(* that was fetched has been handed out, but those of saturated sources:   *)
(* neither a blocked source nor a full one holds up another's downloads.   *)
NothingHeldBack ==
  end = "null" =>
    \A t \in ToSet(fetched) :
      t \in ToSet(popped) \/ SourceOf[NovelOf[t]] \in saturated

(* Novels take turns: between two tasks of one novel every other novel of  *)
(* the same priority that is still to be served gets one.                  *)
NovelsTakeTurns ==
  \A i, j, k \in DOMAIN popped :
    LET n == NovelOf[popped[k]]
    IN (/\ i < j /\ j < k
        /\ NovelOf[popped[i]] = NovelOf[popped[j]] /\ NovelOf[popped[i]] # n
        /\ PriorityOf[popped[i]] = PriorityOf[popped[k]]
        /\ PriorityOf[popped[j]] = PriorityOf[popped[k]])
       => \E l \in i..j : NovelOf[popped[l]] = n

(* A novel's chapters are started in the order in which they were asked    *)
(* for, and the higher priority first, whatever was pushed back between.   *)
InOrder ==
  \A i, j \in DOMAIN launched :
    i < j =>
      /\ PriorityOf[launched[i]] >= PriorityOf[launched[j]]
      /\ (/\ NovelOf[launched[i]] = NovelOf[launched[j]]
          /\ PriorityOf[launched[i]] = PriorityOf[launched[j]])
         => \E a, b \in DOMAIN fetched :
              a < b /\ fetched[a] = launched[i] /\ fetched[b] = launched[j]
=============================================================================
