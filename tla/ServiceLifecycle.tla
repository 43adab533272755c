-------------------------- MODULE ServiceLifecycle --------------------------
(***************************************************************************)
(* SchedulerService as Android creates and destroys it, and what each of   *)
(* its instances starts: a scheduler with a polling loop and runners, in a *)
(* scope of its own that nobody cancels.  JobScheduler looks at one        *)
(* scheduler that lives as long as the process; this module asks what      *)
(* happens to the work when services stop, start and overlap.              *)
(*                                                                         *)
(* Of a task the model keeps whether it is to be done, being done, left    *)
(* over from a process that died, or done; a step is one SQL statement,    *)
(* one access to pollingJob or activeJobs, one message of the main thread. *)
(***************************************************************************)
EXTENDS Integers, Sequences, FiniteSets

CONSTANTS
  Tasks,
  Instances,       (* names of services and their schedulers, used again   *)
                   (* when nothing is left of an old one                   *)
  Loops, Runners,  (* names of coroutines, used again likewise             *)
  Coroutines,      (* names of coroutines that resume, replay or unblock   *)
  MaxRequests,     (* bound: works added, and times MainActivity is created*)
  MaxDeaths        (* bound: times the process dies                        *)

ASSUME BoundsAssumption == MaxRequests \in Nat /\ MaxDeaths \in Nat

None == 0
Main == "main"
ASSUME NamesAssumption == /\ None \notin Instances \cup Loops \cup Runners
                          /\ Main \notin Coroutines

VARIABLES
  task,         (* the rows of tasks                                       *)
  owed,         (* intents the app has still to send for rows it wrote     *)
  am,           (* the instance ActivityManager would give an intent to    *)
  messages,     (* intents and destructions posted to the main thread      *)
  destroyed,    (* instances whose onDestroy has run                       *)
  pollingJob,   (* of each instance: its last polling loop                 *)
  thread,       (* the main thread and coroutines, inside start()          *)
  loop,         (* the polling loops                                       *)
  runner,       (* the launched jobs                                       *)
  requests, deaths, (* the bounds' counters                                *)
  history       (* history: see below                                      *)

memory == <<messages, destroyed, pollingJob, thread, loop, runner>>
counters == <<requests, deaths>>
vars == <<task, owed, am, memory, counters, history>>

Threads == {Main} \cup Coroutines
Intents == {"start", "resume"}

Thread == [pc : {"idle", "check", "set"}, instance : Instances \cup {None}]
Loop   == [pc : {"none", "query", "empty", "stop", "launch", "put", "wait"},
           instance : Instances \cup {None}, cancelled : BOOLEAN,
           todo : SUBSET Tasks, task : Tasks \cup {None}, late : BOOLEAN]
Runner == [pc : {"idle", "launched", "claimed"}, task : Tasks \cup {None},
           instance : Instances \cup {None}]

IdleThread == [pc |-> "idle", instance |-> None]
NoLoop     == [pc |-> "none", instance |-> None, cancelled |-> FALSE,
               todo |-> {}, task |-> None, late |-> FALSE]
IdleRunner == [pc |-> "idle", task |-> None, instance |-> None]

(* raced: a thread found no loop while another was about to start one;     *)
(* revived: a coroutine started a loop after onDestroy; overtaken: work    *)
(* was added after a loop had found none and before it called stopSelf;    *)
(* outlived: a job was launched by a service already told to stop;         *)
(* unattended: the process died and the app has not been opened since.     *)
Events == {"raced", "revived", "overtaken", "outlived", "unattended"}

TypeOK ==
  /\ task \in [Tasks -> {"absent", "pending", "running", "abandoned", "done"}]
  /\ owed \in Seq(Intents) /\ am \in Instances \cup {None}
  /\ messages \in Seq([kind : Intents \cup {"destroy"}, instance : Instances])
  /\ destroyed \subseteq Instances
  /\ pollingJob \in [Instances -> Loops \cup {None}]
  /\ thread \in [Threads -> Thread]
  /\ loop \in [Loops -> Loop] /\ runner \in [Runners -> Runner]
  /\ requests \in 0..MaxRequests /\ deaths \in 0..MaxDeaths
  /\ history \subseteq Events
  /\ \A i \in Instances :
       pollingJob[i] # None => loop[pollingJob[i]].instance = i

Forget ==
  /\ messages' = <<>> /\ destroyed' = {}
  /\ pollingJob' = [i \in Instances |-> None]
  /\ thread' = [x \in Threads |-> IdleThread]
  /\ loop' = [l \in Loops |-> NoLoop] /\ runner' = [r \in Runners |-> IdleRunner]

Init ==
  /\ task = [t \in Tasks |-> "absent"]
  /\ owed = <<>> /\ am = None /\ messages = <<>> /\ destroyed = {}
  /\ pollingJob = [i \in Instances |-> None]
  /\ thread = [x \in Threads |-> IdleThread]
  /\ loop = [l \in Loops |-> NoLoop] /\ runner = [r \in Runners |-> IdleRunner]
  /\ requests = 0 /\ deaths = 0 /\ history = {}

-----------------------------------------------------------------------------
(* The app and ActivityManager                                             *)

InUse(i) == \/ i = am
            \/ \E k \in DOMAIN messages : messages[k].instance = i
            \/ \E x \in Threads : thread[x].instance = i
            \/ \E l \in Loops : loop[l].instance = i
            \/ \E r \in Runners : runner[r].instance = i

(* startService: to the service that is started, or to a new one.          *)
Deliver(intent) ==
  LET new == CHOOSE i \in Instances : ~InUse(i)
  IN  IF am # None
      THEN /\ messages' = Append(messages, [kind |-> intent, instance |-> am])
           /\ UNCHANGED <<am, destroyed, pollingJob>>
      ELSE /\ \E i \in Instances : ~InUse(i)
           /\ am' = new
           /\ messages' = Append(messages, [kind |-> intent, instance |-> new])
           /\ destroyed' = destroyed \ {new}
           /\ pollingJob' = [pollingJob EXCEPT ![new] = None]

(* A screen writes a batch, new or to be replayed, and will send           *)
(* ACTION_START; or resumeBatch does, and will send the intents of         *)
(* unblockCrawler and resumeJob.                                           *)
AddWork(t) ==
  /\ task[t] \in {"absent", "done"} /\ requests < MaxRequests
  /\ requests' = requests + 1
  /\ task' = [task EXCEPT ![t] = "pending"]
  /\ \E intents \in {<<"start">>, <<"resume", "resume">>} : owed' = owed \o intents
  /\ loop' = [l \in Loops |-> [loop[l] EXCEPT !.late = @ \/ loop[l].pc = "stop"]]
  /\ UNCHANGED <<am, messages, destroyed, pollingJob, thread, runner, deaths, history>>

SendIntent ==
  /\ owed # <<>>
  /\ Deliver(Head(owed)) /\ owed' = Tail(owed)
  /\ UNCHANGED <<task, thread, loop, runner, counters, history>>

(* MainActivity.onCreate.                                                  *)
OpenApp ==
  /\ requests < MaxRequests
  /\ Deliver("start")
  /\ requests' = requests + 1 /\ history' = history \ {"unattended"}
  /\ UNCHANGED <<task, owed, thread, loop, runner, deaths>>

(* The process dies.  A started service is started again, START_STICKY, by *)
(* an intent without an action: it is created and nothing else.            *)
Die ==
  /\ deaths < MaxDeaths
  /\ deaths' = deaths + 1
  /\ Forget /\ owed' = <<>>
  /\ history' = history \cup {"unattended"}
  /\ UNCHANGED <<task, am, requests>>

-----------------------------------------------------------------------------
(* The main thread: onStartCommand, onDestroy                              *)

MessageIs(kind) ==
  /\ thread[Main].pc = "idle"
  /\ messages # <<>> /\ Head(messages).kind = kind
  /\ messages' = Tail(messages)

OnStart ==
  /\ MessageIs("start")
  /\ thread' = [thread EXCEPT ![Main] =
                  [pc |-> "check", instance |-> Head(messages).instance]]
  /\ UNCHANGED <<task, owed, am, destroyed, pollingJob, loop, runner, counters, history>>

(* resumeJob, replayJob, unblockCrawlerAsync: start() comes in a coroutine.*)
OnResume ==
  /\ MessageIs("resume")
  /\ \E c \in Coroutines :
       /\ thread[c].pc = "idle"
       /\ thread' = [thread EXCEPT ![c] =
                       [pc |-> "check", instance |-> Head(messages).instance]]
  /\ UNCHANGED <<task, owed, am, destroyed, pollingJob, loop, runner, counters, history>>

(* Changed: onDestroy leaves the polling loop alone.                       *)
destroyOnly ==
  /\ MessageIs("destroy")
  /\ destroyed' = destroyed \cup {Head(messages).instance}
  /\ UNCHANGED <<task, owed, am, pollingJob, thread, loop, runner, counters, history>>

(* onDestroy calls stop(), which cancels the last loop only.               *)
OnDestroy ==
  LET i == Head(messages).instance
  IN  /\ MessageIs("destroy")
      /\ destroyed' = destroyed \cup {i}
      /\ pollingJob' = [pollingJob EXCEPT ![i] = None]
      /\ loop' = IF pollingJob[i] = None THEN loop
                 ELSE [loop EXCEPT ![pollingJob[i]].cancelled = TRUE]
      /\ UNCHANGED <<task, owed, am, thread, runner, counters, history>>

-----------------------------------------------------------------------------
(* JobScheduler.start                                                      *)

isActive(i) == pollingJob[i] # None /\ ~loop[pollingJob[i]].cancelled

StartCheck(x) ==
  LET i == thread[x].instance
  IN  /\ thread[x].pc = "check"
      /\ IF isActive(i)
         THEN thread' = [thread EXCEPT ![x] = IdleThread] /\ UNCHANGED history
         ELSE /\ thread' = [thread EXCEPT ![x].pc = "set"]
              /\ history' = history \cup
                   {"raced" : y \in {z \in Threads : thread[z] = [pc |-> "set", instance |-> i]}}
      /\ UNCHANGED <<task, owed, am, messages, destroyed, pollingJob, loop, runner, counters>>

StartSet(x) ==
  LET i == thread[x].instance
  IN  /\ thread[x].pc = "set"
      /\ \E l \in Loops :
           /\ loop[l].pc = "none"
           /\ l = CHOOSE k \in Loops : loop[k].pc = "none"
           /\ loop' = [loop EXCEPT ![l] = [NoLoop EXCEPT !.pc = "query", !.instance = i]]
           /\ pollingJob' = [pollingJob EXCEPT ![i] = l]
      /\ thread' = [thread EXCEPT ![x] = IdleThread]
      /\ history' = IF i \in destroyed THEN history \cup {"revived"} ELSE history
      /\ UNCHANGED <<task, owed, am, messages, destroyed, runner, counters>>

-----------------------------------------------------------------------------
(* The polling loop: schedule, launchReadyJobs                             *)

SetLoop(l, new) == loop' = [loop EXCEPT ![l] = new]

activeJobs(i) == {runner[r].task : r \in {q \in Runners : runner[q].instance = i}}

(* A cancelled loop ends where it would suspend.                           *)
EndLoop(l) ==
  /\ loop[l].cancelled /\ loop[l].pc \in {"query", "empty", "wait"}
  /\ SetLoop(l, NoLoop)
  /\ UNCHANGED <<task, owed, am, messages, destroyed, pollingJob, thread, runner,
                 counters, history>>

(* recoverAbandoned and getRunnableTasks.                                  *)
Query(l) ==
  /\ loop[l].pc = "query" /\ ~loop[l].cancelled
  /\ task' = [t \in Tasks |-> IF task[t] = "abandoned" THEN "pending" ELSE task[t]]
  /\ LET runnable == {t \in Tasks : task'[t] = "pending"}
     IN  SetLoop(l, [loop[l] EXCEPT !.todo = runnable,
            !.pc = IF runnable = {} /\ activeJobs(loop[l].instance) = {}
                   THEN "empty" ELSE "launch"])
  /\ UNCHANGED <<owed, am, messages, destroyed, pollingJob, thread, runner,
                 counters, history>>

(* Changed: only what is runnable counts as work.                          *)
hasPendingBatches == \E t \in Tasks : task[t] = "pending"

hasActiveOrPendingBatches == \E t \in Tasks : task[t] \in {"pending", "running", "abandoned"}

DecideEmpty(l) ==
  /\ loop[l].pc = "empty" /\ ~loop[l].cancelled
  /\ SetLoop(l, [loop[l] EXCEPT !.late = FALSE,
                   !.pc = IF hasActiveOrPendingBatches THEN "wait" ELSE "stop"])
  /\ UNCHANGED <<task, owed, am, messages, destroyed, pollingJob, thread, runner,
                 counters, history>>

(* onEmptyListener: stopSelf() stops the service whatever it has been sent,*)
(* unless it has been stopped already.                                     *)
StopSelf(l) ==
  LET i == loop[l].instance
  IN  /\ loop[l].pc = "stop"
      /\ SetLoop(l, [loop[l] EXCEPT !.pc = "wait", !.late = FALSE])
      /\ IF am = i
         THEN /\ am' = None
              /\ messages' = Append(messages, [kind |-> "destroy", instance |-> i])
              /\ history' = IF loop[l].late THEN history \cup {"overtaken"} ELSE history
         ELSE UNCHANGED <<am, messages, history>>
      /\ UNCHANGED <<task, owed, destroyed, pollingJob, thread, runner, counters>>

(* Changed: a task with a running job is launched again.                   *)
launchable(i, t) == TRUE

notActive(i, t) == t \notin activeJobs(i)

(* activeJobs.containsKey, and - later - activeJobs[task.id] = job.        *)
CheckTask(l) ==
  /\ loop[l].pc = "launch" /\ loop[l].todo # {}
  /\ \E t \in loop[l].todo :
       LET rest == [loop[l] EXCEPT !.todo = @ \ {t}]
       IN  SetLoop(l, IF notActive(loop[l].instance, t)
                      THEN [rest EXCEPT !.pc = "put", !.task = t] ELSE rest)
  /\ UNCHANGED <<task, owed, am, messages, destroyed, pollingJob, thread, runner,
                 counters, history>>

LaunchTask(l) ==
  LET i == loop[l].instance
  IN  /\ loop[l].pc = "put"
      /\ \E r \in Runners :
           /\ runner[r].pc = "idle"
           /\ runner' = [runner EXCEPT ![r] =
                [pc |-> "launched", task |-> loop[l].task, instance |-> i]]
      /\ SetLoop(l, [loop[l] EXCEPT !.pc = "launch", !.task = None])
      /\ history' = IF am = i THEN history ELSE history \cup {"outlived"}
      /\ UNCHANGED <<task, owed, am, messages, destroyed, pollingJob, thread, counters>>

(* Nothing more to launch; later the trigger or the interval.              *)
Rest(l) ==
  /\ loop[l].pc = "launch" /\ loop[l].todo = {}
  /\ SetLoop(l, [loop[l] EXCEPT !.pc = "wait"])
  /\ UNCHANGED <<task, owed, am, messages, destroyed, pollingJob, thread, runner,
                 counters, history>>

Poll(l) ==
  /\ loop[l].pc = "wait" /\ ~loop[l].cancelled
  /\ SetLoop(l, [loop[l] EXCEPT !.pc = "query"])
  /\ UNCHANGED <<task, owed, am, messages, destroyed, pollingJob, thread, runner,
                 counters, history>>

-----------------------------------------------------------------------------
(* The runners: JobRunner.run, claim and end                               *)

Claim(r) ==
  /\ runner[r].pc = "launched"
  /\ task' = [task EXCEPT ![runner[r].task] = "running"]
  /\ runner' = [runner EXCEPT ![r].pc = "claimed"]
  /\ UNCHANGED <<owed, am, messages, destroyed, pollingJob, thread, loop,
                 counters, history>>

Finish(r) ==
  /\ runner[r].pc = "claimed"
  /\ task' = [task EXCEPT ![runner[r].task] = "done"]
  /\ runner' = [runner EXCEPT ![r] = IdleRunner]
  /\ UNCHANGED <<owed, am, messages, destroyed, pollingJob, thread, loop,
                 counters, history>>

(* The lease of a task whose runner died runs out.                         *)
Expire(t) ==
  /\ task[t] = "running" /\ \A r \in Runners : runner[r].task # t
  /\ task' = [task EXCEPT ![t] = "abandoned"]
  /\ UNCHANGED <<owed, am, memory, counters, history>>

-----------------------------------------------------------------------------
OnMain == OnStart \/ OnResume \/ OnDestroy
Start(x) == StartCheck(x) \/ StartSet(x)
LoopStep(l) == \/ EndLoop(l) \/ Query(l) \/ DecideEmpty(l) \/ StopSelf(l)
               \/ CheckTask(l) \/ LaunchTask(l) \/ Rest(l) \/ Poll(l)
RunnerStep(r) == Claim(r) \/ Finish(r)

Next ==
  \/ \E t \in Tasks : AddWork(t) \/ Expire(t)
  \/ SendIntent \/ OpenApp \/ Die \/ OnMain
  \/ \E x \in Threads : Start(x)
  \/ \E l \in Loops : LoopStep(l)
  \/ \E r \in Runners : RunnerStep(r)

(* Threads, coroutines and the main thread's messages are all scheduled;   *)
(* the user need not open the app, nor the process die.                    *)
Fairness ==
  /\ WF_vars(SendIntent) /\ WF_vars(OnMain)
  /\ \A t \in Tasks : WF_vars(Expire(t))
  /\ \A x \in Threads : WF_vars(Start(x))
  /\ \A l \in Loops : WF_vars(LoopStep(l))
  /\ \A r \in Runners : WF_vars(RunnerStep(r))

Spec == Init /\ [][Next]_vars /\ Fairness

-----------------------------------------------------------------------------
LiveLoops == {l \in Loops : loop[l].pc # "none" /\ ~loop[l].cancelled}

(* There is one polling loop at most, in a service that has not been       *)
(* destroyed, unless two threads raced in start() or a coroutine called it *)
(* after onDestroy.                                                        *)
OneLoop ==
  /\ "raced" \notin history =>
       \A k, l \in LiveLoops : loop[k].instance = loop[l].instance => k = l
  /\ history \cap {"raced", "revived"} = {} =>
       \A l \in LiveLoops : loop[l].instance \notin destroyed

(* A task has two runners only after one of two accidents: a race in       *)
(* start(), or a job launched by a service already told to stop, which     *)
(* outlives it (a loop begun after onDestroy can only launch such jobs).   *)
OneRunner ==
  history \cap {"raced", "outlived"} = {} =>
    \A q, r \in Runners : runner[q].task = runner[r].task /\ runner[r].task # None => q = r

(* Whatever is added is done, through any number of services, unless it    *)
(* was added to one about to stop, or the process died and the app is not  *)
(* opened again.                                                           *)
WorkDone ==
  \A t \in Tasks :
    task[t] \notin {"absent", "done"} ~>
      task[t] = "done" \/ history \cap {"overtaken", "unattended"} # {}
=============================================================================
