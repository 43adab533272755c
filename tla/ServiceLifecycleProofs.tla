----------------------- MODULE ServiceLifecycleProofs -----------------------
(***************************************************************************)
(* One polling loop, and one runner of a task, for any number of services, *)
(* threads and loops.  A thread that is between its check and its set is   *)
(* alone unless the race was noted (Single); whatever is cancelled belongs *)
(* to a destroyed service, and no destroyed service is the current one     *)
(* (Past); so that, unless a job outlived its service, all runners belong  *)
(* to the current one, whose loop has seen them (Present).                 *)
(***************************************************************************)
EXTENDS ServiceLifecycle, TLAPS

Live(l) == loop[l].pc # "none" /\ ~loop[l].cancelled
Setting(x, i) == thread[x].pc = "set" /\ thread[x].instance = i

Linked ==
  /\ \A x \in Threads : thread[x].pc = "idle" <=> thread[x].instance = None
  /\ \A l \in Loops : loop[l].pc = "none" <=> loop[l].instance = None
  /\ \A r \in Runners : runner[r].pc = "idle" => runner[r] = IdleRunner
  /\ \A r \in Runners : runner[r].pc # "idle" => runner[r].instance # None
  /\ \A i \in Instances :
       pollingJob[i] # None => Live(pollingJob[i]) /\ loop[pollingJob[i]].instance = i

Single ==
  /\ \A l \in Loops : Live(l) => pollingJob[loop[l].instance] = l
  /\ \A x \in Threads, i \in Instances : Setting(x, i) => pollingJob[i] = None
  /\ \A x, y \in Threads, i \in Instances : Setting(x, i) /\ Setting(y, i) => x = y

Past ==
  /\ am \notin destroyed
  /\ \A k \in DOMAIN messages : messages[k].kind = "destroy" => messages[k].instance # am
  /\ \A l \in Loops :
       loop[l].pc # "none" /\ loop[l].cancelled => loop[l].instance \in destroyed

Kept == \A l \in Loops : Live(l) => loop[l].instance \notin destroyed

Present ==
  /\ \A r \in Runners : runner[r].pc # "idle" => runner[r].instance = am
  /\ \A l \in Loops, r \in Runners :
       /\ Live(l) /\ loop[l].pc \in {"empty", "stop"} => runner[r].instance # loop[l].instance
       /\ Live(l) /\ loop[l].pc = "put" /\ runner[r].instance = loop[l].instance
            => runner[r].task # loop[l].task
  /\ \A q, r \in Runners :
       runner[q].task = runner[r].task /\ runner[r].task # None => q = r

ServiceInv ==
  /\ TypeOK /\ Linked /\ Past
  /\ "raced" \notin history => Single
  /\ "raced" \notin history /\ "revived" \notin history => Kept
  /\ "raced" \notin history /\ "outlived" \notin history => Present

LEMMA Records ==
  /\ NoLoop \in Loop /\ NoLoop.pc = "none" /\ NoLoop.instance = None /\ ~NoLoop.cancelled
  /\ IdleThread \in Thread /\ IdleThread.pc = "idle" /\ IdleThread.instance = None
  /\ IdleRunner \in Runner /\ IdleRunner.pc = "idle" /\ IdleRunner.task = None
  /\ IdleRunner.instance = None
BY DEF NoLoop, Loop, IdleThread, Thread, IdleRunner, Runner

LEMMA EmptyMessages ==
  << >> \in Seq([kind : Intents \cup {"destroy"}, instance : Instances]) /\ DOMAIN << >> = {}
  /\ << >> \in Seq(Intents)
OBVIOUS

(* An empty memory satisfies everything asked of memory.                   *)
LEMMA Nothing ==
  ASSUME Forget
  PROVE  /\ messages' \in Seq([kind : Intents \cup {"destroy"}, instance : Instances])
         /\ pollingJob' \in [Instances -> Loops \cup {None}]
         /\ thread' \in [Threads -> Thread] /\ loop' \in [Loops -> Loop]
         /\ runner' \in [Runners -> Runner]
         /\ Linked' /\ Single' /\ Kept' /\ Present'
         /\ DOMAIN messages' = {}
         /\ \A l \in Loops : loop'[l].pc = "none"
<1>1. messages' \in Seq([kind : Intents \cup {"destroy"}, instance : Instances])
      /\ DOMAIN messages' = {}
  BY EmptyMessages DEF Forget
<1>2. \A l \in Loops : loop'[l] = NoLoop
  BY DEF Forget
<1>3. \A x \in Threads : thread'[x] = IdleThread
  BY DEF Forget
<1>4. \A r \in Runners : runner'[r] = IdleRunner
  BY DEF Forget
<1>5. Linked'
  BY <1>2, <1>3, <1>4, Records DEF Forget, Linked
<1>6. Single' /\ Kept'
  BY <1>2, <1>3, Records DEF Single, Kept, Live, Setting
<1>7. Present'
  BY <1>2, <1>4, Records DEF Present, Live
<1> QED
  BY <1>1, <1>2, <1>5, <1>6, <1>7, Records DEF Forget

LEMMA InitInv == Init => ServiceInv
<1> SUFFICES ASSUME Init PROVE ServiceInv
  OBVIOUS
<1>1. \A l \in Loops : loop[l] = NoLoop
  BY DEF Init
<1>2. \A x \in Threads : thread[x] = IdleThread
  BY DEF Init
<1>3. \A r \in Runners : runner[r] = IdleRunner
  BY DEF Init
<1>4. Linked
  BY <1>1, <1>2, <1>3, Records DEF Init, Linked
<1>5. Single /\ Kept
  BY <1>1, <1>2, Records DEF Single, Kept, Live, Setting
<1>6. Present
  BY <1>1, <1>3, Records DEF Present, Live
<1>7. TypeOK
  BY BoundsAssumption, EmptyMessages, Records DEF Init, TypeOK, Events
<1>8. Past
  BY <1>1, EmptyMessages, Records, NamesAssumption DEF Init, Past
<1> QED
  BY <1>4, <1>5, <1>6, <1>7, <1>8 DEF ServiceInv

(* A step that moves loops along without starting, cancelling or ending    *)
(* one, and that marks a loop as idle, or a task as to be launched, only   *)
(* after looking at the runners.                                           *)
LEMMA LoopsMove ==
  ASSUME ServiceInv, loop' \in [Loops -> Loop],
         \A l \in Loops :
           /\ loop'[l].instance = loop[l].instance /\ loop'[l].cancelled = loop[l].cancelled
           /\ loop'[l].pc = "none" <=> loop[l].pc = "none"
           /\ loop'[l].pc \in {"empty", "stop"} =>
                \/ loop[l].pc \in {"empty", "stop"}
                \/ \A r \in Runners : runner[r].instance # loop[l].instance
           /\ loop'[l].pc = "put" =>
                \/ loop[l].pc = "put" /\ loop'[l].task = loop[l].task
                \/ \A r \in Runners :
                     runner[r].instance = loop[l].instance => runner[r].task # loop'[l].task,
         task' \in [Tasks -> {"absent", "pending", "running", "abandoned", "done"}],
         owed' \in Seq(Intents), requests' \in 0..MaxRequests,
         UNCHANGED <<am, messages, destroyed, pollingJob, thread, runner, deaths, history>>
  PROVE  ServiceInv'
<1>1. \A l \in Loops : Live(l)' <=> Live(l)
  BY DEF Live
<1>2. TypeOK'
  BY DEF ServiceInv, TypeOK
<1>3. Linked'
  <2>1. \A l \in Loops : loop'[l].pc = "none" <=> loop'[l].instance = None
    BY DEF ServiceInv, Linked
  <2>2. ASSUME NEW i \in Instances, pollingJob'[i] # None
        PROVE  Live(pollingJob[i])' /\ loop'[pollingJob'[i]].instance = i
    <3>1. PICK l \in Loops : pollingJob[i] = l /\ pollingJob'[i] = l
      BY <2>2 DEF ServiceInv, TypeOK
    <3>2. Live(l) /\ loop[l].instance = i
      BY <2>2, <3>1 DEF ServiceInv, Linked
    <3> QED
      BY <3>1, <3>2 DEF Live
  <2> QED
    BY <2>1, <2>2 DEF ServiceInv, Linked
<1>4. Past'
  BY DEF ServiceInv, Past
<1>5. Single => Single'
  BY <1>1 DEF Single, Setting
<1>6. Kept => Kept'
  BY <1>1 DEF Kept
<1>7. Present => Present'
  BY <1>1 DEF Present
<1> QED
  BY <1>2, <1>3, <1>4, <1>5, <1>6, <1>7 DEF ServiceInv

(* A step that leaves memory alone.                                        *)
LEMMA MemoryStays ==
  ASSUME ServiceInv, UNCHANGED <<am, memory, deaths, history>>,
         task' \in [Tasks -> {"absent", "pending", "running", "abandoned", "done"}],
         owed' \in Seq(Intents), requests' \in 0..MaxRequests
  PROVE  ServiceInv'
<1>1. TypeOK'
  BY DEF ServiceInv, TypeOK, memory
<1>2. Linked' /\ Past'
  BY DEF ServiceInv, Linked, Past, memory, Live
<1>3. (Single => Single') /\ (Kept => Kept') /\ (Present => Present')
  BY DEF Single, Kept, Present, memory, Live, Setting
<1> QED
  BY <1>1, <1>2, <1>3 DEF ServiceInv, memory

LEMMA ServiceStarts ==
  ASSUME ServiceInv, NEW intent \in Intents, Deliver(intent),
         UNCHANGED <<task, thread, loop, runner, deaths>>,
         owed' \in Seq(Intents), requests' \in 0..MaxRequests, history' \subseteq history,
         history \ {"unattended"} \subseteq history'
  PROVE  ServiceInv'
<1>1. \A e \in {"raced", "revived", "outlived"} : e \in history' <=> e \in history
  OBVIOUS
<1>2. CASE am # None
  <2>1. /\ messages' = Append(messages, [kind |-> intent, instance |-> am])
        /\ UNCHANGED <<am, destroyed, pollingJob>>
    BY <1>2 DEF Deliver
  <2>2. [kind |-> intent, instance |-> am] \in [kind : Intents \cup {"destroy"}, instance : Instances]
    BY <1>2 DEF ServiceInv, TypeOK
  <2>3. /\ messages' \in Seq([kind : Intents \cup {"destroy"}, instance : Instances])
        /\ \A k \in DOMAIN messages' :
             \/ k \in DOMAIN messages /\ messages'[k] = messages[k]
             \/ messages'[k] = [kind |-> intent, instance |-> am]
    BY <2>1, <2>2 DEF ServiceInv, TypeOK
  <2>4. TypeOK'
    BY <2>1, <2>3 DEF ServiceInv, TypeOK
  <2>5. Past'
    BY <2>1, <2>3 DEF ServiceInv, Past, Intents
  <2>6. Linked'
    BY <2>1 DEF ServiceInv, Linked, Live
  <2>7. (Single => Single') /\ (Kept => Kept') /\ (Present => Present')
    BY <2>1 DEF Single, Kept, Present, Live, Setting
  <2> QED
    BY <1>1, <2>4, <2>5, <2>6, <2>7 DEF ServiceInv
<1>3. CASE am = None
  <2>1. PICK new : new = CHOOSE i \in Instances : ~InUse(i)
    OBVIOUS
  <2>2. /\ new \in Instances /\ ~InUse(new)
        /\ am' = new
        /\ messages' = Append(messages, [kind |-> intent, instance |-> new])
        /\ destroyed' = destroyed \ {new}
        /\ pollingJob' = [pollingJob EXCEPT ![new] = None]
    BY <1>3, <2>1 DEF Deliver
  <2>3. [kind |-> intent, instance |-> new] \in [kind : Intents \cup {"destroy"}, instance : Instances]
    BY <2>2
  <2>4. /\ messages' \in Seq([kind : Intents \cup {"destroy"}, instance : Instances])
        /\ \A k \in DOMAIN messages' :
             \/ k \in DOMAIN messages /\ messages'[k] = messages[k]
             \/ messages'[k] = [kind |-> intent, instance |-> new]
    BY <2>2, <2>3 DEF ServiceInv, TypeOK
  <2>5. /\ \A k \in DOMAIN messages : messages[k].instance # new
        /\ \A x \in Threads : thread[x].instance # new
        /\ \A l \in Loops : loop[l].instance # new
        /\ new # None
    BY <2>2, NamesAssumption DEF InUse
  <2>6. /\ pollingJob' \in [Instances -> Loops \cup {None}]
        /\ pollingJob'[new] = None
        /\ \A i \in Instances : i # new => pollingJob'[i] = pollingJob[i]
    BY <2>2 DEF ServiceInv, TypeOK
  <2>7. TypeOK'
    BY <2>2, <2>4, <2>6 DEF ServiceInv, TypeOK
  <2>8. Past'
    <3>1. am' \notin destroyed'
      BY <2>2
    <3>2. ASSUME NEW k \in DOMAIN messages', messages'[k].kind = "destroy"
          PROVE  messages'[k].instance # am'
      BY <2>2, <2>4, <2>5, <3>2 DEF Intents
    <3>3. ASSUME NEW l \in Loops, loop'[l].pc # "none", loop'[l].cancelled
          PROVE  loop'[l].instance \in destroyed'
      BY <2>2, <2>5, <3>3 DEF ServiceInv, Past
    <3> QED
      BY <3>1, <3>2, <3>3 DEF Past
  <2>9. Linked'
    BY <2>6 DEF ServiceInv, Linked, TypeOK, Live
  <2>10. Single => Single'
    <3> SUFFICES ASSUME Single PROVE Single'
      OBVIOUS
    <3>1. ASSUME NEW l \in Loops, Live(l)' PROVE pollingJob'[loop'[l].instance] = l
      <4>1. Live(l) /\ loop[l].instance \in Instances
        BY <3>1 DEF Live, ServiceInv, TypeOK, Loop, Linked
      <4> QED
        BY <2>5, <2>6, <4>1 DEF Single
    <3>2. ASSUME NEW x \in Threads, NEW i \in Instances, Setting(x, i)'
          PROVE  pollingJob'[i] = None
      BY <2>6, <3>2 DEF Single, Setting
    <3>3. ASSUME NEW x \in Threads, NEW y \in Threads, NEW i \in Instances,
                 Setting(x, i)', Setting(y, i)'
          PROVE  x = y
      BY <3>3 DEF Single, Setting
    <3> QED
      BY <3>1, <3>2, <3>3 DEF Single
  <2>11. Kept => Kept'
    BY <2>2 DEF Kept, Live
  <2>12. Present => Present'
    BY <1>3 DEF Present, Live, ServiceInv, Linked
  <2> QED
    BY <1>1, <2>7, <2>8, <2>9, <2>10, <2>11, <2>12 DEF ServiceInv
<1> QED
  BY <1>2, <1>3

LEMMA TaskStep ==
  ASSUME ServiceInv, NEW t \in Tasks, AddWork(t) \/ Expire(t)
  PROVE  ServiceInv'
<1>1. ASSUME AddWork(t) PROVE ServiceInv'
  <2>1. requests' \in 0..MaxRequests
    BY <1>1, BoundsAssumption DEF AddWork, ServiceInv, TypeOK
  <2>4. owed' \in Seq(Intents)
    <3>1. PICK intents \in Seq(Intents) : owed' = owed \o intents
      <4>1. {<<"start">>, <<"resume", "resume">>} \subseteq Seq(Intents)
        BY DEF Intents
      <4> QED
        BY <1>1, <4>1 DEF AddWork
    <3> QED
      BY <3>1 DEF ServiceInv, TypeOK
  <2>2. task' \in [Tasks -> {"absent", "pending", "running", "abandoned", "done"}]
    BY <1>1 DEF AddWork, ServiceInv, TypeOK
  <2>3. loop' = [l \in Loops |-> [loop[l] EXCEPT !.late = @ \/ loop[l].pc = "stop"]]
    BY <1>1 DEF AddWork
  <2>5. ASSUME NEW l \in Loops
        PROVE  /\ loop'[l] \in Loop
               /\ loop'[l].instance = loop[l].instance
               /\ loop'[l].cancelled = loop[l].cancelled
               /\ loop'[l].pc = loop[l].pc /\ loop'[l].task = loop[l].task
    <3>1. PICK late \in BOOLEAN : late <=> loop[l].late \/ loop[l].pc = "stop"
      OBVIOUS
    <3>2. loop[l] \in Loop
      BY DEF ServiceInv, TypeOK
    <3>3. loop'[l] = [loop[l] EXCEPT !.late = (loop[l].late \/ loop[l].pc = "stop")]
      BY <2>3
    <3>4. PICK new : new = [loop[l] EXCEPT !.late = late]
      OBVIOUS
    <3>5. /\ new \in Loop /\ new.instance = loop[l].instance /\ new.pc = loop[l].pc
          /\ new.task = loop[l].task /\ new.cancelled = loop[l].cancelled
      BY <3>1, <3>2, <3>4 DEF Loop
    <3>6. loop'[l] = new
      BY <3>1, <3>3, <3>4
    <3> QED
      BY <3>5, <3>6
  <2>6. loop' \in [Loops -> Loop]
    BY <2>3, <2>5
  <2> QED
    BY <1>1, <2>1, <2>2, <2>4, <2>5, <2>6, LoopsMove DEF AddWork
<1>2. ASSUME Expire(t) PROVE ServiceInv'
  <2>1. task' \in [Tasks -> {"absent", "pending", "running", "abandoned", "done"}]
    BY <1>2 DEF Expire, ServiceInv, TypeOK
  <2> QED
    BY <1>2, <2>1, MemoryStays DEF Expire, counters, ServiceInv, TypeOK
<1> QED
  BY <1>1, <1>2

LEMMA AppStep == ServiceInv /\ (SendIntent \/ OpenApp \/ Die) => ServiceInv'
<1> SUFFICES ASSUME ServiceInv PROVE SendIntent \/ OpenApp \/ Die => ServiceInv'
  OBVIOUS
<1>1. ASSUME SendIntent PROVE ServiceInv'
  <2>1. Head(owed) \in Intents /\ Tail(owed) \in Seq(Intents)
    BY <1>1 DEF SendIntent, ServiceInv, TypeOK
  <2> QED
    BY <1>1, <2>1, ServiceStarts DEF SendIntent, counters, ServiceInv, TypeOK
<1>2. ASSUME OpenApp PROVE ServiceInv'
  <2>1. requests' \in 0..MaxRequests /\ "start" \in Intents
    BY <1>2, BoundsAssumption DEF OpenApp, ServiceInv, TypeOK, Intents
  <2> QED
    BY <1>2, <2>1, ServiceStarts DEF OpenApp, ServiceInv, TypeOK
<1>3. ASSUME Die PROVE ServiceInv'
  <2>1. /\ messages' \in Seq([kind : Intents \cup {"destroy"}, instance : Instances])
        /\ pollingJob' \in [Instances -> Loops \cup {None}]
        /\ thread' \in [Threads -> Thread] /\ loop' \in [Loops -> Loop]
        /\ runner' \in [Runners -> Runner]
        /\ Linked' /\ Single' /\ Kept' /\ Present'
        /\ DOMAIN messages' = {}
        /\ \A l \in Loops : loop'[l].pc = "none"
    BY <1>3, Nothing DEF Die
  <2>2. TypeOK'
    BY <1>3, <2>1, BoundsAssumption, EmptyMessages
    DEF Die, Forget, ServiceInv, TypeOK, Events, Linked
  <2>3. Past'
    BY <1>3, <2>1 DEF Die, Forget, Past
  <2> QED
    BY <2>1, <2>2, <2>3 DEF ServiceInv
<1> QED
  BY <1>1, <1>2, <1>3

LEMMA TailOf ==
  ASSUME NEW S, NEW q \in Seq(S), q # << >>
  PROVE  /\ Tail(q) \in Seq(S) /\ q[1] \in S /\ Head(q) = q[1] /\ 1 \in DOMAIN q
         /\ \A k \in DOMAIN Tail(q) : k + 1 \in DOMAIN q /\ Tail(q)[k] = q[k + 1]
OBVIOUS

LEMMA ElementOf ==
  ASSUME NEW S, NEW q \in Seq(S), NEW k \in DOMAIN q
  PROVE  q[k] \in S
OBVIOUS

LEMMA Delivered ==
  ASSUME TypeOK, messages # << >>, messages' = Tail(messages)
  PROVE  /\ messages' \in Seq([kind : Intents \cup {"destroy"}, instance : Instances])
         /\ Head(messages).instance \in Instances
         /\ \A k \in DOMAIN messages' : k + 1 \in DOMAIN messages /\ messages'[k] = messages[k + 1]
         /\ 1 \in DOMAIN messages /\ Head(messages) = messages[1]
<1>1. messages \in Seq([kind : Intents \cup {"destroy"}, instance : Instances])
  BY DEF TypeOK
<1>2. messages[1] \in [kind : Intents \cup {"destroy"}, instance : Instances]
  BY <1>1, TailOf
<1>3. Tail(messages) \in Seq([kind : Intents \cup {"destroy"}, instance : Instances])
  BY <1>1, TailOf
<1>4. /\ Head(messages) = messages[1] /\ 1 \in DOMAIN messages
      /\ \A k \in DOMAIN Tail(messages) : k + 1 \in DOMAIN messages
                                         /\ Tail(messages)[k] = messages[k + 1]
  BY <1>1, TailOf
<1>5. Head(messages).instance \in Instances
  BY <1>2, <1>4
<1> QED
  BY <1>3, <1>4, <1>5

LEMMA IntentArrives ==
  ASSUME ServiceInv, NEW x \in Threads, thread[x].pc = "idle", messages # << >>,
         messages' = Tail(messages),
         thread' = [thread EXCEPT ![x] =
                      [pc |-> "check", instance |-> Head(messages).instance]],
         UNCHANGED <<task, owed, am, destroyed, pollingJob, loop, runner, counters, history>>
  PROVE  ServiceInv'
<1> PICK i : i = Head(messages).instance
  OBVIOUS
<1>1. /\ messages' \in Seq([kind : Intents \cup {"destroy"}, instance : Instances])
      /\ i \in Instances
      /\ \A k \in DOMAIN messages' : k + 1 \in DOMAIN messages /\ messages'[k] = messages[k + 1]
  BY Delivered DEF ServiceInv
<1>2. /\ thread' \in [Threads -> Thread]
      /\ thread'[x].pc = "check" /\ thread'[x].instance = i
      /\ \A y \in Threads : y # x => thread'[y] = thread[y]
  BY <1>1 DEF ServiceInv, TypeOK, Thread
<1>3. TypeOK'
  BY <1>1, <1>2 DEF ServiceInv, TypeOK, counters
<1>4. Linked'
  BY <1>1, <1>2, NamesAssumption DEF ServiceInv, Linked, Live
<1>5. Past'
  BY <1>1 DEF ServiceInv, Past
<1>6. Single => Single'
  BY <1>2 DEF Single, Live, Setting
<1>7. (Kept => Kept') /\ (Present => Present')
  BY DEF Kept, Present, Live
<1> QED
  BY <1>3, <1>4, <1>5, <1>6, <1>7 DEF ServiceInv

LEMMA MainStep ==
  ASSUME ServiceInv, OnMain
  PROVE  ServiceInv'
<1>1. ASSUME OnStart PROVE ServiceInv'
  BY <1>1, IntentArrives DEF OnStart, MessageIs, Threads
<1>2. ASSUME OnResume PROVE ServiceInv'
  BY <1>2, IntentArrives DEF OnResume, MessageIs, Threads
<1>3. ASSUME OnDestroy PROVE ServiceInv'
  <2> PICK i : i = Head(messages).instance
    OBVIOUS
  <2>1. /\ messages # << >> /\ Head(messages).kind = "destroy"
        /\ messages' = Tail(messages)
        /\ destroyed' = destroyed \cup {i}
        /\ pollingJob' = [pollingJob EXCEPT ![i] = None]
        /\ loop' = IF pollingJob[i] = None THEN loop
                   ELSE [loop EXCEPT ![pollingJob[i]].cancelled = TRUE]
        /\ UNCHANGED <<task, owed, am, thread, runner, counters, history>>
    BY <1>3 DEF OnDestroy, MessageIs
  <2>2. /\ messages' \in Seq([kind : Intents \cup {"destroy"}, instance : Instances])
        /\ i \in Instances
        /\ \A k \in DOMAIN messages' : k + 1 \in DOMAIN messages /\ messages'[k] = messages[k + 1]
        /\ 1 \in DOMAIN messages /\ messages[1].instance = i /\ messages[1].kind = "destroy"
    BY <2>1, Delivered DEF ServiceInv
  <2>3. /\ pollingJob' \in [Instances -> Loops \cup {None}]
        /\ pollingJob'[i] = None
        /\ \A j \in Instances : j # i => pollingJob'[j] = pollingJob[j]
    BY <2>1, <2>2 DEF ServiceInv, TypeOK
  <2>4. /\ loop' \in [Loops -> Loop]
        /\ \A l \in Loops :
             /\ loop'[l].pc = loop[l].pc /\ loop'[l].instance = loop[l].instance
             /\ loop'[l].task = loop[l].task
             /\ l # pollingJob[i] => loop'[l] = loop[l]
             /\ l = pollingJob[i] => loop'[l].cancelled
             /\ loop[l].cancelled => loop'[l].cancelled
    <3>1. CASE pollingJob[i] = None
      BY <2>1, <3>1, NamesAssumption DEF ServiceInv, TypeOK
    <3>2. CASE pollingJob[i] # None
      <4>1. PICK m \in Loops : m = pollingJob[i]
        BY <2>2, <3>2 DEF ServiceInv, TypeOK
      <4>2. loop' = [loop EXCEPT ![m].cancelled = TRUE]
        BY <2>1, <3>2, <4>1
      <4>3. loop[m] \in Loop /\ loop \in [Loops -> Loop]
        BY <4>1 DEF ServiceInv, TypeOK
      <4>8. PICK new : new = [loop[m] EXCEPT !.cancelled = TRUE]
        OBVIOUS
      <4>9. new \in Loop
        BY <4>3, <4>8 DEF Loop
      <4>10. /\ new.pc = loop[m].pc /\ new.task = loop[m].task
             /\ new.instance = loop[m].instance
        BY <4>3, <4>8 DEF Loop
      <4>11. new.cancelled
        BY <4>3, <4>8, Zenon DEF Loop
      <4>5. loop' = [loop EXCEPT ![m] = new]
        BY <4>2, <4>8
      <4>6. loop' \in [Loops -> Loop] /\ loop'[m] = new
            /\ \A l \in Loops : l # m => loop'[l] = loop[l]
        BY <4>3, <4>5, <4>9
      <4>7. loop'[m].cancelled
        BY <4>6, <4>11, Zenon
      <4> QED
        BY <4>1, <4>6, <4>7, <4>10, Zenon
    <3> QED
      BY <3>1, <3>2
  <2>5. /\ \A l \in Loops : Live(l)' => Live(l) /\ l # pollingJob[i]
        /\ \A l \in Loops : Live(l) /\ l # pollingJob[i] => Live(l)'
    BY <2>4 DEF Live
  <2>6. TypeOK'
    <3>1. ASSUME NEW j \in Instances, pollingJob'[j] # None
          PROVE  loop'[pollingJob'[j]].instance = j
      BY <2>3, <2>4, <3>1 DEF ServiceInv, TypeOK
    <3> QED
      BY <2>1, <2>2, <2>3, <2>4, <3>1 DEF ServiceInv, TypeOK, counters
  <2>7. Linked'
    <3>1. ASSUME NEW j \in Instances, pollingJob'[j] # None
          PROVE  Live(pollingJob[j])' /\ loop'[pollingJob'[j]].instance = j
      <4>1. PICK l \in Loops : pollingJob[j] = l /\ pollingJob'[j] = l /\ j # i
        BY <2>3, <3>1 DEF ServiceInv, TypeOK
      <4>2. Live(l) /\ loop[l].instance = j
        BY <3>1, <4>1 DEF ServiceInv, Linked
      <4>3. l # pollingJob[i]
        BY <2>2, <4>1, <4>2, NamesAssumption DEF ServiceInv, Linked
      <4> QED
        BY <2>4, <4>1, <4>2, <4>3 DEF Live
    <3> QED
      BY <2>1, <2>4, <3>1 DEF ServiceInv, Linked
  <2>8. Past'
    <3>1. am' \notin destroyed'
      BY <2>1, <2>2 DEF ServiceInv, Past
    <3>2. \A k \in DOMAIN messages' : messages'[k].kind = "destroy" => messages'[k].instance # am'
      BY <2>1, <2>2 DEF ServiceInv, Past
    <3>3. ASSUME NEW l \in Loops, loop'[l].pc # "none", loop'[l].cancelled
          PROVE  loop'[l].instance \in destroyed'
      <4>1. CASE l = pollingJob[i]
        BY <2>1, <2>2, <2>4, <4>1, NamesAssumption DEF ServiceInv, TypeOK
      <4>2. CASE l # pollingJob[i]
        BY <2>1, <2>4, <3>3, <4>2 DEF ServiceInv, Past
      <4> QED
        BY <4>1, <4>2
    <3> QED
      BY <3>1, <3>2, <3>3 DEF Past
  <2>9. Single => Single' /\ (Kept => Kept')
    <3> SUFFICES ASSUME Single PROVE Single' /\ (Kept => Kept')
      OBVIOUS
    <3>1. ASSUME NEW l \in Loops, Live(l)'
          PROVE  pollingJob'[loop'[l].instance] = l /\ loop'[l].instance # i
      <4>1. Live(l) /\ l # pollingJob[i] /\ loop'[l].instance = loop[l].instance
        BY <2>4, <2>5, <3>1
      <4>2. loop[l].instance \in Instances /\ pollingJob[loop[l].instance] = l
        BY <4>1 DEF Single, Live, ServiceInv, TypeOK, Linked, Loop
      <4> QED
        BY <2>3, <4>1, <4>2
    <3>2. \A x \in Threads, j \in Instances : Setting(x, j)' <=> Setting(x, j)
      BY <2>1 DEF Setting
    <3>3. Single'
      BY <2>3, <3>1, <3>2 DEF Single
    <3>4. Kept => Kept'
      BY <2>1, <2>4, <2>5, <3>1 DEF Kept
    <3> QED
      BY <3>3, <3>4
  <2>10. Present => Present'
    BY <2>1, <2>4, <2>5 DEF Present
  <2> QED
    BY <2>1, <2>6, <2>7, <2>8, <2>9, <2>10 DEF ServiceInv
<1> QED
  BY <1>1, <1>2, <1>3 DEF OnMain

LEMMA ThreadStep ==
  ASSUME ServiceInv, NEW x \in Threads, Start(x)
  PROVE  ServiceInv'
<1> PICK i : i = thread[x].instance
  OBVIOUS
<1>1. thread[x].pc # "idle" => i \in Instances /\ i # None
  BY NamesAssumption DEF ServiceInv, TypeOK, Thread, Linked
<1>2. ASSUME StartCheck(x), isActive(i) PROVE ServiceInv'
  <2>1. /\ thread' = [thread EXCEPT ![x] = IdleThread]
        /\ UNCHANGED <<history, task, owed, am, messages, destroyed, pollingJob, loop,
                       runner, counters>>
    BY <1>2 DEF StartCheck
  <2>2. thread' \in [Threads -> Thread] /\ thread'[x] = IdleThread
        /\ \A y \in Threads : y # x => thread'[y] = thread[y]
    BY <2>1, Records DEF ServiceInv, TypeOK
  <2>3. \A y \in Threads, j \in Instances : Setting(y, j)' => Setting(y, j)
    BY <2>2, Records DEF Setting
  <2>4. TypeOK' /\ Past'
    BY <2>1, <2>2 DEF ServiceInv, TypeOK, Past, counters
  <2>5. Linked'
    BY <2>1, <2>2, Records DEF ServiceInv, Linked, Live
  <2>6. (Single => Single') /\ (Kept => Kept') /\ (Present => Present')
    BY <2>1, <2>3 DEF Single, Kept, Present, Live
  <2> QED
    BY <2>1, <2>4, <2>5, <2>6 DEF ServiceInv
<1>3. ASSUME StartCheck(x), ~isActive(i) PROVE ServiceInv'
  <2>1. /\ thread[x].pc = "check"
        /\ thread' = [thread EXCEPT ![x].pc = "set"]
        /\ history' = history \cup
             {"raced" : y \in {z \in Threads : thread[z] = [pc |-> "set", instance |-> i]}}
        /\ UNCHANGED <<task, owed, am, messages, destroyed, pollingJob, loop, runner, counters>>
    BY <1>3 DEF StartCheck
  <2>2. /\ thread' \in [Threads -> Thread]
        /\ thread'[x].pc = "set" /\ thread'[x].instance = i
        /\ \A y \in Threads : y # x => thread'[y] = thread[y]
    BY <2>1 DEF ServiceInv, TypeOK, Thread
  <2>3. /\ history' \subseteq Events /\ history \subseteq history'
        /\ "revived" \in history' => "revived" \in history
        /\ "outlived" \in history' => "outlived" \in history
    BY <2>1 DEF ServiceInv, TypeOK, Events
  <2>4. ASSUME NEW y \in Threads, Setting(y, i) PROVE "raced" \in history'
    <3>1. thread[y] = [pc |-> "set", instance |-> i]
      BY <2>4 DEF Setting, ServiceInv, TypeOK, Thread
    <3> QED
      BY <2>1, <3>1
  <2>5. pollingJob[i] = None
    BY <1>1, <1>3, <2>1 DEF isActive, ServiceInv, Linked, Live
  <2>6. TypeOK' /\ Past'
    BY <2>1, <2>2, <2>3 DEF ServiceInv, TypeOK, Past, counters
  <2>7. Linked'
    BY <1>1, <2>1, <2>2 DEF ServiceInv, Linked, Live
  <2>8. "raced" \notin history' /\ Single => Single'
    <3> SUFFICES ASSUME "raced" \notin history', Single PROVE Single'
      OBVIOUS
    <3>1. \A y \in Threads, j \in Instances :
            Setting(y, j)' => (y = x /\ j = i) \/ (Setting(y, j) /\ j # i)
      BY <2>2, <2>4 DEF Setting
    <3> QED
      BY <2>1, <2>5, <3>1 DEF Single, Live
  <2>9. (Kept => Kept') /\ (Present => Present')
    BY <2>1 DEF Kept, Present, Live
  <2> QED
    BY <2>3, <2>6, <2>7, <2>8, <2>9 DEF ServiceInv
<1>4. ASSUME StartSet(x) PROVE ServiceInv'
  <2>1. PICK l \in Loops :
          /\ loop[l].pc = "none"
          /\ loop' = [loop EXCEPT ![l] = [NoLoop EXCEPT !.pc = "query", !.instance = i]]
          /\ pollingJob' = [pollingJob EXCEPT ![i] = l]
    BY <1>4 DEF StartSet
  <2>2. /\ thread[x].pc = "set"
        /\ thread' = [thread EXCEPT ![x] = IdleThread]
        /\ history' = IF i \in destroyed THEN history \cup {"revived"} ELSE history
        /\ UNCHANGED <<task, owed, am, messages, destroyed, runner, counters>>
    BY <1>4 DEF StartSet
  <2>3. i \in Instances /\ i # None /\ l # None
    BY <1>1, <2>2, NamesAssumption
  <2>4. /\ thread' \in [Threads -> Thread] /\ thread'[x] = IdleThread
        /\ \A y \in Threads : y # x => thread'[y] = thread[y]
    BY <2>2, Records DEF ServiceInv, TypeOK
  <2>5. PICK new : new = [NoLoop EXCEPT !.pc = "query", !.instance = i]
    OBVIOUS
  <2>6. new \in Loop /\ new.pc = "query" /\ new.instance = i /\ ~new.cancelled
    BY <2>3, <2>5 DEF NoLoop, Loop
  <2>7. /\ loop' \in [Loops -> Loop] /\ loop'[l] = new
        /\ \A k \in Loops : k # l => loop'[k] = loop[k]
    BY <2>1, <2>5, <2>6 DEF ServiceInv, TypeOK
  <2>8. /\ pollingJob' \in [Instances -> Loops \cup {None}]
        /\ pollingJob'[i] = l
        /\ \A j \in Instances : j # i => pollingJob'[j] = pollingJob[j]
    BY <2>1, <2>3 DEF ServiceInv, TypeOK
  <2>9. /\ Live(l)' /\ ~Live(l)
        /\ \A k \in Loops : k # l => (Live(k)' <=> Live(k))
    BY <2>1, <2>6, <2>7 DEF Live
  <2>10. /\ history' \subseteq Events /\ history \subseteq history'
         /\ "raced" \in history' => "raced" \in history
         /\ "outlived" \in history' => "outlived" \in history
         /\ "revived" \notin history' => i \notin destroyed
    BY <2>2 DEF ServiceInv, TypeOK, Events
  <2>11. ASSUME NEW j \in Instances, pollingJob'[j] # None
         PROVE  Live(pollingJob[j])' /\ loop'[pollingJob'[j]].instance = j
    <3>1. CASE j = i
      BY <2>6, <2>7, <2>8, <2>9, <3>1 DEF Live
    <3>2. CASE j # i
      <4>1. PICK k \in Loops : pollingJob[j] = k /\ pollingJob'[j] = k
        BY <2>3, <2>8, <2>11, <3>2 DEF ServiceInv, TypeOK
      <4>2. Live(k) /\ loop[k].instance = j
        BY <2>11, <4>1 DEF ServiceInv, Linked
      <4> QED
        BY <2>7, <2>9, <4>1, <4>2 DEF Live
    <3> QED
      BY <3>1, <3>2
  <2>12. TypeOK'
    BY <2>2, <2>4, <2>7, <2>8, <2>10, <2>11 DEF ServiceInv, TypeOK, counters
  <2>13. Linked'
    BY <2>2, <2>3, <2>4, <2>6, <2>7, <2>11, Records DEF ServiceInv, Linked
  <2>14. Past'
    BY <2>2, <2>6, <2>7 DEF ServiceInv, Past
  <2>15. Single => Single'
    <3> SUFFICES ASSUME Single PROVE Single'
      OBVIOUS
    <3>1. pollingJob[i] = None /\ \A y \in Threads : Setting(y, i) => y = x
      BY <2>2, <2>3 DEF Single, Setting
    <3>2. ASSUME NEW k \in Loops, Live(k)' PROVE pollingJob'[loop'[k].instance] = k
      <4>1. CASE k = l
        BY <2>6, <2>7, <2>8, <4>1
      <4>2. CASE k # l
        <5>1. Live(k) /\ loop[k].instance \in Instances
          BY <2>9, <3>2, <4>2 DEF Live, ServiceInv, TypeOK, Linked, Loop
        <5>2. loop[k].instance # i
          BY <3>1, <5>1, NamesAssumption DEF Single
        <5> QED
          BY <2>7, <2>8, <4>2, <5>1, <5>2 DEF Single
      <4> QED
        BY <4>1, <4>2
    <3>3. ASSUME NEW y \in Threads, NEW j \in Instances, Setting(y, j)'
          PROVE  Setting(y, j) /\ j # i
      BY <2>4, <3>1, <3>3, Records DEF Setting
    <3> QED
      BY <2>8, <3>2, <3>3 DEF Single
  <2>16. Kept /\ "revived" \notin history' => Kept'
    BY <2>2, <2>6, <2>7, <2>9, <2>10 DEF Kept
  <2>17. Present => Present'
    BY <2>2, <2>6, <2>7, <2>9 DEF Present
  <2> QED
    BY <2>10, <2>12, <2>13, <2>14, <2>15, <2>16, <2>17 DEF ServiceInv
<1> QED
  BY <1>2, <1>3, <1>4 DEF Start, StartCheck

LEMMA RunningLoop ==
  ASSUME ServiceInv, NEW l \in Loops, loop[l].pc # "none"
  PROVE  loop[l] \in Loop /\ loop[l].instance \in Instances /\ loop[l].instance # None
BY NamesAssumption DEF ServiceInv, TypeOK, Linked, Loop

LEMMA OneLoopMoves ==
  ASSUME ServiceInv, NEW l \in Loops, NEW new \in Loop, SetLoop(l, new),
         loop[l].pc # "none", new.pc # "none",
         new.instance = loop[l].instance, new.cancelled = loop[l].cancelled,
         new.pc \in {"empty", "stop"} =>
           \/ loop[l].pc \in {"empty", "stop"}
           \/ \A r \in Runners : runner[r].instance # loop[l].instance,
         new.pc = "put" =>
           \A r \in Runners :
             runner[r].instance = loop[l].instance => runner[r].task # new.task,
         task' \in [Tasks -> {"absent", "pending", "running", "abandoned", "done"}],
         UNCHANGED <<owed, am, messages, destroyed, pollingJob, thread, runner, counters,
                     history>>
  PROVE  ServiceInv'
<1>1. /\ loop' \in [Loops -> Loop] /\ loop'[l] = new
      /\ \A k \in Loops : k # l => loop'[k] = loop[k]
  BY DEF SetLoop, ServiceInv, TypeOK
<1>2. owed' \in Seq(Intents) /\ requests' \in 0..MaxRequests
  BY DEF ServiceInv, TypeOK, counters
<1> QED
  BY <1>1, <1>2, LoopsMove DEF counters

(* The steps of a loop that only look.                                     *)
LEMMA LookStep ==
  ASSUME ServiceInv, NEW l \in Loops,
         Query(l) \/ DecideEmpty(l) \/ CheckTask(l) \/ Rest(l) \/ Poll(l)
  PROVE  ServiceInv'
<1>1. ASSUME Query(l) PROVE ServiceInv'
  <2> DEFINE runnable == {t \in Tasks : task'[t] = "pending"}
             pc == IF runnable = {} /\ activeJobs(loop[l].instance) = {}
                   THEN "empty" ELSE "launch"
  <2>1. PICK new : new = [loop[l] EXCEPT !.todo = runnable, !.pc = pc]
    OBVIOUS
  <2>2. loop[l] \in Loop /\ loop[l].pc = "query"
    BY <1>1, RunningLoop DEF Query
  <2>3. /\ new \in Loop /\ new.pc = pc /\ new.instance = loop[l].instance
        /\ new.cancelled = loop[l].cancelled
    BY <2>1, <2>2 DEF Loop
  <2>4. SetLoop(l, new)
    BY <1>1, <2>1 DEF Query
  <2>5. task' \in [Tasks -> {"absent", "pending", "running", "abandoned", "done"}]
    BY <1>1 DEF Query, ServiceInv, TypeOK
  <2>6. new.pc = "empty" => \A r \in Runners : runner[r].instance # loop[l].instance
    BY <2>3 DEF activeJobs
  <2>7. new.pc \in {"empty", "launch"}
    BY <2>3
  <2>8. UNCHANGED <<owed, am, messages, destroyed, pollingJob, thread, runner, counters,
                    history>>
    BY <1>1 DEF Query
  <2> HIDE DEF runnable, pc
  <2> QED
    BY <2>2, <2>3, <2>4, <2>5, <2>6, <2>7, <2>8, OneLoopMoves
<1>2. ASSUME DecideEmpty(l) PROVE ServiceInv'
  <2>1. PICK new : new = [loop[l] EXCEPT !.late = FALSE,
                            !.pc = IF hasActiveOrPendingBatches THEN "wait" ELSE "stop"]
    OBVIOUS
  <2>2. loop[l] \in Loop /\ loop[l].pc = "empty"
    BY <1>2, RunningLoop DEF DecideEmpty
  <2>3. /\ new \in Loop /\ new.pc \in {"wait", "stop"} /\ new.instance = loop[l].instance
        /\ new.cancelled = loop[l].cancelled
    BY <2>1, <2>2 DEF Loop
  <2>4. SetLoop(l, new)
    BY <1>2, <2>1 DEF DecideEmpty
  <2> QED
    BY <1>2, <2>2, <2>3, <2>4, OneLoopMoves DEF DecideEmpty, ServiceInv, TypeOK
<1>3. ASSUME CheckTask(l) PROVE ServiceInv'
  <2>1. PICK t \in loop[l].todo :
          SetLoop(l, IF notActive(loop[l].instance, t)
                     THEN [[loop[l] EXCEPT !.todo = @ \ {t}] EXCEPT !.pc = "put", !.task = t]
                     ELSE [loop[l] EXCEPT !.todo = @ \ {t}])
    BY <1>3 DEF CheckTask
  <2>2. loop[l] \in Loop /\ loop[l].pc = "launch"
    BY <1>3, RunningLoop DEF CheckTask
  <2>3. PICK rest : rest = [loop[l] EXCEPT !.todo = @ \ {t}]
    OBVIOUS
  <2>4. /\ rest \in Loop /\ rest.pc = "launch" /\ rest.instance = loop[l].instance
        /\ rest.cancelled = loop[l].cancelled /\ t \in Tasks
    BY <2>2, <2>3 DEF Loop
  <2>5. CASE notActive(loop[l].instance, t)
    <3>1. PICK new : new = [rest EXCEPT !.pc = "put", !.task = t]
      OBVIOUS
    <3>2. /\ new \in Loop /\ new.pc = "put" /\ new.instance = loop[l].instance
          /\ new.cancelled = loop[l].cancelled /\ new.task = t
      BY <2>4, <3>1 DEF Loop
    <3>3. SetLoop(l, new)
      BY <2>1, <2>3, <2>5, <3>1
    <3>4. \A r \in Runners : runner[r].instance = loop[l].instance => runner[r].task # new.task
      BY <2>5, <3>2 DEF notActive, activeJobs
    <3> QED
      BY <1>3, <2>2, <3>2, <3>3, <3>4, OneLoopMoves DEF CheckTask, ServiceInv, TypeOK
  <2>6. CASE ~notActive(loop[l].instance, t)
    <3>1. SetLoop(l, rest)
      BY <2>1, <2>3, <2>6
    <3> QED
      BY <1>3, <2>2, <2>4, <3>1, OneLoopMoves DEF CheckTask, ServiceInv, TypeOK
  <2> QED
    BY <2>5, <2>6
<1>4. ASSUME Rest(l) PROVE ServiceInv'
  <2>1. PICK new : new = [loop[l] EXCEPT !.pc = "wait"]
    OBVIOUS
  <2>2. loop[l] \in Loop /\ loop[l].pc = "launch"
    BY <1>4, RunningLoop DEF Rest
  <2>3. /\ new \in Loop /\ new.pc = "wait" /\ new.instance = loop[l].instance
        /\ new.cancelled = loop[l].cancelled
    BY <2>1, <2>2 DEF Loop
  <2>4. SetLoop(l, new)
    BY <1>4, <2>1 DEF Rest
  <2> QED
    BY <1>4, <2>2, <2>3, <2>4, OneLoopMoves DEF Rest, ServiceInv, TypeOK
<1>5. ASSUME Poll(l) PROVE ServiceInv'
  <2>1. PICK new : new = [loop[l] EXCEPT !.pc = "query"]
    OBVIOUS
  <2>2. loop[l] \in Loop /\ loop[l].pc = "wait"
    BY <1>5, RunningLoop DEF Poll
  <2>3. /\ new \in Loop /\ new.pc = "query" /\ new.instance = loop[l].instance
        /\ new.cancelled = loop[l].cancelled
    BY <2>1, <2>2 DEF Loop
  <2>4. SetLoop(l, new)
    BY <1>5, <2>1 DEF Poll
  <2> QED
    BY <1>5, <2>2, <2>3, <2>4, OneLoopMoves DEF Poll, ServiceInv, TypeOK
<1> QED
  BY <1>1, <1>2, <1>3, <1>4, <1>5

LEMMA EndStep ==
  ASSUME ServiceInv, NEW l \in Loops, EndLoop(l)
  PROVE  ServiceInv'
<1>1. /\ loop' \in [Loops -> Loop] /\ loop'[l] = NoLoop
      /\ \A k \in Loops : k # l => loop'[k] = loop[k]
  BY Records DEF EndLoop, SetLoop, ServiceInv, TypeOK
<1>2. ~Live(l) /\ ~Live(l)' /\ \A k \in Loops : k # l => (Live(k)' <=> Live(k))
  BY <1>1, Records DEF EndLoop, Live
<1>3. UNCHANGED <<task, owed, am, messages, destroyed, pollingJob, thread, runner,
                  counters, history>>
  BY DEF EndLoop
<1>4. ASSUME NEW i \in Instances, pollingJob'[i] # None
      PROVE  Live(pollingJob[i])' /\ loop'[pollingJob'[i]].instance = i
  <2>1. PICK k \in Loops : pollingJob[i] = k /\ pollingJob'[i] = k
    BY <1>3, <1>4 DEF ServiceInv, TypeOK
  <2>2. Live(k) /\ loop[k].instance = i
    BY <1>4, <2>1 DEF ServiceInv, Linked
  <2> QED
    BY <1>1, <1>2, <2>1, <2>2 DEF Live
<1>5. TypeOK'
  BY <1>1, <1>3, <1>4 DEF ServiceInv, TypeOK, counters
<1>6. Linked'
  BY <1>1, <1>3, <1>4, Records DEF ServiceInv, Linked
<1>7. Past'
  BY <1>1, <1>3, Records DEF ServiceInv, Past
<1>8. (Single => Single') /\ (Kept => Kept')
  BY <1>1, <1>2, <1>3 DEF Single, Kept, Setting
<1>9. Present => Present'
  BY <1>1, <1>2, <1>3 DEF Present
<1> QED
  BY <1>3, <1>5, <1>6, <1>7, <1>8, <1>9 DEF ServiceInv

(* Whoever calls stopSelf has seen that no runner is left, unless it was   *)
(* cancelled, and then its service is not the current one.                 *)
LEMMA StopStep ==
  ASSUME ServiceInv, NEW l \in Loops, StopSelf(l)
  PROVE  ServiceInv'
<1> PICK i : i = loop[l].instance
  OBVIOUS
<1> PICK new : new = [loop[l] EXCEPT !.pc = "wait", !.late = FALSE]
  OBVIOUS
<1>1. loop[l] \in Loop /\ loop[l].pc = "stop" /\ i \in Instances /\ i # None
  BY RunningLoop DEF StopSelf
<1>2. /\ new \in Loop /\ new.pc = "wait" /\ new.instance = i
      /\ new.cancelled = loop[l].cancelled
  BY <1>1 DEF Loop
<1>3. SetLoop(l, new)
  BY DEF StopSelf
<1>4. CASE am # i
  BY <1>1, <1>2, <1>3, <1>4, OneLoopMoves DEF StopSelf, ServiceInv, TypeOK
<1>5. CASE am = i
  <2>1. /\ am' = None
        /\ messages' = Append(messages, [kind |-> "destroy", instance |-> i])
        /\ history' = IF loop[l].late THEN history \cup {"overtaken"} ELSE history
        /\ UNCHANGED <<task, owed, destroyed, pollingJob, thread, runner, counters>>
    BY <1>5 DEF StopSelf
  <2>2. [kind |-> "destroy", instance |-> i] \in [kind : Intents \cup {"destroy"}, instance : Instances]
    BY <1>1
  <2>3. messages' \in Seq([kind : Intents \cup {"destroy"}, instance : Instances])
    BY <2>1, <2>2 DEF ServiceInv, TypeOK
  <2>4. \A k \in DOMAIN messages' : messages'[k].instance \in Instances
    <3>1. \A k \in DOMAIN messages' :
            messages'[k] \in [kind : Intents \cup {"destroy"}, instance : Instances]
      BY <2>3, ElementOf
    <3> QED
      BY <3>1
  <2>5. /\ loop' \in [Loops -> Loop] /\ loop'[l] = new
        /\ \A k \in Loops : k # l => loop'[k] = loop[k]
    BY <1>2, <1>3 DEF SetLoop, ServiceInv, TypeOK
  <2>6. /\ \A k \in Loops : /\ loop'[k].instance = loop[k].instance
                            /\ loop'[k].cancelled = loop[k].cancelled
        /\ \A k \in Loops : loop'[k].pc = "none" <=> loop[k].pc = "none"
    BY <1>1, <1>2, <2>5
  <2>7. \A k \in Loops : Live(k)' <=> Live(k)
    BY <2>6 DEF Live
  <2>8. ASSUME NEW j \in Instances, pollingJob'[j] # None
        PROVE  Live(pollingJob[j])' /\ loop'[pollingJob'[j]].instance = j
    <3>1. PICK k \in Loops : pollingJob[j] = k /\ pollingJob'[j] = k
      BY <2>1, <2>8 DEF ServiceInv, TypeOK
    <3>2. Live(k) /\ loop[k].instance = j
      BY <2>8, <3>1 DEF ServiceInv, Linked
    <3> QED
      BY <2>6, <3>1, <3>2 DEF Live
  <2>9. /\ history' \subseteq Events /\ history \subseteq history'
        /\ \A e \in {"raced", "revived", "outlived"} : e \in history' => e \in history
    BY <2>1 DEF ServiceInv, TypeOK, Events
  <2>10. TypeOK'
    BY <2>1, <2>3, <2>5, <2>8, <2>9 DEF ServiceInv, TypeOK, counters
  <2>11. Linked'
    BY <2>1, <2>6, <2>8 DEF ServiceInv, Linked
  <2>12. Past'
    <3>1. am' \notin destroyed'
      BY <2>1, NamesAssumption DEF ServiceInv, TypeOK
    <3>2. \A k \in DOMAIN messages' : messages'[k].instance # am'
      BY <2>1, <2>4, NamesAssumption
    <3> QED
      BY <2>1, <2>6, <3>1, <3>2 DEF ServiceInv, Past
  <2>13. (Single => Single') /\ (Kept => Kept')
    BY <2>1, <2>6, <2>7 DEF Single, Kept, Setting
  <2>14. Present => Present'
    <3> SUFFICES ASSUME Present PROVE Present'
      OBVIOUS
    <3>1. Live(l)
      BY <1>1, <1>5 DEF Live, ServiceInv, Past
    <3>2. \A r \in Runners : runner[r].pc = "idle"
      BY <1>1, <1>5, <3>1 DEF Present
    <3>3. \A r \in Runners : runner[r].instance = None /\ runner[r].task = None
      BY <3>2, Records DEF ServiceInv, Linked
    <3> QED
      BY <2>1, <2>6, <3>2, <3>3, RunningLoop DEF Present, Live, ServiceInv, Linked
  <2> QED
    BY <2>9, <2>10, <2>11, <2>12, <2>13, <2>14 DEF ServiceInv
<1> QED
  BY <1>4, <1>5

(* A job is launched by the current service, whose only loop has seen that *)
(* no job of its own has the task; else it is noted that it outlived one.  *)
LEMMA LaunchStep ==
  ASSUME ServiceInv, NEW l \in Loops, LaunchTask(l)
  PROVE  ServiceInv'
<1> PICK i : i = loop[l].instance
  OBVIOUS
<1> PICK t : t = loop[l].task
  OBVIOUS
<1> PICK new : new = [loop[l] EXCEPT !.pc = "launch", !.task = None]
  OBVIOUS
<1>1. loop[l] \in Loop /\ loop[l].pc = "put" /\ i \in Instances /\ i # None
  BY RunningLoop DEF LaunchTask
<1>2. /\ new \in Loop /\ new.pc = "launch" /\ new.instance = i
      /\ new.cancelled = loop[l].cancelled /\ t \in Tasks \cup {None}
  BY <1>1 DEF Loop
<1>3. PICK r \in Runners :
        /\ runner[r].pc = "idle"
        /\ runner' = [runner EXCEPT ![r] =
                        [pc |-> "launched", task |-> t, instance |-> i]]
  BY DEF LaunchTask
<1>4. /\ loop' = [loop EXCEPT ![l] = new]
      /\ history' = IF am = i THEN history ELSE history \cup {"outlived"}
      /\ UNCHANGED <<task, owed, am, messages, destroyed, pollingJob, thread, counters>>
  BY DEF LaunchTask, SetLoop
<1>5. PICK job : job = [pc |-> "launched", task |-> t, instance |-> i]
  OBVIOUS
<1>6. job \in Runner /\ job.pc = "launched" /\ job.task = t /\ job.instance = i
  BY <1>1, <1>2, <1>5 DEF Runner
<1>7. /\ runner' \in [Runners -> Runner] /\ runner'[r] = job
      /\ \A q \in Runners : q # r => runner'[q] = runner[q]
  BY <1>3, <1>5, <1>6 DEF ServiceInv, TypeOK
<1>8. /\ loop' \in [Loops -> Loop] /\ loop'[l] = new
      /\ \A k \in Loops : k # l => loop'[k] = loop[k]
  BY <1>2, <1>4 DEF ServiceInv, TypeOK
<1>9. /\ \A k \in Loops : /\ loop'[k].instance = loop[k].instance
                          /\ loop'[k].cancelled = loop[k].cancelled
      /\ \A k \in Loops : loop'[k].pc = "none" <=> loop[k].pc = "none"
  BY <1>1, <1>2, <1>8
<1>10. \A k \in Loops : Live(k)' <=> Live(k)
  BY <1>9 DEF Live
<1>11. ASSUME NEW j \in Instances, pollingJob'[j] # None
       PROVE  Live(pollingJob[j])' /\ loop'[pollingJob'[j]].instance = j
  <2>1. PICK k \in Loops : pollingJob[j] = k /\ pollingJob'[j] = k
    BY <1>4, <1>11 DEF ServiceInv, TypeOK
  <2>2. Live(k) /\ loop[k].instance = j
    BY <1>11, <2>1 DEF ServiceInv, Linked
  <2> QED
    BY <1>9, <2>1, <2>2 DEF Live
<1>12. /\ history' \subseteq Events /\ history \subseteq history'
       /\ \A e \in {"raced", "revived"} : e \in history' => e \in history
       /\ "outlived" \notin history' => am = i
  BY <1>4 DEF ServiceInv, TypeOK, Events
<1>13. TypeOK'
  BY <1>4, <1>7, <1>8, <1>11, <1>12 DEF ServiceInv, TypeOK, counters
<1>14. Linked'
  BY <1>1, <1>4, <1>6, <1>7, <1>9, <1>11 DEF ServiceInv, Linked
<1>15. Past'
  BY <1>4, <1>9 DEF ServiceInv, Past
<1>16. (Single => Single') /\ (Kept => Kept')
  BY <1>4, <1>9, <1>10 DEF Single, Kept, Setting
<1>17. Single /\ Present /\ "outlived" \notin history' => Present'
  <2> SUFFICES ASSUME Single, Present, "outlived" \notin history' PROVE Present'
    OBVIOUS
  <2>1. am = i
    BY <1>12
  <2>2. Live(l)
    BY <1>1, <2>1 DEF Live, ServiceInv, Past
  <2>3. \A k \in Loops : Live(k) /\ loop[k].instance = i => k = l
    BY <2>2 DEF Single
  <2>4. \A q \in Runners : q # r /\ runner[q].task = t => t = None
    <3> SUFFICES ASSUME NEW q \in Runners, q # r, runner[q].task = t, t # None PROVE FALSE
      OBVIOUS
    <3>1. runner[q].pc # "idle"
      BY Records DEF ServiceInv, Linked
    <3>2. runner[q].instance = i
      BY <2>1, <3>1 DEF Present
    <3> QED
      BY <1>1, <2>2, <3>2 DEF Present
  <2>5. \A q \in Runners : runner'[q].pc # "idle" => runner'[q].instance = am'
    BY <1>4, <1>6, <1>7, <2>1 DEF Present
  <2>6. ASSUME NEW k \in Loops, NEW q \in Runners, Live(k)'
        PROVE  /\ loop'[k].pc \in {"empty", "stop"} => runner'[q].instance # loop'[k].instance
               /\ loop'[k].pc = "put" /\ runner'[q].instance = loop'[k].instance
                    => runner'[q].task # loop'[k].task
    <3>1. CASE k = l
      BY <1>2, <1>8, <3>1
    <3>2. CASE k # l
      <4>1. Live(k) /\ loop[k].instance # i /\ loop'[k] = loop[k]
        BY <1>8, <1>10, <2>3, <2>6, <3>2
      <4>2. CASE q = r
        BY <1>6, <1>7, <4>1, <4>2
      <4>3. CASE q # r
        BY <1>7, <4>1, <4>3 DEF Present
      <4> QED
        BY <4>2, <4>3
    <3> QED
      BY <3>1, <3>2
  <2>7. ASSUME NEW p \in Runners, NEW q \in Runners,
               runner'[p].task = runner'[q].task, runner'[q].task # None
        PROVE  p = q
    BY <1>6, <1>7, <2>4, <2>7 DEF Present
  <2> QED
    BY <2>5, <2>6, <2>7 DEF Present
<1> QED
  BY <1>12, <1>13, <1>14, <1>15, <1>16, <1>17 DEF ServiceInv

(* A runner that goes on keeps its task and its service, one that ends     *)
(* gives both up.                                                          *)
LEMMA RunStep ==
  ASSUME ServiceInv, NEW r \in Runners, RunnerStep(r)
  PROVE  ServiceInv'
<1>1. runner[r] \in Runner /\ runner[r].pc # "idle"
  BY DEF RunnerStep, Claim, Finish, ServiceInv, TypeOK
<1>2. PICK new \in Runner :
        /\ runner' = [runner EXCEPT ![r] = new]
        /\ \/ new = IdleRunner
           \/ new.pc = "claimed" /\ new.task = runner[r].task
              /\ new.instance = runner[r].instance
  <2>1. CASE Claim(r)
    <3>1. PICK new : new = [runner[r] EXCEPT !.pc = "claimed"]
      OBVIOUS
    <3>2. new \in Runner /\ new.pc = "claimed" /\ new.task = runner[r].task
          /\ new.instance = runner[r].instance
      BY <1>1, <3>1 DEF Runner
    <3>3. runner' = [runner EXCEPT ![r] = new]
      BY <2>1, <3>1 DEF Claim
    <3> QED
      BY <3>2, <3>3
  <2>2. CASE Finish(r)
    BY <2>2, Records DEF Finish
  <2> QED
    BY <2>1, <2>2 DEF RunnerStep
<1>3. /\ runner' \in [Runners -> Runner] /\ runner'[r] = new
      /\ \A q \in Runners : q # r => runner'[q] = runner[q]
  BY <1>2 DEF ServiceInv, TypeOK
<1>4. UNCHANGED <<owed, am, messages, destroyed, pollingJob, thread, loop, counters, history>>
  BY DEF RunnerStep, Claim, Finish
<1>5. task' \in [Tasks -> {"absent", "pending", "running", "abandoned", "done"}]
  BY DEF RunnerStep, Claim, Finish, ServiceInv, TypeOK
<1>6. TypeOK'
  BY <1>3, <1>4, <1>5 DEF ServiceInv, TypeOK, counters
<1>7. Linked'
  <2>1. \A q \in Runners : runner'[q].pc = "idle" => runner'[q] = IdleRunner
    BY <1>2, <1>3 DEF ServiceInv, Linked
  <2>2. \A q \in Runners : runner'[q].pc # "idle" => runner'[q].instance # None
    BY <1>1, <1>2, <1>3, Records DEF ServiceInv, Linked
  <2> QED
    BY <1>4, <2>1, <2>2 DEF ServiceInv, Linked, Live
<1>8. Past'
  BY <1>4 DEF ServiceInv, Past
<1>9. (Single => Single') /\ (Kept => Kept')
  BY <1>4 DEF Single, Kept, Setting, Live
<1>10. Present => Present'
  <2> SUFFICES ASSUME Present PROVE Present'
    OBVIOUS
  <2>1. \A q \in Runners : \/ runner'[q] = IdleRunner
                           \/ /\ runner'[q].task = runner[q].task
                              /\ runner'[q].instance = runner[q].instance
    BY <1>2, <1>3
  <2>2. \A q \in Runners : runner'[q].pc # "idle" => runner'[q].instance = am'
    BY <1>1, <1>2, <1>3, <1>4, Records DEF Present
  <2>3. ASSUME NEW l \in Loops, NEW q \in Runners, Live(l)'
        PROVE  /\ loop'[l].pc \in {"empty", "stop"} => runner'[q].instance # loop'[l].instance
               /\ loop'[l].pc = "put" /\ runner'[q].instance = loop'[l].instance
                    => runner'[q].task # loop'[l].task
    <3>1. Live(l) /\ loop'[l] = loop[l]
      BY <1>4, <2>3 DEF Live
    <3>2. loop[l].instance # None
      BY <3>1 DEF Live, ServiceInv, Linked
    <3> QED
      BY <2>1, <3>1, <3>2, Records DEF Present
  <2>4. ASSUME NEW p \in Runners, NEW q \in Runners,
               runner'[p].task = runner'[q].task, runner'[q].task # None
        PROVE  p = q
    BY <2>1, <2>4, Records DEF Present
  <2> QED
    BY <2>2, <2>3, <2>4 DEF Present
<1> QED
  BY <1>4, <1>6, <1>7, <1>8, <1>9, <1>10 DEF ServiceInv

LEMMA Step == ServiceInv /\ [Next]_vars => ServiceInv'
<1> SUFFICES ASSUME ServiceInv, [Next]_vars PROVE ServiceInv'
  OBVIOUS
<1>1. CASE \E t \in Tasks : AddWork(t) \/ Expire(t)
  BY <1>1, TaskStep
<1>2. CASE SendIntent \/ OpenApp \/ Die
  BY <1>2, AppStep
<1>3. CASE OnMain
  BY <1>3, MainStep
<1>4. CASE \E x \in Threads : Start(x)
  BY <1>4, ThreadStep
<1>5. ASSUME NEW l \in Loops, LoopStep(l) PROVE ServiceInv'
  BY <1>5, LookStep, EndStep, StopStep, LaunchStep DEF LoopStep
<1>6. CASE \E r \in Runners : RunnerStep(r)
  BY <1>6, RunStep
<1>7. CASE UNCHANGED vars
  BY <1>7, MemoryStays DEF vars, memory, counters, ServiceInv, TypeOK
<1> QED
  BY <1>1, <1>2, <1>3, <1>4, <1>5, <1>6, <1>7 DEF Next

THEOREM ServiceInvariant == Spec => []ServiceInv
BY InitInv, Step, PTL DEF Spec

(* There is one polling loop of a service, and none of a destroyed one,    *)
(* for any number of services, threads and loops, unless it is noted that  *)
(* two threads raced in start() or that a coroutine called it late.        *)
THEOREM LoopIsSingle == Spec => []OneLoop
<1>1. ServiceInv => OneLoop
  <2> SUFFICES ASSUME ServiceInv PROVE OneLoop
    OBVIOUS
  <2>1. \A l \in LiveLoops : l \in Loops /\ Live(l)
    BY DEF LiveLoops, Live
  <2>2. "raced" \notin history =>
          \A k, l \in LiveLoops : loop[k].instance = loop[l].instance => k = l
    BY <2>1 DEF ServiceInv, Single
  <2>3. history \cap {"raced", "revived"} = {} =>
          \A l \in LiveLoops : loop[l].instance \notin destroyed
    BY <2>1 DEF ServiceInv, Kept
  <2> QED
    BY <2>2, <2>3 DEF OneLoop
<1> QED
  BY <1>1, ServiceInvariant, PTL

(* A task has one runner among those of all services, unless a race in     *)
(* start() or a job that outlived its service has been noted.              *)
THEOREM RunnerIsSingle == Spec => []OneRunner
<1>1. ServiceInv => OneRunner
  BY DEF ServiceInv, Present, OneRunner
<1> QED
  BY <1>1, ServiceInvariant, PTL
=============================================================================
