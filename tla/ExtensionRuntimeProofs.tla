----------------------- MODULE ExtensionRuntimeProofs -----------------------
(***************************************************************************)
(* What holds of extensions, however many there are and however many       *)
(* coroutines manage and call them.  The registry comes first: while its   *)
(* operations do not overlap, each phase of the one under way says how far *)
(* the three places agree (Phase).  Then the calls: the mutex of an object *)
(* is held by the one call inside, so the blocks of its heap are that      *)
(* call's (HeapOK); what is destroyed is out of everyone's reach; and a    *)
(* challenge is in the flag until somebody has looked at it (CallOK).      *)
(***************************************************************************)
EXTENDS ExtensionRuntime, TLAPS

Packaged(map) == \A e \in Extensions : map[e] # 0 => disk[e] # "none"

Served(map, but) ==
  \A e \in Extensions : e \notin but /\ disk[e] = "good" => map[e] # 0

Agree == crawlers = installed /\ Packaged(installed) /\ Served(installed, {})

(* What the one operation under way has done, and what it knows.           *)
Phase(v) ==
  /\ v.pc \in {"copy", "getAll", "remove"} => Agree
  /\ v.pc \in {"load", "get", "put"} =>
       crawlers = installed /\ Packaged(installed) /\ Served(installed, {v.ext})
  /\ v.pc = "load" => disk[v.ext] = (IF v.good THEN "good" ELSE "bad")
  /\ v.pc \in {"get", "put"} => disk[v.ext] = "good" /\ v.object # 0
  /\ v.pc \in {"put", "remove", "clear", "add"} => v.map = installed
  /\ v.pc = "list" => v.map = NoObjects
  /\ v.pc = "loadEach" => Packaged(v.map) /\ Served(v.map, v.todo)
  /\ v.pc \in {"copy", "load", "get", "put", "list", "loadEach"} => ~v.uninstalls
  /\ v.pc \in {"remove", "delete"} => v.uninstalls
  /\ v.pc \in {"sync", "clear", "add", "delete"} =>
       /\ Packaged(installed)
       /\ Served(installed, IF v.uninstalls THEN {v.ext} ELSE {})
       /\ v.uninstalls => installed[v.ext] = 0
  /\ v.pc = "add" => crawlers = NoObjects
  /\ v.pc = "delete" => crawlers = installed

Busy(m) == manager[m].pc # "idle"

InPhase ==
  exclusive =>
    /\ \A m, n \in Managers : Busy(m) /\ Busy(n) => m = n
    /\ \A m \in Managers : Busy(m) => Phase(manager[m])
    /\ (\A m \in Managers : ~Busy(m)) => Agree

RegistryInv == RegistryTypeOK /\ InPhase

LEMMA IdleManagerType ==
  /\ IdleManager \in Manager /\ NoObjects \in Registry
  /\ IdleManager.pc = "idle" /\ ~IdleManager.uninstalls
  /\ IdleManager.map = NoObjects
<1>1. AnyExtension \in Extensions
  BY ExtensionsAssumption DEF AnyExtension
<1>2. NoObjects \in Registry
  BY DEF NoObjects, Registry
<1> QED
  BY <1>1, <1>2 DEF IdleManager, Manager, ManagerPc

LEMMA BeganRecord ==
  ASSUME NEW pc \in ManagerPc, NEW e \in Extensions
  PROVE  \E v \in Manager :
           /\ v = [IdleManager EXCEPT !.pc = pc, !.ext = e]
           /\ v.pc = pc /\ v.ext = e /\ ~v.uninstalls /\ v.map = NoObjects
<1> DEFINE v == [IdleManager EXCEPT !.pc = pc, !.ext = e]
<1>1. v = [[IdleManager EXCEPT !.pc = pc] EXCEPT !.ext = e]
  BY IdleManagerType DEF Manager
<1>2. v \in Manager /\ v.pc = pc /\ v.ext = e /\ ~v.uninstalls /\ v.map = NoObjects
  BY <1>1, IdleManagerType DEF Manager
<1> QED
  BY <1>2

(* One operation goes on to the record v.                                  *)
LEMMA ManagerStep ==
  ASSUME RegistryInv, NEW m \in Managers, Busy(m), NEW v \in Manager, Set(m, v),
         /\ disk' \in [Extensions -> {"none", "good", "bad"}]
         /\ installed' \in Registry /\ crawlers' \in Registry
         /\ made' \in 0..MaxObjects,
         UNCHANGED <<operations, exclusive>>,
         exclusive /\ Phase(manager[m]) =>
           /\ v.pc # "idle" => Phase(v)'
           /\ v.pc = "idle" => Agree'
  PROVE  RegistryInv'
<1>1. /\ manager' \in [Managers -> Manager] /\ manager'[m] = v
      /\ \A n \in Managers : n # m => manager'[n] = manager[n]
  BY DEF RegistryInv, RegistryTypeOK, Set
<1>2. RegistryTypeOK'
  BY <1>1 DEF RegistryInv, RegistryTypeOK
<1>3. ASSUME exclusive'
      PROVE  /\ \A a, b \in Managers : Busy(a)' /\ Busy(b)' => a = b
             /\ \A n \in Managers : Busy(n)' => Phase(manager[n])'
             /\ (\A n \in Managers : ~Busy(n)') => Agree'
  <2>1. exclusive /\ Phase(manager[m]) /\ \A n \in Managers : n # m => ~Busy(n)
    BY <1>3 DEF RegistryInv, InPhase
  <2>2. \A n \in Managers : n # m => ~Busy(n)'
    BY <1>1, <2>1 DEF Busy
  <2>3. Busy(m)' <=> v.pc # "idle"
    BY <1>1 DEF Busy
  <2>4. Phase(manager[m])' <=> Phase(v)'
    BY <1>1 DEF Phase
  <2> QED
    BY <2>1, <2>2, <2>3, <2>4
<1> QED
  BY <1>2, <1>3 DEF RegistryInv, InPhase

(* An operation begins: alone, or it ends the exclusive period.            *)
LEMMA BeginInv ==
  ASSUME RegistryInv, NEW m \in Managers, NEW e \in Extensions,
         NEW pc \in {"copy", "list", "getAll", "sync"}, Begin(m, e, pc)
  PROVE  RegistryInv'
<1>0. pc \in ManagerPc
  BY DEF ManagerPc
<1>1. PICK v \in Manager : /\ v = [IdleManager EXCEPT !.pc = pc, !.ext = e]
                           /\ v.pc = pc /\ v.ext = e /\ ~v.uninstalls /\ v.map = NoObjects
  BY <1>0, BeganRecord
<1>2. /\ manager' \in [Managers -> Manager] /\ manager'[m] = v
      /\ \A n \in Managers : n # m => manager'[n] = manager[n]
  BY <1>1 DEF RegistryInv, RegistryTypeOK, Begin, Set
<1>3. /\ UNCHANGED <<disk, installed, crawlers, made>>
      /\ operations' = operations + 1 /\ operations < MaxOperations
      /\ exclusive' = ((exclusive \/ pc = "list")
                       /\ \A n \in Managers \ {m} : manager[n].pc = "idle")
      /\ ~Busy(m)
  BY DEF Begin, Busy
<1>4. exclusive' \in BOOLEAN
  BY <1>3
<1>5. operations' \in 0..MaxOperations
  BY <1>3, BoundsAssumption DEF RegistryInv, RegistryTypeOK
<1>6. RegistryTypeOK'
  BY <1>2, <1>3, <1>4, <1>5 DEF RegistryInv, RegistryTypeOK
<1>7. ASSUME exclusive'
      PROVE  /\ \A a, b \in Managers : Busy(a)' /\ Busy(b)' => a = b
             /\ \A n \in Managers : Busy(n)' => Phase(manager[n])'
             /\ (\A n \in Managers : ~Busy(n)') => Agree'
  <2>1. /\ exclusive \/ pc = "list"
        /\ \A n \in Managers : n # m => ~Busy(n) /\ ~Busy(n)'
    BY <1>2, <1>3, <1>7 DEF Busy
  <2>2. Busy(m)'
    BY <1>1, <1>2 DEF Busy
  <2>3. pc # "list" => Agree
    BY <1>3, <2>1 DEF RegistryInv, InPhase
  <2>4. Phase(v)'
    BY <1>1, <1>3, <2>3 DEF Phase, Agree, Packaged, Served
  <2>5. Phase(manager[m])'
    BY <1>2, <2>4 DEF Phase
  <2> QED
    BY <2>1, <2>2, <2>5
<1> QED
  BY <1>6, <1>7 DEF RegistryInv, InPhase

LEMMA InstallInv ==
  ASSUME RegistryInv, NEW m \in Managers, Install(m)
  PROVE  RegistryInv'
<1> DEFINE u == manager[m]
<1>0. /\ u \in Manager /\ u.ext \in Extensions
      /\ disk \in [Extensions -> {"none", "good", "bad"}]
      /\ installed \in Registry /\ crawlers \in Registry /\ made \in 0..MaxObjects
  BY DEF RegistryInv, RegistryTypeOK, Manager
<1>1. ASSUME NEW e \in Extensions, Begin(m, e, "copy") PROVE RegistryInv'
  BY <1>1, BeginInv
<1>2. CASE CopyPackage(m)
  <2>1. PICK good \in BOOLEAN :
          /\ disk' = [disk EXCEPT ![u.ext] = IF good THEN "good" ELSE "bad"]
          /\ Set(m, [u EXCEPT !.pc = "load", !.good = good])
    BY <1>2 DEF CopyPackage
  <2>2. PICK v : v = [u EXCEPT !.pc = "load", !.good = good]
    OBVIOUS
  <2>3. v \in Manager /\ v.pc = "load" /\ v.good = good /\ v.ext = u.ext /\ v.uninstalls = u.uninstalls
    BY <1>0, <2>2 DEF Manager, ManagerPc
  <2>4. disk' \in [Extensions -> {"none", "good", "bad"}]
    BY <1>0, <2>1
  <2>5. exclusive /\ Phase(u) => Phase(v)'
    BY <1>0, <1>2, <2>1, <2>3 DEF CopyPackage, Phase, Agree, Packaged, Served
  <2> QED
    BY <1>0, <1>2, <2>1, <2>2, <2>3, <2>4, <2>5, ManagerStep DEF CopyPackage, Busy
<1>3. CASE LoadPackage(m)
  <2>1. CASE /\ u.good /\ made < MaxObjects /\ made' = made + 1
             /\ Set(m, [u EXCEPT !.pc = "get", !.object = made + 1])
    <3>1. PICK v : v = [u EXCEPT !.pc = "get", !.object = made + 1]
      OBVIOUS
    <3>2. made + 1 \in Objects /\ made' \in 0..MaxObjects
      BY <1>0, <2>1, BoundsAssumption DEF Objects
    <3>3. v \in Manager /\ v.pc = "get" /\ v.object = made + 1 /\ v.ext = u.ext /\ v.uninstalls = u.uninstalls
      BY <1>0, <3>1, <3>2 DEF Manager, ManagerPc
    <3>4. exclusive /\ Phase(u) => Phase(v)'
      BY <1>0, <1>3, <2>1, <3>3 DEF LoadPackage, Phase, Agree, Packaged, Served
    <3> QED
      BY <1>0, <1>3, <2>1, <3>1, <3>2, <3>3, <3>4, ManagerStep DEF LoadPackage, Busy
  <2>2. CASE ~u.good /\ End(m) /\ UNCHANGED made
    <3>1. exclusive /\ Phase(u) => Agree'
      BY <1>3, <2>2 DEF LoadPackage, Phase, Agree, Packaged, Served
    <3> QED
      BY <1>0, <1>3, <2>2, <3>1, IdleManagerType, ManagerStep DEF LoadPackage, Busy, End
  <2> QED
    BY <1>3, <2>1, <2>2 DEF LoadPackage
<1>4. CASE GetMap(m)
  <2>1. PICK v : v = [u EXCEPT !.pc = "put", !.map = installed]
    OBVIOUS
  <2>2. /\ v \in Manager /\ v.pc = "put" /\ v.object = u.object /\ v.ext = u.ext
        /\ v.uninstalls = u.uninstalls /\ v.map = installed
    BY <1>0, <2>1 DEF Manager, ManagerPc
  <2>3. exclusive /\ Phase(u) => Phase(v)'
    BY <1>4, <2>2 DEF GetMap, Phase, Packaged, Served
  <2> QED
    BY <1>0, <1>4, <2>1, <2>2, <2>3, ManagerStep DEF GetMap, Busy
<1>5. CASE PutMap(m)
  <2>1. PICK v : v = [u EXCEPT !.pc = "sync"]
    OBVIOUS
  <2>2. v \in Manager /\ v.pc = "sync" /\ v.uninstalls = u.uninstalls /\ v.ext = u.ext
    BY <1>0, <2>1 DEF Manager, ManagerPc
  <2>3. installed' = [u.map EXCEPT ![u.ext] = u.object] /\ installed' \in Registry
    BY <1>0, <1>5 DEF PutMap, Manager, Registry
  <2>4. exclusive /\ Phase(u) => Phase(v)'
    BY <1>0, <1>5, <2>2, <2>3 DEF PutMap, Phase, Packaged, Served, Manager, Registry
  <2> QED
    BY <1>0, <1>5, <2>1, <2>2, <2>3, <2>4, ManagerStep DEF PutMap, Goto, Busy
<1> QED
  BY <1>1, <1>2, <1>3, <1>4, <1>5 DEF Install

LEMMA LoadInv ==
  ASSUME RegistryInv, NEW m \in Managers, Load(m)
  PROVE  RegistryInv'
<1> DEFINE u == manager[m]
<1>0. /\ u \in Manager /\ u.map \in Registry /\ AnyExtension \in Extensions
      /\ disk \in [Extensions -> {"none", "good", "bad"}]
      /\ installed \in Registry /\ crawlers \in Registry /\ made \in 0..MaxObjects
  BY ExtensionsAssumption DEF RegistryInv, RegistryTypeOK, Manager, AnyExtension
<1>1. CASE Begin(m, AnyExtension, "list")
  BY <1>0, <1>1, BeginInv
<1>2. CASE ListDirectories(m)
  <2> DEFINE all == {e \in Extensions : disk[e] # "none"}
  <2>1. PICK v : v = [u EXCEPT !.pc = "loadEach", !.todo = all]
    OBVIOUS
  <2>2. /\ v \in Manager /\ v.pc = "loadEach" /\ v.todo = all
        /\ v.uninstalls = u.uninstalls /\ v.map = u.map
    BY <1>0, <2>1 DEF Manager, ManagerPc
  <2>3. exclusive /\ Phase(u) => Phase(v)'
    BY <1>0, <1>2, <2>2 DEF ListDirectories, Phase, Packaged, Served, NoObjects
  <2> QED
    BY <1>0, <1>2, <2>1, <2>2, <2>3, ManagerStep DEF ListDirectories, Busy
<1>3. CASE LoadNext(m)
  <2>1. PICK e \in u.todo :
          LET rest == [u EXCEPT !.todo = @ \ {e}]
          IN  \/ /\ disk[e] = "good" /\ made < MaxObjects
                 /\ made' = made + 1
                 /\ Set(m, [rest EXCEPT !.map[e] = made + 1])
              \/ disk[e] # "good" /\ Set(m, rest) /\ UNCHANGED made
    BY <1>3 DEF LoadNext
  <2>2. PICK rest : rest = [u EXCEPT !.todo = @ \ {e}]
    OBVIOUS
  <2>3. /\ rest \in Manager /\ rest.pc = u.pc /\ rest.todo = u.todo \ {e}
        /\ rest.uninstalls = u.uninstalls /\ rest.map = u.map
        /\ e \in Extensions
    BY <1>0, <2>2 DEF Manager
  <2>4. CASE /\ disk[e] = "good" /\ made < MaxObjects /\ made' = made + 1
             /\ Set(m, [rest EXCEPT !.map[e] = made + 1])
    <3>1. PICK v : v = [rest EXCEPT !.map[e] = made + 1]
      OBVIOUS
    <3>2. made + 1 \in Objects /\ made' \in 0..MaxObjects /\ made + 1 # 0
      BY <1>0, <2>4, BoundsAssumption DEF Objects
    <3>3. [rest.map EXCEPT ![e] = made + 1] \in Registry
      BY <2>3, <3>2 DEF Manager, Registry
    <3>4. /\ v \in Manager /\ v.pc = u.pc /\ v.todo = u.todo \ {e}
          /\ v.uninstalls = u.uninstalls /\ v.map = [u.map EXCEPT ![e] = made + 1]
      BY <2>3, <3>1, <3>3 DEF Manager
    <3>5. exclusive /\ Phase(u) => Phase(v)'
      BY <1>0, <1>3, <2>3, <2>4, <3>2, <3>4 DEF LoadNext, Phase, Packaged, Served, Registry
    <3> QED
      BY <1>0, <1>3, <2>4, <3>1, <3>2, <3>4, <3>5, ManagerStep DEF LoadNext, Busy
  <2>5. CASE disk[e] # "good" /\ Set(m, rest) /\ UNCHANGED made
    <3>1. exclusive /\ Phase(u) => Phase(rest)'
      BY <1>0, <1>3, <2>3, <2>5 DEF LoadNext, Phase, Packaged, Served
    <3> QED
      BY <1>0, <1>3, <2>3, <2>5, <3>1, ManagerStep DEF LoadNext, Busy
  <2> QED
    BY <2>1, <2>2, <2>4, <2>5
<1>4. CASE ReplaceMap(m)
  <2>1. PICK v : v = [u EXCEPT !.pc = "sync"]
    OBVIOUS
  <2>2. v \in Manager /\ v.pc = "sync" /\ v.uninstalls = u.uninstalls /\ v.ext = u.ext
    BY <1>0, <2>1 DEF Manager, ManagerPc
  <2>3. exclusive /\ Phase(u) => Phase(v)'
    BY <1>4, <2>2 DEF ReplaceMap, Phase, Packaged, Served
  <2> QED
    BY <1>0, <1>4, <2>1, <2>2, <2>3, ManagerStep DEF ReplaceMap, Goto, Busy
<1> QED
  BY <1>1, <1>2, <1>3, <1>4 DEF Load

LEMMA UninstallInv ==
  ASSUME RegistryInv, NEW m \in Managers, Uninstall(m)
  PROVE  RegistryInv'
<1> DEFINE u == manager[m]
<1>0. /\ u \in Manager /\ u.map \in Registry /\ u.ext \in Extensions
      /\ disk \in [Extensions -> {"none", "good", "bad"}]
      /\ installed \in Registry /\ crawlers \in Registry /\ made \in 0..MaxObjects
  BY DEF RegistryInv, RegistryTypeOK, Manager
<1>1. ASSUME NEW e \in Extensions, Begin(m, e, "getAll") PROVE RegistryInv'
  BY <1>1, BeginInv
<1>2. CASE CopyMap(m)
  <2>1. PICK v : v = [u EXCEPT !.pc = "remove", !.map = installed, !.uninstalls = TRUE]
    OBVIOUS
  <2>2. /\ v \in Manager /\ v.pc = "remove" /\ v.map = installed
        /\ v.uninstalls /\ v.ext = u.ext
    BY <1>0, <2>1 DEF Manager, ManagerPc
  <2>3. exclusive /\ Phase(u) => Phase(v)'
    BY <1>2, <2>2 DEF CopyMap, Phase, Agree, Packaged, Served
  <2> QED
    BY <1>0, <1>2, <2>1, <2>2, <2>3, ManagerStep DEF CopyMap, Busy
<1>3. CASE RemoveFromMap(m)
  <2>1. PICK v : v = [u EXCEPT !.pc = "sync"]
    OBVIOUS
  <2>2. v \in Manager /\ v.pc = "sync" /\ v.uninstalls = u.uninstalls /\ v.ext = u.ext
    BY <1>0, <2>1 DEF Manager, ManagerPc
  <2>3. installed' = [u.map EXCEPT ![u.ext] = 0] /\ installed' \in Registry
    BY <1>0, <1>3 DEF RemoveFromMap, Registry
  <2>4. exclusive /\ Phase(u) => Phase(v)'
    BY <1>0, <1>3, <2>2, <2>3 DEF RemoveFromMap, Phase, Agree, Packaged, Served, Registry
  <2> QED
    BY <1>0, <1>3, <2>1, <2>2, <2>3, <2>4, ManagerStep DEF RemoveFromMap, Goto, Busy
<1>4. CASE DeletePackage(m)
  <2>1. disk' = [disk EXCEPT ![u.ext] = "none"] /\ disk' \in [Extensions -> {"none", "good", "bad"}]
    BY <1>0, <1>4 DEF DeletePackage
  <2>2. exclusive /\ Phase(u) => Agree'
    BY <1>0, <1>4, <2>1 DEF DeletePackage, Phase, Agree, Packaged, Served
  <2> QED
    BY <1>0, <1>4, <2>1, <2>2, IdleManagerType, ManagerStep DEF DeletePackage, Busy, End
<1> QED
  BY <1>1, <1>2, <1>3, <1>4 DEF Uninstall

LEMMA SyncInv ==
  ASSUME RegistryInv, NEW m \in Managers, Sync(m)
  PROVE  RegistryInv'
<1> DEFINE u == manager[m]
<1>0. /\ u \in Manager /\ u.map \in Registry /\ AnyExtension \in Extensions
      /\ disk \in [Extensions -> {"none", "good", "bad"}]
      /\ installed \in Registry /\ crawlers \in Registry /\ made \in 0..MaxObjects
  BY ExtensionsAssumption DEF RegistryInv, RegistryTypeOK, Manager, AnyExtension
<1>1. CASE Begin(m, AnyExtension, "sync")
  BY <1>0, <1>1, BeginInv
<1>2. CASE MakeAdapters(m)
  <2>1. PICK v : v = [u EXCEPT !.pc = "clear", !.map = installed]
    OBVIOUS
  <2>2. /\ v \in Manager /\ v.pc = "clear" /\ v.map = installed
        /\ v.uninstalls = u.uninstalls /\ v.ext = u.ext
    BY <1>0, <2>1 DEF Manager, ManagerPc
  <2>3. exclusive /\ Phase(u) => Phase(v)'
    BY <1>2, <2>2 DEF MakeAdapters, Phase, Packaged, Served
  <2> QED
    BY <1>0, <1>2, <2>1, <2>2, <2>3, ManagerStep DEF MakeAdapters, Busy
<1>3. CASE ClearCrawlers(m)
  <2>1. PICK v : v = [u EXCEPT !.pc = "add"]
    OBVIOUS
  <2>2. /\ v \in Manager /\ v.pc = "add" /\ v.map = u.map
        /\ v.uninstalls = u.uninstalls /\ v.ext = u.ext
    BY <1>0, <2>1 DEF Manager, ManagerPc
  <2>3. exclusive /\ Phase(u) => Phase(v)'
    BY <1>3, <2>2 DEF ClearCrawlers, Phase, Packaged, Served, NoObjects
  <2> QED
    BY <1>0, <1>3, <2>1, <2>2, <2>3, IdleManagerType, ManagerStep DEF ClearCrawlers, Goto, Busy
<1>4. CASE AddCrawlers(m)
  <2>1. /\ crawlers' = [e \in Extensions |-> IF crawlers[e] # 0 THEN crawlers[e] ELSE u.map[e]]
        /\ crawlers' \in Registry
    BY <1>0, <1>4 DEF AddCrawlers, Registry
  <2>2. Phase(u) => crawlers' = installed'
    BY <1>0, <1>4, <2>1 DEF AddCrawlers, Phase, NoObjects, Registry
  <2>3. CASE u.uninstalls
    <3>1. PICK v : v = [u EXCEPT !.pc = "delete"]
      OBVIOUS
    <3>2. v \in Manager /\ v.pc = "delete" /\ v.uninstalls = u.uninstalls /\ v.ext = u.ext
      BY <1>0, <3>1 DEF Manager, ManagerPc
    <3>3. exclusive /\ Phase(u) => Phase(v)'
      BY <1>4, <2>2, <2>3, <3>2 DEF AddCrawlers, Phase, Packaged, Served
    <3> QED
      BY <1>0, <1>4, <2>1, <2>3, <3>1, <3>2, <3>3, ManagerStep DEF AddCrawlers, Goto, Busy
  <2>4. CASE ~u.uninstalls
    <3>1. exclusive /\ Phase(u) => Agree'
      BY <1>4, <2>2, <2>4 DEF AddCrawlers, Phase, Agree, Packaged, Served
    <3> QED
      BY <1>0, <1>4, <2>1, <2>4, <3>1, IdleManagerType, ManagerStep DEF AddCrawlers, End, Busy
  <2> QED
    BY <2>3, <2>4
<1> QED
  BY <1>1, <1>2, <1>3, <1>4 DEF Sync

LEMMA RegistryStep ==
  ASSUME RegistryInv, RegistryNext \/ UNCHANGED registryVars
  PROVE  RegistryInv'
<1>1. CASE RegistryNext
  BY <1>1, InstallInv, LoadInv, UninstallInv, SyncInv DEF RegistryNext
<1>2. CASE UNCHANGED registryVars
  BY <1>2 DEF registryVars, RegistryInv, RegistryTypeOK, InPhase, Busy, Phase,
              Agree, Packaged, Served
<1> QED
  BY <1>1, <1>2

-----------------------------------------------------------------------------
(* What a call knows, holds and has met, at each place it can be.          *)
CallOK(v) ==
  /\ v.pc \in Inside \cup {"lock", "unlock"} => v.object \in 1..made
  /\ v.object # 0 /\ v.kind # "listing" => v.object \notin destroyed
  /\ v.pc \in {"lock", "alloc"} => v.kind # "listing"
  /\ v.pc \in {"lookup", "lock", "alloc"} => ~v.arg /\ ~v.text
  /\ v.pc = "run" => ~v.text
  /\ v.pc = "copy" => v.text /\ ~v.arg
  /\ v.challenged /\ ~v.stolen => IF v.pc = "clear" THEN v.saw ELSE flag

CallsOK == \A k \in Calls : CallOK(call[k])

In(k, o) == call[k].object = o /\ call[k].pc \in Inside

HeldBy(v) == (IF v.arg THEN 1 ELSE 0)
             + (IF v.text /\ v.pc \in Inside THEN 1 ELSE 0)

(* One call inside, and what it holds is what is taken of the heap.        *)
HeapOK(o) ==
  Counted(o) =>
    /\ \A j, k \in Calls : In(j, o) /\ In(k, o) => j = k
    /\ (\A k \in Calls : ~In(k, o)) => blocks[o] = 0
    /\ \A k \in Calls : In(k, o) => blocks[o] = HeldBy(call[k])

HeapsOK == \A o \in Objects : HeapOK(o)

ManagedAlive == \A o \in Objects : Managed(o) => o \in 1..made /\ o \notin destroyed

RunInv ==
  /\ RegistryInv /\ TypeOK
  /\ CallsOK /\ MutexKept /\ HeapsOK /\ ManagedAlive

LEMMA IdleCallType ==
  /\ IdleCall \in Call /\ IdleCall.pc = "idle" /\ IdleCall.object = 0
  /\ ~IdleCall.arg /\ ~IdleCall.text /\ ~IdleCall.challenged
<1>1. AnyExtension \in Extensions
  BY ExtensionsAssumption DEF AnyExtension
<1> QED
  BY <1>1 DEF IdleCall, Call, Pc, Ended, Kinds

LEMMA CallPcs ==
  /\ {"idle", "failure", "alloc", "run", "free", "copy", "lookup", "lock",
      "unlock", "read", "clear"} \subseteq Pc
  /\ Inside = {"alloc", "run", "free", "copy"} /\ Ended = {"idle", "failure"}
BY DEF Pc, Inside, Ended

LEMMA EndedCall ==
  ASSUME NEW pc \in Pc
  PROVE  \E v \in Call : /\ v = [IdleCall EXCEPT !.pc = pc]
                         /\ v.pc = pc /\ v.object = 0 /\ ~v.arg /\ ~v.text /\ ~v.challenged
<1> DEFINE v == [IdleCall EXCEPT !.pc = pc]
<1>1. v \in Call /\ v.pc = pc /\ v.object = 0 /\ ~v.arg /\ ~v.text /\ ~v.challenged
  BY IdleCallType DEF Call
<1> QED
  BY <1>1

LEMMA GoneCall ==
  ASSUME TypeOK, NEW k \in Calls, NEW pc \in Pc
  PROVE  \E v \in Call : /\ v = [call[k] EXCEPT !.pc = pc]
                         /\ v.pc = pc /\ v.object = call[k].object
                         /\ v.kind = call[k].kind /\ v.ext = call[k].ext
                         /\ v.arg = call[k].arg /\ v.text = call[k].text
                         /\ v.saw = call[k].saw
                         /\ v.challenged = call[k].challenged /\ v.stolen = call[k].stolen
<1> DEFINE v == [call[k] EXCEPT !.pc = pc]
<1>1. call[k] \in Call
  BY DEF TypeOK
<1>2. /\ v \in Call /\ v.pc = pc /\ v.object = call[k].object
      /\ v.kind = call[k].kind /\ v.ext = call[k].ext
      /\ v.arg = call[k].arg /\ v.text = call[k].text
      /\ v.saw = call[k].saw
      /\ v.challenged = call[k].challenged /\ v.stolen = call[k].stolen
  BY <1>1 DEF Call
<1> QED
  BY <1>2

-----------------------------------------------------------------------------
(* The call k goes on to the record v; o is the object it is about.        *)
LEMMA CallStepInv ==
  ASSUME RunInv, NEW k \in Calls, NEW v \in Call, SetCall(k, v),
         UNCHANGED <<registryVars, destroyed, flag>>,
         trapped' \subseteq 1..made, raced' \subseteq 1..made,
         blocks' \in [Objects -> Nat], holder' \in [Objects -> Calls \cup {NoCall}],
         calls' \in 0..MaxCalls,
         CallOK(v), MutexKept', HeapsOK'
  PROVE  RunInv'
<1>1. /\ call' \in [Calls -> Call] /\ call'[k] = v
      /\ \A j \in Calls : j # k => call'[j] = call[j]
  BY DEF RunInv, TypeOK, SetCall
<1>2. RegistryInv'
  BY RegistryStep DEF RunInv
<1>3. TypeOK'
  BY <1>1, <1>2 DEF RunInv, TypeOK, RegistryInv, registryVars
<1>4. ASSUME NEW j \in Calls PROVE CallOK(call[j])'
  <2>1. CallOK(call'[j])
    BY <1>1 DEF RunInv, CallsOK
  <2> QED
    BY <2>1 DEF CallOK, registryVars
<1>5. ManagedAlive'
  BY DEF RunInv, ManagedAlive, Managed, registryVars
<1> QED
  BY <1>2, <1>3, <1>4, <1>5 DEF RunInv, CallsOK

(* Where the mutex stays as it is, the call is on the same side of it.     *)
LEMMA MutexStays ==
  ASSUME RunInv, NEW k \in Calls, NEW v \in Call, SetCall(k, v), UNCHANGED holder,
         \/ /\ v.object = call[k].object /\ v.kind = call[k].kind
            /\ v.pc \in Inside \cup {"unlock"} <=> call[k].pc \in Inside \cup {"unlock"}
         \/ /\ v.kind = "listing" \/ v.pc \notin Inside \cup {"unlock"}
            /\ call[k].kind = "listing" \/ call[k].pc \notin Inside \cup {"unlock"}
  PROVE  MutexKept'
<1>1. /\ call'[k] = v
      /\ \A j \in Calls : j # k => call'[j] = call[j]
  BY DEF RunInv, TypeOK, SetCall
<1>2. ASSUME NEW o \in Objects, NEW j \in Calls
      PROVE  holder'[o] = j <=> /\ call'[j].object = o /\ call'[j].kind # "listing"
                                /\ call'[j].pc \in Inside \cup {"unlock"}
  <2>1. holder[o] = j <=> /\ call[j].object = o /\ call[j].kind # "listing"
                          /\ call[j].pc \in Inside \cup {"unlock"}
    BY DEF RunInv, MutexKept
  <2>2. CASE j # k
    BY <1>1, <2>1, <2>2
  <2>3. CASE j = k
    BY <1>1, <2>1, <2>3
  <2> QED
    BY <2>2, <2>3
<1> QED
  BY <1>2 DEF MutexKept

(* A step outside every instance.                                          *)
LEMMA OutsideHeaps ==
  ASSUME RunInv, NEW k \in Calls, NEW v \in Call, SetCall(k, v),
         UNCHANGED <<blocks, trapped, raced>>,
         call[k].pc \notin Inside, v.pc \notin Inside
  PROVE  HeapsOK'
<1>1. /\ call'[k] = v
      /\ \A j \in Calls : j # k => call'[j] = call[j]
  BY DEF RunInv, TypeOK, SetCall
<1>2. ASSUME NEW o \in Objects PROVE HeapOK(o)'
  <2>1. HeapOK(o)
    BY DEF RunInv, HeapsOK
  <2>2. Counted(o)' <=> Counted(o)
    BY DEF Counted
  <2>3. \A j \in Calls : In(j, o)' <=> In(j, o)
    BY <1>1 DEF In
  <2>4. \A j \in Calls : In(j, o) => call'[j] = call[j]
    BY <1>1 DEF In
  <2> QED
    BY <2>1, <2>2, <2>3, <2>4 DEF HeapOK, HeldBy
<1> QED
  BY <1>2 DEF HeapsOK

(* A step inside an instance, or out of it, and the heap with it.          *)
LEMMA InsideHeaps ==
  ASSUME RunInv, NEW k \in Calls, NEW v \in Call, SetCall(k, v), UNCHANGED raced,
         call[k].pc \in Inside, v.object = call[k].object,
         \A p \in Objects : p # v.object =>
           blocks'[p] = blocks[p] /\ (p \in trapped' <=> p \in trapped),
         Counted(v.object)' =>
           /\ Counted(v.object)
           /\ blocks'[v.object] = HeldBy(v)
           /\ v.pc \notin Inside => HeldBy(v) = 0
  PROVE  HeapsOK'
<1>1. /\ call'[k] = v
      /\ \A j \in Calls : j # k => call'[j] = call[j]
  BY DEF RunInv, TypeOK, SetCall
<1>2. ASSUME NEW o \in Objects PROVE HeapOK(o)'
  <2>1. HeapOK(o)
    BY DEF RunInv, HeapsOK
  <2>2. CASE o # v.object
    <3>1. Counted(o)' <=> Counted(o)
      BY <2>2 DEF Counted
    <3>2. \A j \in Calls : In(j, o)' <=> In(j, o)
      BY <1>1, <2>2 DEF In
    <3>3. \A j \in Calls : In(j, o) => call'[j] = call[j]
      BY <1>1, <2>2 DEF In
    <3>4. blocks'[o] = blocks[o]
      BY <2>2
    <3> QED
      BY <2>1, <3>1, <3>2, <3>3, <3>4 DEF HeapOK, HeldBy
  <2>3. CASE o = v.object
    <3>1. ASSUME Counted(o)'
          PROVE  /\ \A j, i \in Calls : In(j, o)' /\ In(i, o)' => j = i
                 /\ (\A j \in Calls : ~In(j, o)') => blocks'[o] = 0
                 /\ \A j \in Calls : In(j, o)' => blocks'[o] = HeldBy(call'[j])
      <4>1. Counted(o) /\ blocks'[o] = HeldBy(v) /\ (v.pc \notin Inside => HeldBy(v) = 0)
        BY <2>3, <3>1
      <4>2. In(k, o)
        BY <2>3 DEF In
      <4>3. \A j \in Calls : j # k => ~In(j, o) /\ ~In(j, o)'
        BY <1>1, <2>1, <4>1, <4>2 DEF HeapOK, In
      <4>4. In(k, o)' <=> v.pc \in Inside
        BY <1>1, <2>3 DEF In
      <4> QED
        BY <1>1, <4>1, <4>3, <4>4
    <3> QED
      BY <3>1 DEF HeapOK, HeldBy
  <2> QED
    BY <2>2, <2>3
<1> QED
  BY <1>2 DEF HeapsOK

(* What a call does to the heap of its instance.                           *)
LEMMA HeapChange ==
  ASSUME RunInv, NEW o \in Objects, NEW n \in {-1, 0, 1}, o \in 1..made,
         Counted(o) => blocks[o] + n \in Nat,
         Add(o, n) \/ Trap(o) \/ (n = 0 /\ UNCHANGED <<blocks, trapped>>), UNCHANGED raced
  PROVE  /\ blocks' \in [Objects -> Nat] /\ trapped' \subseteq 1..made
         /\ \A p \in Objects : p # o =>
              blocks'[p] = blocks[p] /\ (p \in trapped' <=> p \in trapped)
         /\ Counted(o)' => Counted(o) /\ blocks'[o] = blocks[o] + n
<1>1. blocks \in [Objects -> Nat] /\ trapped \subseteq 1..made
  BY DEF RunInv, TypeOK
<1>2. CASE Add(o, n)
  <2>1. trapped' = trapped
    BY <1>2 DEF Add
  <2>2. CASE Counted(o)
    <3>1. blocks' = [blocks EXCEPT ![o] = blocks[o] + n]
      BY <1>2, <2>2 DEF Add
    <3> QED
      BY <1>1, <2>1, <2>2, <3>1
  <2>3. CASE ~Counted(o)
    <3>1. blocks' = blocks /\ ~Counted(o)'
      BY <1>2, <2>1, <2>3 DEF Add, Counted
    <3> QED
      BY <1>1, <2>1, <3>1
  <2> QED
    BY <2>2, <2>3
<1>3. CASE Trap(o)
  <2>1. trapped' = trapped \cup {o} /\ blocks' = [blocks EXCEPT ![o] = 0]
    BY <1>3 DEF Trap
  <2>2. ~Counted(o)'
    BY <2>1 DEF Counted
  <2> QED
    BY <1>1, <2>1, <2>2
<1>4. CASE n = 0 /\ UNCHANGED <<blocks, trapped>>
  <2>1. Counted(o) => blocks[o] \in Nat /\ blocks[o] + n = blocks[o]
    BY <1>1, <1>4
  <2> QED
    BY <1>1, <1>4, <2>1 DEF Counted
<1> QED
  BY <1>2, <1>3, <1>4

(* The instance a call is inside, and its heap.                            *)
LEMMA InsideFacts ==
  ASSUME RunInv, NEW k \in Calls, call[k].pc \in Inside
  PROVE  /\ call[k] \in Call /\ call[k].object \in Objects /\ call[k].object \in 1..made
         /\ Counted(call[k].object) => blocks[call[k].object] = HeldBy(call[k])
<1>1. call[k] \in Call /\ made \in 0..MaxObjects
  BY DEF RunInv, TypeOK, RegistryTypeOK
<1>2. call[k].object \in 1..made
  BY DEF RunInv, CallsOK, CallOK
<1>3. call[k].object \in Objects
  BY <1>1, <1>2, BoundsAssumption DEF Objects
<1> QED
  BY <1>1, <1>2, <1>3 DEF RunInv, HeapsOK, HeapOK, In

(* A step inside an instance: it changes the heap by n blocks, unless the  *)
(* instance traps.                                                         *)
LEMMA InsideStep ==
  ASSUME RunInv, NEW k \in Calls, NEW v \in Call, SetCall(k, v),
         call[k].pc \in Inside, v.pc \in Inside \cup {"unlock"},
         v.object = call[k].object, v.kind = call[k].kind,
         UNCHANGED <<registryVars, destroyed, holder, flag, calls, raced>>,
         CallOK(v), NEW n \in {-1, 0, 1},
         \/ Add(v.object, n)
         \/ Trap(v.object)
         \/ n = 0 /\ UNCHANGED <<blocks, trapped>>,
         HeldBy(call[k]) + n = HeldBy(v),
         v.pc \notin Inside => HeldBy(v) = 0
  PROVE  RunInv'
<1>1. /\ v.object \in Objects /\ v.object \in 1..made
      /\ Counted(v.object) => blocks[v.object] = HeldBy(call[k])
  BY InsideFacts
<1>2. HeldBy(v) \in Nat
  BY DEF HeldBy
<1>3. Counted(v.object) => blocks[v.object] + n \in Nat
  BY <1>1, <1>2
<1>4. /\ blocks' \in [Objects -> Nat] /\ trapped' \subseteq 1..made
      /\ \A p \in Objects : p # v.object =>
           blocks'[p] = blocks[p] /\ (p \in trapped' <=> p \in trapped)
      /\ Counted(v.object)' => /\ Counted(v.object)
                               /\ blocks'[v.object] = blocks[v.object] + n
  BY <1>1, <1>3, HeapChange
<1>5. Counted(v.object)' => /\ Counted(v.object) /\ blocks'[v.object] = HeldBy(v)
                            /\ v.pc \notin Inside => HeldBy(v) = 0
  BY <1>1, <1>4
<1>6. HeapsOK'
  BY <1>4, <1>5, InsideHeaps
<1>7. MutexKept'
  BY MutexStays
<1>8. raced' \subseteq 1..made /\ holder' \in [Objects -> Calls \cup {NoCall}] /\ calls' \in 0..MaxCalls
  BY DEF RunInv, TypeOK
<1> QED
  BY <1>4, <1>6, <1>7, <1>8, CallStepInv

LEMMA AllocArgumentInv ==
  ASSUME RunInv, NEW k \in Calls, AllocArgument(k), UNCHANGED registryVars
  PROVE  RunInv'
<1> DEFINE u == call[k]  o == call[k].object
<1>1. /\ u.pc = "alloc" /\ u.pc \in Inside /\ u \in Call /\ CallOK(u)
      /\ UNCHANGED <<destroyed, holder, flag, calls, raced>>
  BY CallPcs DEF AllocArgument, At, RunInv, TypeOK, CallsOK
<1>2. ~u.arg /\ ~u.text
  BY <1>1 DEF CallOK
<1>3. CASE SetCall(k, [u EXCEPT !.pc = "run", !.arg = TRUE]) /\ (Add(o, 1) \/ Trap(o))
  <2>1. PICK v : v = [u EXCEPT !.pc = "run", !.arg = TRUE]
    OBVIOUS
  <2>2. /\ v \in Call /\ v.pc = "run" /\ v.arg /\ v.text = u.text /\ v.object = o
        /\ v.kind = u.kind /\ v.challenged = u.challenged /\ v.stolen = u.stolen
    BY <1>1, <2>1, CallPcs DEF Call
  <2>3. CallOK(v)
    BY <1>1, <1>2, <2>2, CallPcs DEF CallOK
  <2>4. HeldBy(u) + 1 = HeldBy(v)
    BY <1>2, <2>2 DEF HeldBy
  <2>5. /\ SetCall(k, v) /\ v.pc \in Inside
        /\ Add(v.object, 1) \/ Trap(v.object)
    BY <1>3, <2>1, <2>2, CallPcs
  <2> QED
    BY <1>1, <2>2, <2>3, <2>4, <2>5, InsideStep
<1>4. CASE Go(k, "unlock") /\ (Add(o, 0) \/ Trap(o))
  <2>1. PICK v \in Call :
          /\ v = [u EXCEPT !.pc = "unlock"]
          /\ v.pc = "unlock" /\ v.object = o /\ v.kind = u.kind
          /\ v.arg = u.arg /\ v.text = u.text
          /\ v.challenged = u.challenged /\ v.stolen = u.stolen
    BY GoneCall, CallPcs DEF RunInv
  <2>2. CallOK(v)
    BY <1>1, <2>1, CallPcs DEF CallOK
  <2>3. HeldBy(u) + 0 = HeldBy(v) /\ HeldBy(v) = 0
    BY <1>2, <2>1 DEF HeldBy
  <2>4. /\ SetCall(k, v) /\ v.pc \in Inside \cup {"unlock"}
        /\ Add(v.object, 0) \/ Trap(v.object)
    BY <1>4, <2>1 DEF Go
  <2> QED
    BY <1>1, <2>1, <2>2, <2>3, <2>4, InsideStep
<1> QED
  BY <1>3, <1>4 DEF AllocArgument

LEMMA GuestReturnsInv ==
  ASSUME RunInv, NEW k \in Calls, GuestReturns(k), UNCHANGED registryVars
  PROVE  RunInv'
<1> DEFINE u == call[k]  o == call[k].object
<1>1. /\ u.pc = "run" /\ u.pc \in Inside /\ u \in Call /\ CallOK(u)
      /\ UNCHANGED <<destroyed, holder, flag, calls, raced>>
  BY CallPcs DEF GuestReturns, At, RunInv, TypeOK, CallsOK
<1>2. ~u.text
  BY <1>1 DEF CallOK
<1>3. CASE Go(k, "free") /\ (Add(o, 0) \/ Trap(o))
  <2>1. PICK v \in Call :
          /\ v = [u EXCEPT !.pc = "free"]
          /\ v.pc = "free" /\ v.object = o /\ v.kind = u.kind
          /\ v.arg = u.arg /\ v.text = u.text
          /\ v.challenged = u.challenged /\ v.stolen = u.stolen
    BY GoneCall, CallPcs DEF RunInv
  <2>2. CallOK(v)
    BY <1>1, <2>1, CallPcs DEF CallOK
  <2>3. HeldBy(u) + 0 = HeldBy(v)
    BY <1>2, <2>1 DEF HeldBy
  <2>4. /\ SetCall(k, v) /\ v.pc \in Inside
        /\ Add(v.object, 0) \/ Trap(v.object)
    BY <1>3, <2>1, CallPcs DEF Go
  <2> QED
    BY <1>1, <2>1, <2>2, <2>3, <2>4, InsideStep
<1>4. CASE SetCall(k, [u EXCEPT !.pc = "free", !.text = TRUE]) /\ Add(o, 1)
  <2>1. PICK v : v = [u EXCEPT !.pc = "free", !.text = TRUE]
    OBVIOUS
  <2>2. /\ v \in Call /\ v.pc = "free" /\ v.text /\ v.arg = u.arg /\ v.object = o
        /\ v.kind = u.kind /\ v.challenged = u.challenged /\ v.stolen = u.stolen
    BY <1>1, <2>1, CallPcs DEF Call
  <2>3. CallOK(v)
    BY <1>1, <2>2, CallPcs DEF CallOK
  <2>4. HeldBy(u) + 1 = HeldBy(v)
    BY <1>2, <2>2, CallPcs DEF HeldBy
  <2>5. SetCall(k, v) /\ v.pc \in Inside /\ Add(v.object, 1)
    BY <1>4, <2>1, <2>2, CallPcs
  <2> QED
    BY <1>1, <2>2, <2>3, <2>4, <2>5, InsideStep
<1> QED
  BY <1>3, <1>4 DEF GuestReturns

LEMMA FreeArgumentInv ==
  ASSUME RunInv, NEW k \in Calls, FreeArgument(k), UNCHANGED registryVars
  PROVE  RunInv'
<1> DEFINE u == call[k]  o == call[k].object
<1>1. /\ u.pc = "free" /\ u.pc \in Inside /\ u \in Call /\ CallOK(u)
      /\ u.arg \in BOOLEAN /\ u.text \in BOOLEAN
      /\ UNCHANGED <<destroyed, holder, flag, calls, raced>>
      /\ SetCall(k, [u EXCEPT !.arg = FALSE, !.pc = IF u.text THEN "copy" ELSE "unlock"])
      /\ IF u.arg THEN Dealloc(o) ELSE UNCHANGED <<blocks, trapped>>
  BY CallPcs DEF FreeArgument, At, RunInv, TypeOK, CallsOK, Call
<1>2. PICK pc : pc = IF u.text THEN "copy" ELSE "unlock"
  OBVIOUS
<1>3. PICK v : v = [u EXCEPT !.arg = FALSE, !.pc = pc]
  OBVIOUS
<1>4. /\ v \in Call /\ v.pc = pc /\ v.text = u.text /\ ~v.arg /\ v.object = o
      /\ v.kind = u.kind /\ v.challenged = u.challenged /\ v.stolen = u.stolen
  BY <1>1, <1>2, <1>3, CallPcs DEF Call
<1>5. CallOK(v)
  BY <1>1, <1>2, <1>4, CallPcs DEF CallOK
<1>6. v.pc \in Inside \cup {"unlock"} /\ (v.pc \notin Inside => HeldBy(v) = 0)
  BY <1>2, <1>4, CallPcs DEF HeldBy
<1>7. CASE u.arg
  <2>1. HeldBy(u) + (-1) = HeldBy(v)
    BY <1>1, <1>2, <1>4, <1>7, CallPcs DEF HeldBy
  <2>2. Add(v.object, -1) \/ Trap(v.object)
    BY <1>1, <1>4, <1>7 DEF Dealloc
  <2> QED
    BY <1>1, <1>2, <1>3, <1>4, <1>5, <1>6, <2>1, <2>2, InsideStep
<1>8. CASE ~u.arg
  <2>1. HeldBy(u) + 0 = HeldBy(v)
    BY <1>1, <1>2, <1>4, <1>8, CallPcs DEF HeldBy
  <2> QED
    BY <1>1, <1>2, <1>3, <1>4, <1>5, <1>6, <1>8, <2>1, InsideStep
<1> QED
  BY <1>7, <1>8

LEMMA CopyResultInv ==
  ASSUME RunInv, NEW k \in Calls, CopyResult(k), UNCHANGED registryVars
  PROVE  RunInv'
<1> DEFINE u == call[k]  o == call[k].object
<1>1. /\ u.pc = "copy" /\ u.pc \in Inside /\ u \in Call /\ CallOK(u)
      /\ UNCHANGED <<destroyed, holder, flag, calls, raced>>
      /\ Add(o, -1) \/ Trap(o)
  BY CallPcs DEF CopyResult, At, RunInv, TypeOK, CallsOK, Dealloc
<1>2. PICK text \in BOOLEAN : SetCall(k, [u EXCEPT !.pc = "unlock", !.text = text])
  BY DEF CopyResult
<1>3. PICK v : v = [u EXCEPT !.pc = "unlock", !.text = text]
  OBVIOUS
<1>4. /\ v \in Call /\ v.pc = "unlock" /\ v.arg = u.arg /\ v.object = o
      /\ v.kind = u.kind /\ v.challenged = u.challenged /\ v.stolen = u.stolen
  BY <1>1, <1>3, CallPcs DEF Call
<1>5. CallOK(v)
  BY <1>1, <1>4, CallPcs DEF CallOK
<1>6. ~u.arg /\ u.text
  BY <1>1 DEF CallOK
<1>7. HeldBy(u) = 1 /\ HeldBy(v) = 0
  BY <1>1, <1>4, <1>6, CallPcs DEF HeldBy
<1>8. HeldBy(u) + (-1) = HeldBy(v)
  BY <1>7
<1> QED
  BY <1>1, <1>2, <1>3, <1>4, <1>5, <1>7, <1>8, InsideStep

LEMMA MeetChallengeInv ==
  ASSUME RunInv, NEW k \in Calls, MeetChallenge(k), UNCHANGED registryVars
  PROVE  RunInv'
<1> DEFINE u == call[k]
<1>1. /\ u.pc = "run" /\ u.pc \in Inside /\ u \in Call /\ CallOK(u) /\ flag' = TRUE
      /\ UNCHANGED <<destroyed, trapped, blocks, holder, calls, raced>>
      /\ SetCall(k, [u EXCEPT !.challenged = TRUE])
  BY CallPcs DEF MeetChallenge, At, RunInv, TypeOK, CallsOK
<1>2. PICK v : v = [u EXCEPT !.challenged = TRUE]
  OBVIOUS
<1>3. /\ v \in Call /\ v.pc = u.pc /\ v.arg = u.arg /\ v.text = u.text
      /\ v.object = u.object /\ v.kind = u.kind
  BY <1>1, <1>2 DEF Call
<1>4. /\ call' \in [Calls -> Call] /\ call'[k] = v
      /\ \A j \in Calls : j # k => call'[j] = call[j]
  BY <1>1, <1>2, <1>3 DEF RunInv, TypeOK, SetCall
<1>5. RegistryInv'
  BY RegistryStep DEF RunInv
<1>6. TypeOK'
  BY <1>1, <1>4, <1>5 DEF RunInv, TypeOK, RegistryInv, registryVars
<1>7. ASSUME NEW j \in Calls PROVE CallOK(call[j])'
  <2>1. CASE j = k
    BY <1>1, <1>3, <1>4, <2>1, CallPcs DEF CallOK, registryVars
  <2>2. CASE j # k
    <3>1. call'[j] = call[j] /\ CallOK(call[j])
      BY <1>4, <2>2 DEF RunInv, CallsOK
    <3> QED
      BY <1>1, <3>1 DEF CallOK, registryVars
  <2> QED
    BY <2>1, <2>2
<1>8. ManagedAlive'
  BY <1>1 DEF RunInv, ManagedAlive, Managed, registryVars
<1>9. MutexKept'
  BY <1>1, <1>2, <1>3, MutexStays
<1>10. /\ u.object \in Objects
       /\ Counted(u.object) => blocks[u.object] = HeldBy(u)
       /\ HeldBy(v) = HeldBy(u)
  BY <1>1, <1>3, InsideFacts DEF HeldBy
<1>11. HeapsOK'
  <2>1. Counted(v.object)' => /\ Counted(v.object) /\ blocks'[v.object] = HeldBy(v)
                              /\ v.pc \notin Inside => HeldBy(v) = 0
    BY <1>1, <1>3, <1>10 DEF Counted
  <2> QED
    BY <1>1, <1>2, <1>3, <2>1, InsideHeaps
<1> QED
  BY <1>5, <1>6, <1>7, <1>8, <1>9, <1>11 DEF RunInv, CallsOK

-----------------------------------------------------------------------------
(* Outside the instances                                                   *)

(* A step from outside to outside that touches no instance.                *)
LEMMA OutsideStep ==
  ASSUME RunInv, NEW k \in Calls, NEW v \in Call, SetCall(k, v),
         UNCHANGED <<registryVars, destroyed, trapped, blocks, holder, flag, raced>>,
         calls' \in 0..MaxCalls, CallOK(v),
         call[k].pc \notin Inside \cup {"unlock"}, v.pc \notin Inside \cup {"unlock"}
  PROVE  RunInv'
<1>1. HeapsOK' /\ MutexKept'
  BY OutsideHeaps, MutexStays
<1> QED
  BY <1>1, CallStepInv DEF RunInv, TypeOK

LEMMA SameCalls ==
  ASSUME RunInv, UNCHANGED calls
  PROVE  calls' \in 0..MaxCalls
BY DEF RunInv, TypeOK

(* Where a call goes that ends, or fails.                                  *)
LEMMA EndCallGoes ==
  ASSUME RunInv, NEW k \in Calls, NEW pc \in {"idle", "failure"}, EndCall(k, pc)
  PROVE  \E v \in Call : SetCall(k, v) /\ v.pc = pc /\ CallOK(v)
<1>0. pc \in Pc
  BY CallPcs
<1>1. PICK v \in Call : /\ v = [IdleCall EXCEPT !.pc = pc]
                        /\ v.pc = pc /\ v.object = 0 /\ ~v.arg /\ ~v.text /\ ~v.challenged
  BY <1>0, EndedCall
<1>2. CallOK(v)
  BY <1>1, CallPcs DEF CallOK
<1> QED
  BY <1>1, <1>2 DEF EndCall

LEMMA FailGoes ==
  ASSUME RunInv, NEW k \in Calls, Fail(k), call[k].pc # "clear"
  PROVE  \E v \in Call : /\ SetCall(k, v) /\ v.pc \in {"read", "failure"}
                         /\ CallOK(v)
<1>1. CASE call[k].kind = "job"
  <2>1. PICK v \in Call :
          /\ v = [call[k] EXCEPT !.pc = "read"]
          /\ v.pc = "read" /\ v.object = call[k].object /\ v.kind = call[k].kind
          /\ v.challenged = call[k].challenged /\ v.stolen = call[k].stolen
    BY GoneCall, CallPcs DEF RunInv
  <2>2. CallOK(call[k])
    BY DEF RunInv, CallsOK
  <2>3. CallOK(v)
    BY <2>1, <2>2, CallPcs DEF CallOK
  <2> QED
    BY <1>1, <2>1, <2>3 DEF Fail, Go
<1>2. CASE call[k].kind # "job"
  BY <1>2, EndCallGoes DEF Fail
<1> QED
  BY <1>1, <1>2

LEMMA StartCallInv ==
  ASSUME RunInv, NEW k \in Calls, StartCall(k), UNCHANGED registryVars
  PROVE  RunInv'
<1>1. PICK kind \in Kinds, e \in Extensions :
        SetCall(k, [IdleCall EXCEPT !.pc = "lookup", !.kind = kind, !.ext = e])
  BY DEF StartCall
<1>2. PICK v : v = [IdleCall EXCEPT !.pc = "lookup", !.kind = kind, !.ext = e]
  OBVIOUS
<1>3. /\ v \in Call /\ v.pc = "lookup" /\ v.object = 0 /\ ~v.arg /\ ~v.text /\ ~v.challenged
  BY <1>2, IdleCallType, CallPcs DEF Call
<1>4. CallOK(v)
  BY <1>3, CallPcs DEF CallOK
<1>5. calls' \in 0..MaxCalls
  BY MaxCallsAssumption DEF StartCall, RunInv, TypeOK
<1>6. /\ UNCHANGED <<destroyed, trapped, blocks, holder, flag, raced>>
      /\ call[k].pc \notin Inside \cup {"unlock"} /\ v.pc \notin Inside \cup {"unlock"}
  BY <1>3, CallPcs DEF StartCall
<1> QED
  BY <1>1, <1>2, <1>3, <1>4, <1>5, <1>6, OutsideStep

LEMMA CancelWaitInv ==
  ASSUME RunInv, NEW k \in Calls, CancelWait(k), UNCHANGED registryVars
  PROVE  RunInv'
<1>1. /\ call[k].pc = "lock" /\ Fail(k)
      /\ UNCHANGED <<destroyed, trapped, blocks, holder, flag, calls, raced>>
  BY DEF CancelWait, At
<1>2. PICK v \in Call : SetCall(k, v) /\ v.pc \in {"read", "failure"} /\ CallOK(v)
  BY <1>1, FailGoes
<1>3. call[k].pc \notin Inside \cup {"unlock"} /\ v.pc \notin Inside \cup {"unlock"}
  BY <1>1, <1>2, CallPcs
<1> QED
  BY <1>1, <1>2, <1>3, SameCalls, OutsideStep

LEMMA ReadFlagInv ==
  ASSUME RunInv, NEW k \in Calls, ReadFlag(k), UNCHANGED registryVars
  PROVE  RunInv'
<1> DEFINE u == call[k]
<1>1. /\ u.pc = "read" /\ u \in Call /\ CallOK(u) /\ flag \in BOOLEAN
      /\ UNCHANGED <<destroyed, trapped, blocks, holder, flag, calls, raced>>
      /\ \/ EndCall(k, "idle")
         \/ SetCall(k, [u EXCEPT !.pc = "clear", !.saw = flag, !.object = 0])
  BY DEF ReadFlag, At, RunInv, TypeOK, CallsOK
<1>2. CASE EndCall(k, "idle")
  <2>1. PICK v \in Call : SetCall(k, v) /\ v.pc = "idle" /\ CallOK(v)
    BY <1>2, EndCallGoes
  <2>2. u.pc \notin Inside \cup {"unlock"} /\ v.pc \notin Inside \cup {"unlock"}
    BY <1>1, <2>1, CallPcs
  <2> QED
    BY <1>1, <2>1, <2>2, SameCalls, OutsideStep
<1>3. CASE SetCall(k, [u EXCEPT !.pc = "clear", !.saw = flag, !.object = 0])
  <2>1. PICK v : v = [u EXCEPT !.pc = "clear", !.saw = flag, !.object = 0]
    OBVIOUS
  <2>2. /\ v \in Call /\ v.pc = "clear" /\ v.saw = flag /\ v.object = 0
        /\ v.challenged = u.challenged /\ v.stolen = u.stolen
    BY <1>1, <2>1, CallPcs DEF Call
  <2>3. CallOK(v)
    BY <1>1, <2>2, CallPcs DEF CallOK
  <2>4. u.pc \notin Inside \cup {"unlock"} /\ v.pc \notin Inside \cup {"unlock"}
    BY <1>1, <2>2, CallPcs
  <2> QED
    BY <1>1, <1>3, <2>1, <2>2, <2>3, <2>4, SameCalls, OutsideStep
<1> QED
  BY <1>1, <1>2, <1>3

(* The mutex goes to the call that has left it, or to nobody.              *)
LEMMA UnlockInv ==
  ASSUME RunInv, NEW k \in Calls, Unlock(k), UNCHANGED registryVars
  PROVE  RunInv'
<1> DEFINE o == call[k].object
<1>1. /\ call[k].pc = "unlock" /\ call[k] \in Call
      /\ UNCHANGED <<destroyed, trapped, blocks, flag, calls, raced>>
      /\ holder' = IF holder[o] = k THEN [holder EXCEPT ![o] = NoCall] ELSE holder
      /\ Fail(k) \/ EndCall(k, "idle")
  BY DEF Unlock, At, RunInv, TypeOK
<1>2. PICK v \in Call : /\ SetCall(k, v) /\ v.pc \in {"read", "failure", "idle"}
                        /\ CallOK(v)
  BY <1>1, FailGoes, EndCallGoes
<1>3. call[k].pc \notin Inside /\ v.pc \notin Inside \cup {"unlock"}
  BY <1>1, <1>2, CallPcs
<1>4. /\ call'[k] = v
      /\ \A j \in Calls : j # k => call'[j] = call[j]
  BY <1>2 DEF RunInv, TypeOK, SetCall
<1>5. HeapsOK'
  BY <1>1, <1>2, <1>3, OutsideHeaps
<1>6. holder \in [Objects -> Calls \cup {NoCall}] /\ holder' \in [Objects -> Calls \cup {NoCall}]
  BY <1>1 DEF RunInv, TypeOK
<1>7. ASSUME NEW p \in Objects, NEW j \in Calls
      PROVE  holder'[p] = j <=> /\ call'[j].object = p /\ call'[j].kind # "listing"
                                /\ call'[j].pc \in Inside \cup {"unlock"}
  <2>1. /\ holder[p] = j <=> /\ call[j].object = p /\ call[j].kind # "listing"
                             /\ call[j].pc \in Inside \cup {"unlock"}
        /\ holder[p] = k <=> /\ call[k].object = p /\ call[k].kind # "listing"
                             /\ call[k].pc \in Inside \cup {"unlock"}
    BY DEF RunInv, MutexKept
  <2>2. CASE j = k
    <3>1. holder'[p] # k
      <4>1. CASE holder[p] = k
        BY <1>1, <1>6, <2>1, <4>1, NoCallAssumption
      <4>2. CASE holder[p] # k
        BY <1>1, <1>6, <4>2, NoCallAssumption
      <4> QED
        BY <4>1, <4>2
    <3> QED
      BY <1>3, <1>4, <2>2, <3>1
  <2>3. CASE j # k
    <3>1. holder'[p] = j <=> holder[p] = j
      BY <1>1, <1>6, <2>3, NoCallAssumption
    <3> QED
      BY <1>4, <2>1, <2>3, <3>1
  <2> QED
    BY <2>2, <2>3
<1>8. MutexKept'
  BY <1>7 DEF MutexKept
<1>9. trapped' \subseteq 1..made /\ raced' \subseteq 1..made /\ blocks' \in [Objects -> Nat]
  BY <1>1 DEF RunInv, TypeOK
<1> QED
  BY <1>1, <1>2, <1>5, <1>6, <1>8, <1>9, SameCalls, CallStepInv

(* Whoever looks for a challenge takes it from all the others.             *)
LEMMA ClearFlagInv ==
  ASSUME RunInv, NEW k \in Calls, ClearFlag(k), UNCHANGED registryVars
  PROVE  RunInv'
<1>1. /\ call[k].pc = "clear" /\ call \in [Calls -> Call] /\ flag' = FALSE
      /\ UNCHANGED <<destroyed, trapped, blocks, holder, calls, raced>>
  BY DEF ClearFlag, At, RunInv, TypeOK
<1>2. PICK pc \in {"idle", "failure"} :
        call' = [j \in Calls |->
          IF j = k THEN [IdleCall EXCEPT !.pc = pc]
                   ELSE [call[j] EXCEPT !.stolen = call[j].challenged]]
  BY DEF ClearFlag
<1>3. /\ call'[k] \in Call /\ call'[k].pc = pc /\ call'[k].object = 0
      /\ ~call'[k].arg /\ ~call'[k].text /\ ~call'[k].challenged
  <2>1. PICK v \in Call : /\ v = [IdleCall EXCEPT !.pc = pc]
                          /\ v.pc = pc /\ v.object = 0 /\ ~v.arg /\ ~v.text /\ ~v.challenged
    BY CallPcs, EndedCall
  <2> QED
    BY <1>2, <2>1
<1>4. ASSUME NEW j \in Calls, j # k
      PROVE  /\ call'[j] \in Call /\ call'[j].stolen = call[j].challenged
             /\ call'[j].pc = call[j].pc /\ call'[j].object = call[j].object
             /\ call'[j].kind = call[j].kind
             /\ call'[j].arg = call[j].arg /\ call'[j].text = call[j].text
             /\ call'[j].challenged = call[j].challenged
  BY <1>1, <1>2, <1>4 DEF Call
<1>5. call' \in [Calls -> Call]
  BY <1>2, <1>3, <1>4
<1>6. RegistryInv'
  BY RegistryStep DEF RunInv
<1>7. TypeOK'
  BY <1>1, <1>5, <1>6 DEF RunInv, TypeOK, RegistryInv, registryVars
<1>8. ASSUME NEW j \in Calls PROVE CallOK(call[j])'
  <2>1. CASE j = k
    BY <1>2, <1>3, <2>1, CallPcs DEF CallOK
  <2>2. CASE j # k
    <3>1. CallOK(call[j])
      BY DEF RunInv, CallsOK
    <3> QED
      BY <1>1, <1>4, <2>2, <3>1 DEF CallOK, registryVars
  <2> QED
    BY <2>1, <2>2
<1>9. \A j \in Calls, o \in Objects :
        /\ In(j, o)' <=> In(j, o)
        /\ In(j, o) => HeldBy(call'[j]) = HeldBy(call[j])
  BY <1>1, <1>2, <1>3, <1>4, CallPcs DEF In, HeldBy
<1>10. ASSUME NEW o \in Objects PROVE HeapOK(o)'
  <2>1. HeapOK(o) /\ (Counted(o)' <=> Counted(o)) /\ blocks' = blocks
    BY <1>1 DEF RunInv, HeapsOK, Counted
  <2> QED
    BY <1>9, <2>1 DEF HeapOK, HeldBy
<1>11. ASSUME NEW p \in Objects, NEW j \in Calls
       PROVE  holder'[p] = j <=> /\ call'[j].object = p /\ call'[j].kind # "listing"
                                 /\ call'[j].pc \in Inside \cup {"unlock"}
  <2>1. holder[p] = j <=> /\ call[j].object = p /\ call[j].kind # "listing"
                          /\ call[j].pc \in Inside \cup {"unlock"}
    BY DEF RunInv, MutexKept
  <2>2. CASE j = k
    BY <1>1, <1>2, <1>3, <2>1, <2>2, CallPcs
  <2>3. CASE j # k
    BY <1>1, <1>4, <2>1, <2>3
  <2> QED
    BY <2>2, <2>3
<1>12. ManagedAlive'
  BY <1>1 DEF RunInv, ManagedAlive, Managed, registryVars
<1>13. MutexKept' /\ HeapsOK' /\ CallsOK'
  BY <1>8, <1>10, <1>11 DEF MutexKept, HeapsOK, CallsOK
<1> QED
  BY <1>6, <1>7, <1>12, <1>13 DEF RunInv

-----------------------------------------------------------------------------
(* Into an instance: it is empty, or is no longer counted.                 *)
LEMMA EnterHeaps ==
  ASSUME RunInv, NEW k \in Calls, NEW v \in Call, SetCall(k, v), NEW o \in Objects,
         o \in 1..made, call[k].pc \notin Inside, v.pc \in Inside, v.object = o,
         ~v.arg, ~v.text, Enter(k, o), UNCHANGED trapped,
         call[k].kind = "listing" \/ holder[o] = NoCall
  PROVE  /\ HeapsOK'
         /\ blocks' \in [Objects -> Nat] /\ raced' \subseteq 1..made
<1>1. /\ call'[k] = v
      /\ \A j \in Calls : j # k => call'[j] = call[j]
      /\ blocks \in [Objects -> Nat] /\ raced \subseteq 1..made
  BY DEF RunInv, TypeOK, SetCall
<1>2. HeldBy(v) = 0
  BY DEF HeldBy
<1>3. \A p \in Objects, j \in Calls :
        j # k \/ p # o => /\ In(j, p)' <=> In(j, p)
                          /\ In(j, p) => HeldBy(call'[j]) = HeldBy(call[j])
  BY <1>1 DEF In
<1>4. \A p \in Objects : HeapOK(p)
  BY DEF RunInv, HeapsOK
<1>5. CASE raced' = raced \cup {o} /\ blocks' = [blocks EXCEPT ![o] = 0]
  <2>1. ASSUME NEW p \in Objects PROVE HeapOK(p)'
    <3>1. CASE p = o
      BY <1>5, <3>1 DEF HeapOK, Counted
    <3>2. CASE p # o
      <4>1. (Counted(p)' <=> Counted(p)) /\ blocks'[p] = blocks[p]
        BY <1>1, <1>5, <3>2 DEF Counted
      <4> QED
        BY <1>3, <1>4, <3>2, <4>1 DEF HeapOK, HeldBy
    <3> QED
      BY <3>1, <3>2
  <2> QED
    BY <1>1, <1>5, <2>1 DEF HeapsOK
<1>6. CASE /\ UNCHANGED <<raced, blocks>>
           /\ \A j \in CallsIn(o) : "listing" \notin {call[k].kind, call[j].kind}
  <2>1. \A j \in Calls : ~In(j, o)
    <3>1. SUFFICES ASSUME NEW j \in Calls, In(j, o) PROVE FALSE
      OBVIOUS
    <3>2. call[k].kind # "listing" /\ call[j].kind # "listing"
      BY <1>6, <3>1 DEF CallsIn, In
    <3>3. holder[o] = j
      BY <3>1, <3>2 DEF RunInv, MutexKept, In
    <3> QED
      BY <3>2, <3>3, NoCallAssumption
  <2>2. ASSUME NEW p \in Objects PROVE HeapOK(p)'
    <3>1. Counted(p)' <=> Counted(p)
      BY <1>6 DEF Counted
    <3>2. CASE p = o
      <4>1. Counted(o) => blocks[o] = 0
        BY <1>4, <2>1 DEF HeapOK
      <4>2. In(k, o)' /\ \A j \in Calls : j # k => ~In(j, o)'
        BY <1>1, <2>1 DEF In
      <4>3. Counted(o)' => blocks'[o] = HeldBy(call'[k])
        BY <1>1, <1>2, <1>6, <3>1, <3>2, <4>1
      <4> QED
        BY <3>2, <4>2, <4>3 DEF HeapOK, HeldBy
    <3>3. CASE p # o
      BY <1>3, <1>4, <1>6, <3>1, <3>3 DEF HeapOK, HeldBy
    <3> QED
      BY <3>2, <3>3
  <2> QED
    BY <1>1, <1>6, <2>2 DEF HeapsOK
<1> QED
  BY <1>5, <1>6 DEF Enter

LEMMA LookUpInv ==
  ASSUME RunInv, NEW k \in Calls, LookUp(k), UNCHANGED registryVars
  PROVE  RunInv'
<1> DEFINE u == call[k]  o == crawlers[u.ext]
<1>1. /\ u.pc = "lookup" /\ u \in Call /\ u.ext \in Extensions /\ CallOK(u)
      /\ UNCHANGED <<destroyed, trapped, holder, flag, calls>>
      /\ o \in {0} \cup Objects
  BY DEF LookUp, At, RunInv, TypeOK, CallsOK, Call, RegistryTypeOK, Registry
<1>2. u.pc \notin Inside \cup {"unlock"}
  BY <1>1, CallPcs
<1>3. CASE o = 0
  <2>1. EndCall(k, "failure") /\ UNCHANGED <<raced, blocks>>
    BY <1>3 DEF LookUp
  <2>2. PICK v \in Call : SetCall(k, v) /\ v.pc = "failure" /\ CallOK(v)
    BY <2>1, EndCallGoes
  <2>3. v.pc \notin Inside \cup {"unlock"}
    BY <2>2, CallPcs
  <2> QED
    BY <1>1, <1>2, <2>1, <2>2, <2>3, SameCalls, OutsideStep
<1>4. CASE o # 0
  <2>1. o \in Objects /\ o \notin destroyed /\ o \in 1..made
    BY <1>1, <1>4 DEF RunInv, ManagedAlive, Managed
  <2>2. ~u.arg /\ ~u.text
    BY <1>1 DEF CallOK
  <2>3. CASE u.kind = "listing"
    <3>1. SetCall(k, [u EXCEPT !.pc = "run", !.object = o]) /\ Enter(k, o)
      BY <1>4, <2>3 DEF LookUp
    <3>2. PICK v : v = [u EXCEPT !.pc = "run", !.object = o]
      OBVIOUS
    <3>3. /\ v \in Call /\ v.pc = "run" /\ v.object = o /\ v.kind = u.kind
          /\ v.arg = u.arg /\ v.text = u.text
          /\ v.challenged = u.challenged /\ v.stolen = u.stolen
      BY <1>1, <2>1, <3>2, CallPcs DEF Call
    <3>4. CallOK(v)
      BY <1>1, <2>1, <2>2, <3>3, CallPcs DEF CallOK
    <3>5. HeapsOK' /\ blocks' \in [Objects -> Nat] /\ raced' \subseteq 1..made
      <4>1. SetCall(k, v) /\ Enter(k, o) /\ v.pc \in Inside /\ ~v.arg /\ ~v.text
        BY <2>2, <3>1, <3>2, <3>3, CallPcs
      <4> QED
        BY <1>1, <1>2, <2>1, <2>3, <3>3, <4>1, EnterHeaps
    <3>6. MutexKept'
      BY <1>1, <2>3, <3>1, <3>2, <3>3, MutexStays
    <3>7. trapped' \subseteq 1..made /\ holder' \in [Objects -> Calls \cup {NoCall}]
      BY <1>1 DEF RunInv, TypeOK
    <3> QED
      BY <1>1, <3>1, <3>2, <3>3, <3>4, <3>5, <3>6, <3>7, SameCalls, CallStepInv
  <2>4. CASE u.kind # "listing"
    <3>1. SetCall(k, [u EXCEPT !.pc = "lock", !.object = o]) /\ UNCHANGED <<raced, blocks>>
      BY <1>4, <2>4 DEF LookUp
    <3>2. PICK v : v = [u EXCEPT !.pc = "lock", !.object = o]
      OBVIOUS
    <3>3. /\ v \in Call /\ v.pc = "lock" /\ v.object = o /\ v.kind = u.kind
          /\ v.arg = u.arg /\ v.text = u.text
          /\ v.challenged = u.challenged /\ v.stolen = u.stolen
      BY <1>1, <2>1, <3>2, CallPcs DEF Call
    <3>4. CallOK(v)
      BY <1>1, <2>1, <2>2, <2>4, <3>3, CallPcs DEF CallOK
    <3>5. v.pc \notin Inside \cup {"unlock"}
      BY <3>3, CallPcs
    <3> QED
      BY <1>1, <1>2, <3>1, <3>2, <3>3, <3>4, <3>5, SameCalls, OutsideStep
  <2> QED
    BY <2>3, <2>4
<1> QED
  BY <1>3, <1>4

LEMMA LockInv ==
  ASSUME RunInv, NEW k \in Calls, Lock(k), UNCHANGED registryVars
  PROVE  RunInv'
<1> DEFINE u == call[k]  o == call[k].object
<1>1. /\ u.pc = "lock" /\ u \in Call /\ CallOK(u)
      /\ UNCHANGED <<destroyed, trapped, flag, calls>>
      /\ holder[o] = NoCall /\ holder' = [holder EXCEPT ![o] = k]
      /\ Go(k, "alloc") /\ Enter(k, o)
  BY DEF Lock, At, mutexIsFree, RunInv, TypeOK, CallsOK
<1>2. o \in 1..made /\ o \in Objects /\ u.kind # "listing" /\ ~u.arg /\ ~u.text
  <2>1. o \in 1..made /\ made \in 0..MaxObjects
    BY <1>1 DEF CallOK, RunInv, TypeOK, RegistryTypeOK
  <2> QED
    BY <1>1, <2>1, BoundsAssumption DEF CallOK, Objects
<1>3. PICK v \in Call :
        /\ v = [u EXCEPT !.pc = "alloc"]
        /\ v.pc = "alloc" /\ v.object = o /\ v.kind = u.kind
        /\ v.arg = u.arg /\ v.text = u.text
        /\ v.challenged = u.challenged /\ v.stolen = u.stolen
  BY GoneCall, CallPcs DEF RunInv
<1>4. CallOK(v)
  BY <1>1, <1>2, <1>3, CallPcs DEF CallOK
<1>5. SetCall(k, v) /\ u.pc \notin Inside \cup {"unlock"} /\ v.pc \in Inside
  BY <1>1, <1>3, CallPcs DEF Go
<1>6. HeapsOK' /\ blocks' \in [Objects -> Nat] /\ raced' \subseteq 1..made
  BY <1>1, <1>2, <1>3, <1>5, EnterHeaps
<1>7. /\ call'[k] = v
      /\ \A j \in Calls : j # k => call'[j] = call[j]
      /\ holder \in [Objects -> Calls \cup {NoCall}]
      /\ holder' \in [Objects -> Calls \cup {NoCall}]
  BY <1>1, <1>5 DEF RunInv, TypeOK, SetCall
<1>8. ASSUME NEW p \in Objects, NEW j \in Calls
      PROVE  holder'[p] = j <=> /\ call'[j].object = p /\ call'[j].kind # "listing"
                                /\ call'[j].pc \in Inside \cup {"unlock"}
  <2>1. /\ holder[p] = j <=> /\ call[j].object = p /\ call[j].kind # "listing"
                             /\ call[j].pc \in Inside \cup {"unlock"}
    BY DEF RunInv, MutexKept
  <2>2. CASE j = k
    <3>1. holder[p] # k
      BY <1>5, <2>1, <2>2
    <3> QED
      BY <1>1, <1>2, <1>3, <1>5, <1>7, <2>2, <3>1
  <2>3. CASE j # k
    BY <1>1, <1>2, <1>7, <2>1, <2>3, NoCallAssumption
  <2> QED
    BY <2>2, <2>3
<1>9. MutexKept'
  BY <1>8 DEF MutexKept
<1>10. trapped' \subseteq 1..made
  BY <1>1 DEF RunInv, TypeOK
<1> QED
  BY <1>1, <1>3, <1>4, <1>5, <1>6, <1>7, <1>9, <1>10, SameCalls, CallStepInv

-----------------------------------------------------------------------------
(* The finalizer, and the registry under the calls.                        *)
LEMMA FinalizeInv ==
  ASSUME RunInv, NEW o \in Objects, Finalize(o), UNCHANGED registryVars
  PROVE  RunInv'
<1>1. /\ o \in 1..made /\ ~Reachable(o) /\ destroyed' = destroyed \cup {o}
      /\ UNCHANGED <<trapped, blocks, holder, flag, call, calls, raced>>
  BY BoundsAssumption DEF Finalize, Objects, RunInv, TypeOK, RegistryTypeOK
<1>2. RegistryInv'
  BY RegistryStep DEF RunInv
<1>3. TypeOK'
  BY <1>1, <1>2 DEF RunInv, TypeOK, RegistryInv, registryVars
<1>4. ASSUME NEW k \in Calls PROVE CallOK(call[k])'
  BY <1>1 DEF RunInv, CallsOK, CallOK, Reachable, registryVars
<1>5. MutexKept' /\ HeapsOK'
  BY <1>1 DEF RunInv, MutexKept, HeapsOK, HeapOK, Counted, In, HeldBy
<1>6. ManagedAlive'
  BY <1>1 DEF RunInv, ManagedAlive, Managed, Reachable, registryVars
<1> QED
  BY <1>2, <1>3, <1>4, <1>5, <1>6 DEF RunInv, CallsOK

(* Managers come to hold nothing but what others hold and what they make.  *)
LEMMA ManagedGrows ==
  ASSUME RegistryInv, RegistryNext, NEW o \in Objects, Managed(o)'
  PROVE  /\ Managed(o) \/ o = made'
         /\ Managed(o) \/ made' = made + 1
<1>1. PICK m \in Managers : Install(m) \/ Load(m) \/ Uninstall(m) \/ Sync(m)
  BY DEF RegistryNext
<1> DEFINE u == manager[m]
<1>2. /\ manager \in [Managers -> Manager] /\ u \in Manager /\ u.map \in Registry
      /\ u.ext \in Extensions /\ installed \in Registry /\ crawlers \in Registry
      /\ made \in 0..MaxObjects /\ o # 0
  BY BoundsAssumption DEF RegistryInv, RegistryTypeOK, Manager, Objects
<1>3. Managed(o) <=> \/ \E e \in Extensions : installed[e] = o \/ crawlers[e] = o
                     \/ \E n \in Managers : \/ manager[n].object = o
                                            \/ \E e \in Extensions : manager[n].map[e] = o
  BY DEF Managed
<1> DEFINE Gains(v) == \/ v.object = o \/ \E e \in Extensions : v.map[e] = o
<1>4. ASSUME NEW v, Set(m, v), Gains(v) => Managed(o) \/ (o = made + 1 /\ made' = made + 1),
             \A e \in Extensions :
               installed'[e] = o \/ crawlers'[e] = o => Managed(o)
      PROVE  Managed(o) \/ (o = made' /\ made' = made + 1)
  <2>1. /\ manager'[m] = v
        /\ \A n \in Managers : n # m => manager'[n] = manager[n]
    BY <1>2, <1>4 DEF Set
  <2>2. CASE \E e \in Extensions : installed'[e] = o \/ crawlers'[e] = o
    BY <1>4, <2>2
  <2>3. CASE \E n \in Managers : Gains(manager'[n])
    <3>1. PICK n \in Managers : Gains(manager'[n])
      BY <2>3
    <3>2. CASE n = m
      BY <1>4, <2>1, <3>1, <3>2
    <3>3. CASE n # m
      BY <1>3, <2>1, <3>1, <3>3
    <3> QED
      BY <3>2, <3>3
  <2> QED
    BY <2>2, <2>3 DEF Managed
<1>5. ASSUME NEW e \in Extensions, NEW pc, Begin(m, e, pc)
      PROVE  Managed(o) \/ (o = made' /\ made' = made + 1)
  <2>1. PICK v : v = [IdleManager EXCEPT !.pc = pc, !.ext = e]
    OBVIOUS
  <2>2. v.object = 0 /\ v.map = NoObjects
    BY <2>1 DEF IdleManager
  <2>3. ~Gains(v)
    BY <1>2, <2>2 DEF NoObjects
  <2> QED
    BY <1>3, <1>4, <1>5, <2>1, <2>3 DEF Begin
<1>6. ASSUME NEW v, Set(m, v), v.object \in {0, u.object} \cup {made + 1},
             v.object = made + 1 => made' = made + 1 \/ u.object = made + 1,
             v.map \in {u.map, installed, NoObjects},
             \A e \in Extensions :
               installed'[e] = o \/ crawlers'[e] = o => Managed(o)
      PROVE  Managed(o) \/ (o = made' /\ made' = made + 1)
  <2>1. Gains(v) => Managed(o) \/ (o = made + 1 /\ made' = made + 1)
    <3>1. CASE v.object = o
      BY <1>2, <1>3, <1>6, <3>1
    <3>2. CASE \E e \in Extensions : v.map[e] = o
      BY <1>2, <1>3, <1>6, <3>2 DEF NoObjects
    <3> QED
      BY <3>1, <3>2
  <2> HIDE DEF Gains
  <2> QED
    BY <1>4, <1>6, <2>1
<1>6a. ASSUME End(m),
              \A e \in Extensions :
                installed'[e] = o \/ crawlers'[e] = o => Managed(o)
       PROVE  Managed(o) \/ (o = made' /\ made' = made + 1)
  <2>1. PICK v : v = IdleManager
    OBVIOUS
  <2>2. v.object = 0 /\ v.map = NoObjects
    BY <2>1 DEF IdleManager
  <2>3. Set(m, v)
    BY <1>6a, <2>1 DEF End
  <2>4. v.object # made + 1
    BY <1>2, <2>2
  <2> QED
    BY <1>6, <1>6a, <2>2, <2>3, <2>4
<1>7. CASE Install(m)
  <2>1. CASE CopyPackage(m)
    <3>1. PICK good \in BOOLEAN : Set(m, [u EXCEPT !.pc = "load", !.good = good])
      BY <2>1 DEF CopyPackage
    <3>2. PICK v : v = [u EXCEPT !.pc = "load", !.good = good]
      OBVIOUS
    <3>3. v.object = u.object /\ v.map = u.map
      BY <1>2, <3>2 DEF Manager
    <3> QED
      BY <1>3, <1>6, <2>1, <3>1, <3>2, <3>3 DEF CopyPackage
  <2>2. CASE LoadPackage(m)
    <3>1. CASE made' = made + 1 /\ Set(m, [u EXCEPT !.pc = "get", !.object = made + 1])
      <4>1. PICK v : v = [u EXCEPT !.pc = "get", !.object = made + 1]
        OBVIOUS
      <4>2. v.object = made + 1 /\ v.map = u.map
        BY <1>2, <4>1 DEF Manager
      <4> QED
        BY <1>3, <1>6, <2>2, <3>1, <4>1, <4>2 DEF LoadPackage
    <3>2. CASE End(m)
      <4>1. \A e \in Extensions : installed'[e] = o \/ crawlers'[e] = o => Managed(o)
        BY <1>3, <2>2 DEF LoadPackage
      <4> QED
        BY <1>6a, <3>2, <4>1
    <3> QED
      BY <2>2, <3>1, <3>2 DEF LoadPackage
  <2>3. CASE GetMap(m)
    <3>1. PICK v : v = [u EXCEPT !.pc = "put", !.map = installed]
      OBVIOUS
    <3>2. v.object = u.object /\ v.map = installed
      BY <1>2, <3>1 DEF Manager
    <3> QED
      BY <1>3, <1>6, <2>3, <3>1, <3>2 DEF GetMap
  <2>4. CASE PutMap(m)
    <3>1. PICK v : v = [u EXCEPT !.pc = "sync"]
      OBVIOUS
    <3>2. v.object = u.object /\ v.map = u.map
      BY <1>2, <3>1 DEF Manager
    <3>3. installed' = [u.map EXCEPT ![u.ext] = u.object] /\ crawlers' = crawlers
      BY <2>4 DEF PutMap
    <3>4. \A e \in Extensions : installed'[e] = o \/ crawlers'[e] = o => Managed(o)
      BY <1>2, <1>3, <3>3 DEF Registry
    <3> QED
      BY <1>6, <2>4, <3>1, <3>2, <3>4 DEF PutMap, Goto
  <2> QED
    BY <1>5, <1>7, <2>1, <2>2, <2>3, <2>4 DEF Install
<1>8. CASE Load(m)
  <2>1. CASE ListDirectories(m)
    <3>1. PICK v : v = [u EXCEPT !.pc = "loadEach", !.todo = {e \in Extensions : disk[e] # "none"}]
      OBVIOUS
    <3>2. v.object = u.object /\ v.map = u.map
      BY <1>2, <3>1 DEF Manager
    <3> QED
      BY <1>3, <1>6, <2>1, <3>1, <3>2 DEF ListDirectories
  <2>2. CASE LoadNext(m)
    <3>1. PICK e \in u.todo :
            LET rest == [u EXCEPT !.todo = @ \ {e}]
            IN  \/ /\ disk[e] = "good" /\ made < MaxObjects
                   /\ made' = made + 1
                   /\ Set(m, [rest EXCEPT !.map[e] = made + 1])
                \/ disk[e] # "good" /\ Set(m, rest) /\ UNCHANGED made
      BY <2>2 DEF LoadNext
    <3>2. PICK rest : rest = [u EXCEPT !.todo = @ \ {e}]
      OBVIOUS
    <3>3. rest \in Manager /\ rest.object = u.object /\ rest.map = u.map
      BY <1>2, <3>2 DEF Manager
    <3>4. CASE made' = made + 1 /\ Set(m, [rest EXCEPT !.map[e] = made + 1])
      <4>1. PICK v : v = [rest EXCEPT !.map[e] = made + 1]
        OBVIOUS
      <4>2. v.object = u.object /\ v.map = [u.map EXCEPT ![e] = made + 1]
        BY <3>3, <4>1 DEF Manager
      <4>3. Gains(v) => Managed(o) \/ (o = made + 1 /\ made' = made + 1)
        BY <1>2, <1>3, <3>4, <4>2 DEF Registry
      <4>4. \A f \in Extensions : installed'[f] = o \/ crawlers'[f] = o => Managed(o)
        BY <1>3, <2>2 DEF LoadNext
      <4> HIDE DEF Gains
      <4> QED
        BY <1>4, <3>4, <4>1, <4>3, <4>4
    <3>5. CASE Set(m, rest)
      BY <1>3, <1>6, <2>2, <3>3, <3>5 DEF LoadNext
    <3> QED
      BY <3>1, <3>2, <3>4, <3>5
  <2>3. CASE ReplaceMap(m)
    <3>1. PICK v : v = [u EXCEPT !.pc = "sync"]
      OBVIOUS
    <3>2. v.object = u.object /\ v.map = u.map
      BY <1>2, <3>1 DEF Manager
    <3>3. \A e \in Extensions : installed'[e] = o \/ crawlers'[e] = o => Managed(o)
      BY <1>3, <2>3 DEF ReplaceMap
    <3> QED
      BY <1>6, <2>3, <3>1, <3>2, <3>3 DEF ReplaceMap, Goto
  <2> QED
    BY <1>5, <1>8, <2>1, <2>2, <2>3, ExtensionsAssumption DEF Load, AnyExtension
<1>9. CASE Uninstall(m)
  <2>1. CASE CopyMap(m)
    <3>1. PICK v : v = [u EXCEPT !.pc = "remove", !.map = installed, !.uninstalls = TRUE]
      OBVIOUS
    <3>2. v.object = u.object /\ v.map = installed
      BY <1>2, <3>1 DEF Manager
    <3> QED
      BY <1>3, <1>6, <2>1, <3>1, <3>2 DEF CopyMap
  <2>2. CASE RemoveFromMap(m)
    <3>1. PICK v : v = [u EXCEPT !.pc = "sync"]
      OBVIOUS
    <3>2. v.object = u.object /\ v.map = u.map
      BY <1>2, <3>1 DEF Manager
    <3>3. \A e \in Extensions : installed'[e] = o \/ crawlers'[e] = o => Managed(o)
      BY <1>2, <1>3, <2>2 DEF RemoveFromMap, Registry
    <3> QED
      BY <1>6, <2>2, <3>1, <3>2, <3>3 DEF RemoveFromMap, Goto
  <2>3. CASE DeletePackage(m)
    <3>1. \A e \in Extensions : installed'[e] = o \/ crawlers'[e] = o => Managed(o)
      BY <1>3, <2>3 DEF DeletePackage
    <3> QED
      BY <1>6a, <2>3, <3>1 DEF DeletePackage
  <2> QED
    BY <1>5, <1>9, <2>1, <2>2, <2>3 DEF Uninstall
<1>10. CASE Sync(m)
  <2>1. CASE MakeAdapters(m)
    <3>1. PICK v : v = [u EXCEPT !.pc = "clear", !.map = installed]
      OBVIOUS
    <3>2. v.object = u.object /\ v.map = installed
      BY <1>2, <3>1 DEF Manager
    <3> QED
      BY <1>3, <1>6, <2>1, <3>1, <3>2 DEF MakeAdapters
  <2>2. CASE ClearCrawlers(m)
    <3>1. PICK v : v = [u EXCEPT !.pc = "add"]
      OBVIOUS
    <3>2. v.object = u.object /\ v.map = u.map
      BY <1>2, <3>1 DEF Manager
    <3>3. \A e \in Extensions : installed'[e] = o \/ crawlers'[e] = o => Managed(o)
      BY <1>2, <1>3, <2>2 DEF ClearCrawlers, NoObjects
    <3> QED
      BY <1>6, <2>2, <3>1, <3>2, <3>3 DEF ClearCrawlers, Goto
  <2>3. CASE AddCrawlers(m)
    <3>1. PICK v : v = [u EXCEPT !.pc = "delete"]
      OBVIOUS
    <3>2. v.object = u.object /\ v.map = u.map
      BY <1>2, <3>1 DEF Manager
    <3>3. \A e \in Extensions : installed'[e] = o \/ crawlers'[e] = o => Managed(o)
      BY <1>2, <1>3, <2>3 DEF AddCrawlers
    <3>4. CASE Set(m, v)
      BY <1>6, <3>2, <3>3, <3>4
    <3>5. CASE End(m)
      BY <1>6a, <3>3, <3>5
    <3> QED
      BY <2>3, <3>1, <3>4, <3>5 DEF AddCrawlers, Goto
  <2> QED
    BY <1>5, <1>10, <2>1, <2>2, <2>3, ExtensionsAssumption DEF Sync, AnyExtension
<1> QED
  BY <1>1, <1>7, <1>8, <1>9, <1>10

LEMMA RegistryRunInv ==
  ASSUME RunInv, RegistryNext, UNCHANGED runtime
  PROVE  RunInv'
<1>1. RegistryInv'
  BY RegistryStep DEF RunInv
<1>2. (made' = made \/ made' = made + 1) /\ made \in Nat
  <2>1. PICK m \in Managers : Install(m) \/ Load(m) \/ Uninstall(m) \/ Sync(m)
    BY DEF RegistryNext
  <2>2. ASSUME NEW e, NEW pc, Begin(m, e, pc) PROVE made' = made
    BY <2>2 DEF Begin
  <2>3. CopyPackage(m) \/ GetMap(m) \/ PutMap(m) \/ ListDirectories(m) \/ ReplaceMap(m)
        => made' = made
    BY DEF CopyPackage, GetMap, PutMap, ListDirectories, ReplaceMap
  <2>4. CopyMap(m) \/ RemoveFromMap(m) \/ DeletePackage(m) \/ MakeAdapters(m)
        \/ ClearCrawlers(m) \/ AddCrawlers(m) => made' = made
    BY DEF CopyMap, RemoveFromMap, DeletePackage, MakeAdapters, ClearCrawlers, AddCrawlers
  <2>6. LoadPackage(m) \/ LoadNext(m) => made' = made \/ made' = made + 1
    BY DEF LoadPackage, LoadNext
  <2>5. made \in Nat
    BY BoundsAssumption DEF RunInv, TypeOK, RegistryTypeOK
  <2> QED
    BY <2>1, <2>2, <2>3, <2>4, <2>5, <2>6 DEF Install, Load, Uninstall, Sync
<1>3. TypeOK'
  BY <1>1, <1>2 DEF RunInv, TypeOK, RegistryInv, runtime
<1>4. CallsOK'
  BY <1>2 DEF RunInv, CallsOK, CallOK, runtime
<1>5. MutexKept' /\ HeapsOK'
  BY DEF RunInv, MutexKept, HeapsOK, HeapOK, Counted, In, HeldBy, runtime
<1>6. ASSUME NEW o \in Objects, Managed(o)'
      PROVE  o \in 1..made' /\ o \notin destroyed'
  <2>1. /\ Managed(o) \/ o = made'
        /\ Managed(o) \/ made' = made + 1
    BY <1>6, ManagedGrows DEF RunInv
  <2>2. destroyed \subseteq 1..made /\ destroyed' = destroyed
    BY DEF RunInv, TypeOK, runtime
  <2> QED
    BY <1>2, <2>1, <2>2 DEF RunInv, ManagedAlive
<1> QED
  BY <1>1, <1>3, <1>4, <1>5, <1>6 DEF RunInv, ManagedAlive

-----------------------------------------------------------------------------
LEMMA InitInv ==
  Init => RunInv
<1> SUFFICES ASSUME Init PROVE RunInv
  OBVIOUS
<1>1. /\ installed = NoObjects /\ crawlers = NoObjects /\ made = 0 /\ operations = 0
      /\ exclusive = FALSE /\ disk \in [Extensions -> {"none", "good", "bad"}]
      /\ \A m \in Managers : manager[m] = IdleManager
      /\ manager \in [Managers -> Manager]
  BY IdleManagerType DEF Init, RegistryInit
<1>2. exclusive \in BOOLEAN
  BY <1>1
<1>3. RegistryTypeOK
  BY <1>1, <1>2, IdleManagerType, BoundsAssumption DEF RegistryTypeOK
<1>4. RegistryInv
  BY <1>1, <1>3 DEF RegistryInv, InPhase
<1>5. /\ destroyed = {} /\ trapped = {} /\ raced = {} /\ calls = 0
      /\ \A o \in Objects : blocks[o] = 0 /\ holder[o] = NoCall
      /\ \A k \in Calls : call[k] = IdleCall
      /\ call \in [Calls -> Call] /\ flag \in BOOLEAN
      /\ blocks \in [Objects -> Nat] /\ holder \in [Objects -> Calls \cup {NoCall}]
  BY IdleCallType DEF Init
<1>6. TypeOK
  BY <1>3, <1>5, MaxCallsAssumption DEF TypeOK
<1>7. CallsOK
  BY <1>5, IdleCallType, CallPcs DEF CallsOK, CallOK
<1>8. MutexKept /\ HeapsOK
  BY <1>5, IdleCallType, CallPcs, NoCallAssumption DEF MutexKept, HeapsOK, HeapOK, In
<1>9. ManagedAlive
  <2>1. IdleManager.object = 0 /\ IdleManager.map = NoObjects
    BY DEF IdleManager
  <2> QED
    BY <1>1, <2>1 DEF ManagedAlive, Managed, NoObjects, Objects
<1> QED
  BY <1>4, <1>6, <1>7, <1>8, <1>9 DEF RunInv

LEMMA Step ==
  RunInv /\ [Next]_vars => RunInv'
<1> SUFFICES ASSUME RunInv, [Next]_vars PROVE RunInv'
  OBVIOUS
<1>1. CASE RegistryNext /\ UNCHANGED runtime
  BY <1>1, RegistryRunInv
<1>2. ASSUME NEW k \in Calls, UNCHANGED registryVars,
             StartCall(k) \/ CallStep(k) \/ CancelWait(k) \/ MeetChallenge(k)
      PROVE  RunInv'
  BY <1>2, StartCallInv, CancelWaitInv, MeetChallengeInv, LookUpInv, LockInv,
     AllocArgumentInv, GuestReturnsInv, FreeArgumentInv, CopyResultInv, UnlockInv,
     ReadFlagInv, ClearFlagInv DEF CallStep
<1>3. ASSUME NEW o \in Objects, Finalize(o), UNCHANGED registryVars PROVE RunInv'
  BY <1>3, FinalizeInv
<1>4. CASE UNCHANGED vars
  <2>1. RegistryInv'
    BY <1>4, RegistryStep DEF vars, RunInv
  <2> QED
    BY <1>4, <2>1 DEF vars, registryVars, runtime, RunInv, RegistryInv, TypeOK, CallsOK,
       CallOK, MutexKept, HeapsOK, HeapOK, Counted, In, HeldBy, ManagedAlive, Managed
<1> QED
  BY <1>1, <1>2, <1>3, <1>4 DEF Next

THEOREM RuntimeInvariant == Spec => []RunInv
BY InitInv, Step, PTL DEF Spec

(* Packages, objects, managers and calls keep their types.                 *)
THEOREM RuntimeTyped == Spec => []TypeOK
BY RuntimeInvariant, PTL DEF RunInv

(* With nothing under way and no overlap since the last load, packages,    *)
(* map and crawlers agree, for any number of extensions and managers.      *)
THEOREM RegistryAgrees == Spec => []RegistryConsistent
<1>1. RunInv => RegistryConsistent
  BY DEF RunInv, RegistryInv, InPhase, Busy, RegistryConsistent, Agree, Packaged, Served
<1> QED
  BY <1>1, RuntimeInvariant, PTL

(* Exactly the call inside an instance holds its mutex.                    *)
THEOREM MutexIsKept == Spec => []MutexKept
BY RuntimeInvariant, PTL DEF RunInv

(* What the registry offers, and what a call waits for or is inside, has   *)
(* not been destroyed.                                                     *)
THEOREM InUseIsAlive == Spec => []UsedAlive
<1>1. RunInv => UsedAlive
  <2> SUFFICES ASSUME RunInv PROVE UsedAlive
    OBVIOUS
  <2>1. destroyed \subseteq Objects /\ destroyed \subseteq 1..made
    BY BoundsAssumption DEF RunInv, TypeOK, RegistryTypeOK, Objects
  <2>2. ASSUME NEW e \in Extensions PROVE {installed[e], crawlers[e]} \cap destroyed = {}
    BY <2>1 DEF RunInv, ManagedAlive, Managed
  <2>3. ASSUME NEW k \in Calls, call[k].pc \in Inside \cup {"lock"}, call[k].kind # "listing"
        PROVE  call[k].object \notin destroyed
    BY <2>1, <2>3 DEF RunInv, CallsOK, CallOK
  <2> QED
    BY <2>2, <2>3 DEF UsedAlive
<1> QED
  BY <1>1, RuntimeInvariant, PTL

(* The blocks taken of a heap are those that the call inside holds.        *)
THEOREM HeapIsBalanced == Spec => []HeapBalanced
<1>1. RunInv => HeapBalanced
  <2> SUFFICES ASSUME RunInv, NEW o \in Objects, Counted(o)
               PROVE  /\ CallsIn(o) = {} => blocks[o] = 0
                      /\ \A k \in CallsIn(o) : CallsIn(o) = {k} => blocks[o] = Held(k)
    BY DEF HeapBalanced
  <2>1. HeapOK(o)
    BY DEF RunInv, HeapsOK
  <2>2. \A k \in Calls : (k \in CallsIn(o) <=> In(k, o)) /\ Held(k) = HeldBy(call[k])
    BY DEF CallsIn, In, Held, HeldBy
  <2> QED
    BY <2>1, <2>2 DEF HeapOK, CallsIn
<1> QED
  BY <1>1, RuntimeInvariant, PTL

-----------------------------------------------------------------------------
(* A step of one call, to which only its own look at the flag is an        *)
(* exception, leaves the other calls as they are.                          *)
LEMMA OtherCalls ==
  ASSUME RunInv, NEW k \in Calls, NEW j \in Calls, j # k,
         StartCall(k) \/ CallStep(k) \/ CancelWait(k) \/ MeetChallenge(k)
  PROVE  call'[j].pc = call[j].pc
<1>1. call \in [Calls -> Call]
  BY DEF RunInv, TypeOK
<1>2. ASSUME NEW v, SetCall(k, v) PROVE call'[j] = call[j]
  BY <1>1, <1>2 DEF SetCall
<1>3. CASE StartCall(k) \/ CancelWait(k) \/ MeetChallenge(k)
  BY <1>2, <1>3 DEF StartCall, CancelWait, MeetChallenge, Fail, Go, EndCall
<1>4. CASE LookUp(k) \/ Lock(k) \/ Unlock(k)
  BY <1>2, <1>4 DEF LookUp, Lock, Unlock, Fail, Go, EndCall
<1>5. CASE AllocArgument(k) \/ GuestReturns(k)
  BY <1>2, <1>5 DEF AllocArgument, GuestReturns, Go
<1>6. CASE FreeArgument(k) \/ CopyResult(k) \/ ReadFlag(k)
  BY <1>2, <1>6 DEF FreeArgument, CopyResult, ReadFlag, EndCall
<1>7. CASE ClearFlag(k)
  BY <1>1, <1>7 DEF ClearFlag, Call
<1> QED
  BY <1>3, <1>4, <1>5, <1>6, <1>7 DEF CallStep

(* Whose step takes a call out of a place.                                 *)
LEMMA OwnStep ==
  ASSUME RunInv, [Next]_vars, NEW k \in Calls, call'[k].pc # call[k].pc
  PROVE  /\ UNCHANGED registryVars
         /\ StartCall(k) \/ CallStep(k) \/ CancelWait(k) \/ MeetChallenge(k)
BY OtherCalls DEF Next, runtime, vars, Finalize

LEMMA ChallengeStep ==
  ASSUME RunInv, [Next]_vars, NEW k \in Calls, At(k, "clear"), call'[k].pc = "failure"
  PROVE  ~call[k].challenged \/ call[k].stolen
<1>1. call[k].pc = "clear" /\ call'[k].pc # call[k].pc /\ call \in [Calls -> Call]
  BY DEF At, RunInv, TypeOK
<1>2. ClearFlag(k)
  BY <1>1, OwnStep, CallPcs DEF CallStep, StartCall, CancelWait, MeetChallenge, LookUp, Lock,
     AllocArgument, GuestReturns, FreeArgument, CopyResult, Unlock, ReadFlag, At
<1>3. ~call[k].saw
  <2>1. PICK pc \in IF call[k].saw THEN {"idle"} ELSE {"idle", "failure"} :
          call'[k] = [IdleCall EXCEPT !.pc = pc]
    BY <1>2 DEF ClearFlag
  <2>2. call'[k].pc = pc
    BY <2>1 DEF IdleCall
  <2> QED
    BY <2>1, <2>2
<1> QED
  BY <1>1, <1>3 DEF RunInv, CallsOK, CallOK

(* A job that met a challenge is blocked, not failed for good, unless      *)
(* another job took the challenge for its own.                             *)
THEOREM ChallengeBlocks == Spec => OwnChallengeBlocks
<1>1. RunInv /\ [Next]_vars
      => (\A k \in Calls : At(k, "clear") /\ call'[k].pc = "failure"
            => ~call[k].challenged \/ call[k].stolen)
  BY ChallengeStep
<1> QED
  BY <1>1, RuntimeInvariant, PTL DEF Spec, OwnChallengeBlocks

LEMMA NotFoundStep ==
  ASSUME RunInv, [Next]_vars, NEW k \in Calls, At(k, "lookup"), call'[k].pc = "failure",
         exclusive, installed[call[k].ext] # 0
  PROVE  \E m \in Managers :
           manager[m].pc \in {"list", "loadEach", "sync", "clear", "add"}
<1>1. call[k].pc = "lookup" /\ call'[k].pc # call[k].pc /\ call[k] \in Call
      /\ call \in [Calls -> Call]
  BY DEF At, RunInv, TypeOK
<1>2. LookUp(k)
  BY <1>1, OwnStep, CallPcs DEF CallStep, StartCall, CancelWait, MeetChallenge, Lock,
     AllocArgument, GuestReturns, FreeArgument, CopyResult, Unlock, ReadFlag, ClearFlag, At
<1>3. crawlers[call[k].ext] = 0
  <2> SUFFICES ASSUME crawlers[call[k].ext] # 0 PROVE call'[k].pc # "failure"
    OBVIOUS
  <2>1. PICK o : o = crawlers[call[k].ext]
    OBVIOUS
  <2>2. \/ SetCall(k, [call[k] EXCEPT !.pc = "run", !.object = o])
        \/ SetCall(k, [call[k] EXCEPT !.pc = "lock", !.object = o])
    BY <1>2, <2>1 DEF LookUp
  <2> QED
    BY <1>1, <2>2 DEF SetCall, Call
<1>4. crawlers # installed
  BY <1>3
<1>5. PICK m \in Managers : Busy(m) /\ Phase(manager[m])
  BY <1>4 DEF RunInv, RegistryInv, InPhase, Agree
<1>6. manager[m].pc \in ManagerPc
  BY DEF RunInv, TypeOK, RegistryTypeOK, Manager
<1>7. manager[m].pc \in {"list", "loadEach", "sync", "clear", "add"}
  BY <1>4, <1>5, <1>6 DEF Busy, Phase, Agree, ManagerPc
<1> QED
  BY <1>7

(* With no overlap since the last load, a job misses the crawler of an     *)
(* installed extension only while an operation has still to bring the      *)
(* crawlers up to date.                                                    *)
THEOREM NotFoundIsJustified == Spec => NotFoundJustified
<1>1. RunInv /\ [Next]_vars
      => (\A k \in Calls :
            /\ At(k, "lookup") /\ call'[k].pc = "failure"
            /\ exclusive /\ installed[call[k].ext] # 0
            => \E m \in Managers :
                 manager[m].pc \in {"list", "loadEach", "sync", "clear", "add"})
  BY NotFoundStep
<1> QED
  BY <1>1, RuntimeInvariant, PTL DEF Spec, NotFoundJustified
=============================================================================
