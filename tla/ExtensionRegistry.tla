------------------------- MODULE ExtensionRegistry --------------------------
(***************************************************************************)
(* The installed extensions in three places: packages on disk, the map of  *)
(* ExtensionManager, the list of CrawlerFactory.  Installing, loading,     *)
(* uninstalling and syncing are coroutines on the IO dispatcher; they read *)
(* the map, write it whole, and replace the list by a clear and an addAll, *)
(* with no lock around any of it.                                          *)
(*                                                                         *)
(* Every load of a package makes a new extension object; objects are       *)
(* numbered in the order they are made, and 0 is no object.  Aliases of an *)
(* id (with or without the repository's prefix) are taken to be one id.    *)
(***************************************************************************)
EXTENDS Integers, FiniteSets

CONSTANTS
  Extensions,      (* extension ids                                        *)
  Managers,        (* the coroutines that may manage them at once          *)
  MaxObjects,      (* bound: objects made                                  *)
  MaxOperations    (* bound: operations started                            *)

ASSUME BoundsAssumption == MaxObjects \in Nat /\ MaxOperations \in Nat
ASSUME ExtensionsAssumption == Extensions # {}

VARIABLES
  disk,         (* of each extension: its package in installed_extensions  *)
  installed,    (* _installedExtensions: the object of each extension      *)
  crawlers,     (* dynamicCrawlers: the object behind each adapter         *)
  made,         (* objects made so far                                     *)
  manager,      (* of each coroutine: where it is, what it holds           *)
  operations,   (* the bound's counter                                     *)
  exclusive     (* history: a load ran alone, and since it began no two    *)
                (* operations have overlapped                              *)

registryVars == <<disk, installed, crawlers, made, manager, operations, exclusive>>

Objects == 1..MaxObjects
Registry == [Extensions -> {0} \cup Objects]
NoObjects == [e \in Extensions |-> 0]

ManagerPc == {"idle", "copy", "load", "get", "put", "list", "loadEach",
              "getAll", "remove", "sync", "clear", "add", "delete"}

(* good: the package being installed can be loaded; object: the one just   *)
(* loaded; map: what was read, or is being made, of the map; todo:         *)
(* directories still to load; uninstalls: the deletion follows.            *)
Manager == [pc : ManagerPc, ext : Extensions, good : BOOLEAN,
            object : {0} \cup Objects, map : Registry,
            todo : SUBSET Extensions, uninstalls : BOOLEAN]

AnyExtension == CHOOSE e \in Extensions : TRUE
IdleManager == [pc |-> "idle", ext |-> AnyExtension, good |-> FALSE,
                object |-> 0, map |-> NoObjects, todo |-> {},
                uninstalls |-> FALSE]

RegistryTypeOK ==
  /\ disk \in [Extensions -> {"none", "good", "bad"}]
  /\ installed \in Registry /\ crawlers \in Registry
  /\ made \in 0..MaxObjects /\ operations \in 0..MaxOperations
  /\ manager \in [Managers -> Manager] /\ exclusive \in BOOLEAN

(* The process has just started, with whatever packages the disk holds.    *)
RegistryInit ==
  /\ disk \in [Extensions -> {"none", "good", "bad"}]
  /\ installed = NoObjects /\ crawlers = NoObjects
  /\ made = 0 /\ operations = 0 /\ exclusive = FALSE
  /\ manager = [m \in Managers |-> IdleManager]

Set(m, new) == manager' = [manager EXCEPT ![m] = new]
Goto(m, pc) == Set(m, [manager[m] EXCEPT !.pc = pc])
End(m)      == Set(m, IdleManager)

Begin(m, e, pc) ==
  /\ manager[m].pc = "idle" /\ operations < MaxOperations
  /\ operations' = operations + 1
  /\ Set(m, [IdleManager EXCEPT !.pc = pc, !.ext = e])
  /\ exclusive' = ((exclusive \/ pc = "list")
                     /\ \A n \in Managers \ {m} : manager[n].pc = "idle")
  /\ UNCHANGED <<disk, installed, crawlers, made>>

-----------------------------------------------------------------------------
(* installFromFile, registerExtension                                      *)

(* The package is copied over the one that is there.                       *)
CopyPackage(m) ==
  /\ manager[m].pc = "copy"
  /\ \E good \in BOOLEAN :
       /\ disk' = [disk EXCEPT ![manager[m].ext] = IF good THEN "good" ELSE "bad"]
       /\ Set(m, [manager[m] EXCEPT !.pc = "load", !.good = good])
  /\ UNCHANGED <<installed, crawlers, made, operations, exclusive>>

(* loadPackage of what was read: a new object, or an exception that ends   *)
(* the installation.                                                       *)
LoadPackage(m) ==
  /\ manager[m].pc = "load"
  /\ \/ /\ manager[m].good /\ made < MaxObjects
        /\ made' = made + 1
        /\ Set(m, [manager[m] EXCEPT !.pc = "get", !.object = made + 1])
     \/ ~manager[m].good /\ End(m) /\ UNCHANGED made
  /\ UNCHANGED <<disk, installed, crawlers, operations, exclusive>>

(* The two halves of _installedExtensions.value = _installedExtensions     *)
(* .value + (id to loaded).                                                *)
GetMap(m) ==
  /\ manager[m].pc = "get"
  /\ Set(m, [manager[m] EXCEPT !.pc = "put", !.map = installed])
  /\ UNCHANGED <<disk, installed, crawlers, made, operations, exclusive>>

(* Changed: registerExtension does not sync.                               *)
putMapOnly(m) ==
  /\ manager[m].pc = "put"
  /\ installed' = [manager[m].map EXCEPT ![manager[m].ext] = manager[m].object]
  /\ End(m)
  /\ UNCHANGED <<disk, crawlers, made, operations, exclusive>>

PutMap(m) ==
  /\ manager[m].pc = "put"
  /\ installed' = [manager[m].map EXCEPT ![manager[m].ext] = manager[m].object]
  /\ Goto(m, "sync")
  /\ UNCHANGED <<disk, crawlers, made, operations, exclusive>>

-----------------------------------------------------------------------------
(* loadInstalledExtensions                                                 *)

ListDirectories(m) ==
  /\ manager[m].pc = "list"
  /\ Set(m, [manager[m] EXCEPT !.pc = "loadEach",
               !.todo = {e \in Extensions : disk[e] # "none"}])
  /\ UNCHANGED <<disk, installed, crawlers, made, operations, exclusive>>

(* A package that has gone since, or cannot be loaded, is passed over.     *)
LoadNext(m) ==
  /\ manager[m].pc = "loadEach" /\ manager[m].todo # {}
  /\ \E e \in manager[m].todo :
       LET rest == [manager[m] EXCEPT !.todo = @ \ {e}]
       IN  \/ /\ disk[e] = "good" /\ made < MaxObjects
              /\ made' = made + 1
              /\ Set(m, [rest EXCEPT !.map[e] = made + 1])
           \/ disk[e] # "good" /\ Set(m, rest) /\ UNCHANGED made
  /\ UNCHANGED <<disk, installed, crawlers, operations, exclusive>>

ReplaceMap(m) ==
  /\ manager[m].pc = "loadEach" /\ manager[m].todo = {}
  /\ installed' = manager[m].map
  /\ Goto(m, "sync")
  /\ UNCHANGED <<disk, crawlers, made, operations, exclusive>>

-----------------------------------------------------------------------------
(* uninstall                                                               *)

CopyMap(m) ==
  /\ manager[m].pc = "getAll"
  /\ Set(m, [manager[m] EXCEPT !.pc = "remove", !.map = installed,
                               !.uninstalls = TRUE])
  /\ UNCHANGED <<disk, installed, crawlers, made, operations, exclusive>>

RemoveFromMap(m) ==
  /\ manager[m].pc = "remove"
  /\ installed' = [manager[m].map EXCEPT ![manager[m].ext] = 0]
  /\ Goto(m, "sync")
  /\ UNCHANGED <<disk, crawlers, made, operations, exclusive>>

DeletePackage(m) ==
  /\ manager[m].pc = "delete"
  /\ disk' = [disk EXCEPT ![manager[m].ext] = "none"]
  /\ End(m)
  /\ UNCHANGED <<installed, crawlers, made, operations, exclusive>>

-----------------------------------------------------------------------------
(* syncWithCrawlerFactory and CrawlerFactory.registerCrawlers              *)

MakeAdapters(m) ==
  /\ manager[m].pc = "sync"
  /\ Set(m, [manager[m] EXCEPT !.pc = "clear", !.map = installed])
  /\ UNCHANGED <<disk, installed, crawlers, made, operations, exclusive>>

(* Changed: the crawlers are added to those that are there.                *)
keepCrawlers(m) ==
  /\ manager[m].pc = "clear"
  /\ Goto(m, "add")
  /\ UNCHANGED <<disk, installed, crawlers, made, operations, exclusive>>

ClearCrawlers(m) ==
  /\ manager[m].pc = "clear"
  /\ crawlers' = NoObjects
  /\ Goto(m, "add")
  /\ UNCHANGED <<disk, installed, made, operations, exclusive>>

(* addAll to whatever the list holds by then; getCrawler finds the first.  *)
AddCrawlers(m) ==
  /\ manager[m].pc = "add"
  /\ crawlers' = [e \in Extensions |-> IF crawlers[e] # 0 THEN crawlers[e]
                                       ELSE manager[m].map[e]]
  /\ IF manager[m].uninstalls THEN Goto(m, "delete") ELSE End(m)
  /\ UNCHANGED <<disk, installed, made, operations, exclusive>>

-----------------------------------------------------------------------------
Install(m)   == \/ \E e \in Extensions : Begin(m, e, "copy")
                \/ CopyPackage(m) \/ LoadPackage(m) \/ GetMap(m) \/ PutMap(m)
Load(m)      == \/ Begin(m, AnyExtension, "list")
                \/ ListDirectories(m) \/ LoadNext(m) \/ ReplaceMap(m)
Uninstall(m) == \/ \E e \in Extensions : Begin(m, e, "getAll")
                \/ CopyMap(m) \/ RemoveFromMap(m) \/ DeletePackage(m)
Sync(m)      == \/ Begin(m, AnyExtension, "sync")
                \/ MakeAdapters(m) \/ ClearCrawlers(m) \/ AddCrawlers(m)

RegistryNext == \E m \in Managers : Install(m) \/ Load(m) \/ Uninstall(m) \/ Sync(m)

-----------------------------------------------------------------------------
(* When nothing is under way, and since the last load nothing has          *)
(* overlapped, the three places agree: every good package has an object in *)
(* the map, every object in the map a package, and the list is the map.    *)
(* (With an overlap an installation can be lost from the map or an         *)
(* uninstalled extension stay in it, until the next load.)                 *)
RegistryConsistent ==
  exclusive /\ (\A m \in Managers : manager[m].pc = "idle") =>
    /\ crawlers = installed
    /\ \A e \in Extensions : /\ disk[e] = "good" => installed[e] # 0
                             /\ installed[e] # 0 => disk[e] # "none"
=============================================================================
