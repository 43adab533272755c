-------------------------- MODULE ExtensionRuntime --------------------------
(***************************************************************************)
(* Calls into the WebAssembly extensions, on top of the registry that says *)
(* which object serves an id: looking the crawler up, the mutex of the     *)
(* object, the steps of nativeCallString inside its instance, the one flag *)
(* in which challenges of all sources are noted, and the finalizer that    *)
(* destroys an instance.  Guests are strangers: each of their functions    *)
(* may answer, answer nothing or trap, and does return.                    *)
(*                                                                         *)
(* Of an instance the model keeps whether it is destroyed, whether an      *)
(* exception is set in it (nothing ever clears one, so every later call    *)
(* fails) and how many blocks of its heap the bridge has to give back, as  *)
(* long as the count means something: not after an exception, nor after    *)
(* getListings, which takes no mutex, ran beside another call.             *)
(***************************************************************************)
EXTENDS ExtensionRegistry

CONSTANTS
  Calls,           (* the coroutines that call extensions                  *)
  MaxCalls         (* bound: calls started                                 *)

ASSUME MaxCallsAssumption == MaxCalls \in Nat

VARIABLES
  destroyed,    (* objects whose instance nativeDestroy has freed          *)
  trapped,      (* objects whose instance has an exception set             *)
  blocks,       (* of each object: heap blocks the bridge must give back   *)
  holder,       (* of each object: the call that holds its mutex           *)
  flag,         (* lastCloudflareBlockedUrl # null                         *)
  call,         (* of each coroutine: its call, where it is                *)
  calls,        (* the bound's counter                                     *)
  raced         (* history: objects a listing entered beside another call  *)

runtime == <<destroyed, trapped, blocks, holder, flag, call, calls, raced>>
vars == <<registryVars, runtime>>

(* A call of a handler, of a screen, or getListings, which takes neither   *)
(* the mutex nor an argument.                                              *)
Kinds  == {"job", "screen", "listing"}
NoCall == "none"
ASSUME NoCallAssumption == NoCall \notin Calls

Ended  == {"idle", "failure"}
Inside == {"alloc", "run", "free", "copy"}
Pc     == Ended \cup Inside \cup {"lookup", "lock", "unlock", "read", "clear"}

(* arg: str_ptr # 0; text: there is an answer; saw: what consume read;     *)
(* history: the call met a challenge; another call cleared the flag since. *)
Call == [pc : Pc, kind : Kinds, ext : Extensions, object : {0} \cup Objects,
         arg : BOOLEAN, text : BOOLEAN, saw : BOOLEAN,
         challenged : BOOLEAN, stolen : BOOLEAN]

IdleCall == [pc |-> "idle", kind |-> "job", ext |-> AnyExtension, object |-> 0,
             arg |-> FALSE, text |-> FALSE, saw |-> FALSE,
             challenged |-> FALSE, stolen |-> FALSE]

TypeOK ==
  /\ RegistryTypeOK
  /\ destroyed \subseteq 1..made /\ trapped \subseteq 1..made
  /\ raced \subseteq 1..made
  /\ blocks \in [Objects -> Nat] /\ holder \in [Objects -> Calls \cup {NoCall}]
  /\ flag \in BOOLEAN /\ calls \in 0..MaxCalls
  /\ call \in [Calls -> Call]

Init ==
  /\ RegistryInit
  /\ destroyed = {} /\ trapped = {} /\ raced = {}
  /\ blocks = [o \in Objects |-> 0] /\ holder = [o \in Objects |-> NoCall]
  /\ flag = FALSE /\ calls = 0
  /\ call = [k \in Calls |-> IdleCall]

At(k, pc)     == call[k].pc = pc
SetCall(k, new) == call' = [call EXCEPT ![k] = new]
Go(k, pc)     == SetCall(k, [call[k] EXCEPT !.pc = pc])
EndCall(k, pc) == SetCall(k, [IdleCall EXCEPT !.pc = pc])

(* Where a call that failed goes: a handler catches and looks at the flag. *)
FailPc(k) == IF call[k].kind = "job" THEN "read" ELSE "failure"
Fail(k)   == IF call[k].kind = "job" THEN Go(k, "read") ELSE EndCall(k, "failure")

CallsIn(o) == {k \in Calls : call[k].object = o /\ call[k].pc \in Inside}

-----------------------------------------------------------------------------
(* The extension object, in Kotlin                                         *)

StartCall(k) ==
  /\ call[k].pc \in Ended /\ calls < MaxCalls
  /\ calls' = calls + 1
  /\ \E kind \in Kinds, e \in Extensions :
       SetCall(k, [IdleCall EXCEPT !.pc = "lookup", !.kind = kind, !.ext = e])
  /\ UNCHANGED <<destroyed, trapped, blocks, holder, flag, raced>>

(* A listing is inside at once; whoever is there then, shares the          *)
(* instance's one execution environment with it.                           *)
Enter(k, o) ==
  IF \E j \in CallsIn(o) : "listing" \in {call[k].kind, call[j].kind}
  THEN raced' = raced \cup {o} /\ blocks' = [blocks EXCEPT ![o] = 0]
  ELSE UNCHANGED <<raced, blocks>>

(* CrawlerFactory.getCrawler: none is a failure, and no challenge's.       *)
LookUp(k) ==
  /\ At(k, "lookup")
  /\ LET o == crawlers[call[k].ext]
     IN  IF o = 0
         THEN EndCall(k, "failure") /\ UNCHANGED <<raced, blocks>>
         ELSE IF call[k].kind = "listing"
         THEN SetCall(k, [call[k] EXCEPT !.pc = "run", !.object = o]) /\ Enter(k, o)
         ELSE SetCall(k, [call[k] EXCEPT !.pc = "lock", !.object = o])
              /\ UNCHANGED <<raced, blocks>>
  /\ UNCHANGED <<destroyed, trapped, holder, flag, calls>>

(* Changed: the mutex is not waited for.                                   *)
mutexFree(o) == TRUE

mutexIsFree(o) == holder[o] = NoCall

Lock(k) ==
  /\ At(k, "lock")
  /\ mutexIsFree(call[k].object)
  /\ holder' = [holder EXCEPT ![call[k].object] = k]
  /\ Go(k, "alloc")
  /\ Enter(k, call[k].object)
  /\ UNCHANGED <<destroyed, trapped, flag, calls>>

(* A job is cancelled while it waits; the exception is caught like others. *)
CancelWait(k) ==
  /\ At(k, "lock")
  /\ Fail(k)
  /\ UNCHANGED <<destroyed, trapped, blocks, holder, flag, calls, raced>>

-----------------------------------------------------------------------------
(* nativeCallString                                                        *)

Counted(o) == o \notin trapped \cup raced

Trap(o)  == trapped' = trapped \cup {o} /\ blocks' = [blocks EXCEPT ![o] = 0]
Add(o, n) == /\ blocks' = IF Counted(o) THEN [blocks EXCEPT ![o] = @ + n] ELSE blocks
             /\ UNCHANGED trapped

(* The guest's alloc, then the runtime's: a block, or NULL.  The first may *)
(* trap and the second still find a block.                                 *)
AllocArgument(k) ==
  LET o == call[k].object
  IN  /\ At(k, "alloc")
      /\ \/ /\ SetCall(k, [call[k] EXCEPT !.pc = "run", !.arg = TRUE])
            /\ Add(o, 1) \/ Trap(o)
         \/ Go(k, "unlock") /\ (Add(o, 0) \/ Trap(o))
      /\ UNCHANGED <<destroyed, holder, flag, calls, raced>>

(* host_http and WamrHttpBridge.execute: the site answers with a challenge.*)
MeetChallenge(k) ==
  /\ At(k, "run") /\ call[k].kind # "listing"
  /\ call[k].object \notin trapped /\ ~call[k].challenged
  /\ flag' = TRUE
  /\ SetCall(k, [call[k] EXCEPT !.challenged = TRUE])
  /\ UNCHANGED <<destroyed, trapped, blocks, holder, calls, raced>>

(* The function is not there or answers nothing; it traps, as it must when *)
(* an exception is already set; it answers with a block of its heap.       *)
GuestReturns(k) ==
  LET o == call[k].object
  IN  /\ At(k, "run")
      /\ \/ Go(k, "free") /\ (Add(o, 0) \/ Trap(o))
         \/ /\ o \notin trapped
            /\ SetCall(k, [call[k] EXCEPT !.pc = "free", !.text = TRUE])
            /\ Add(o, 1)
      /\ UNCHANGED <<destroyed, holder, flag, calls, raced>>

(* Giving a block back is a call of the guest's dealloc: it may trap, and  *)
(* does when an exception is set, and then the block stays taken.          *)
Dealloc(o) == Add(o, -1) \/ Trap(o)

(* Changed: the argument is freed only on the way to an answer.            *)
freeIfAnswered(k) ==
  /\ At(k, "free")
  /\ SetCall(k, [call[k] EXCEPT !.arg = FALSE,
                   !.pc = IF call[k].text THEN "copy" ELSE "unlock"])
  /\ IF call[k].arg /\ call[k].text THEN Dealloc(call[k].object)
                                    ELSE UNCHANGED <<blocks, trapped>>
  /\ UNCHANGED <<destroyed, holder, flag, calls, raced>>

FreeArgument(k) ==
  /\ At(k, "free")
  /\ SetCall(k, [call[k] EXCEPT !.arg = FALSE,
                   !.pc = IF call[k].text THEN "copy" ELSE "unlock"])
  /\ IF call[k].arg THEN Dealloc(call[k].object) ELSE UNCHANGED <<blocks, trapped>>
  /\ UNCHANGED <<destroyed, holder, flag, calls, raced>>

(* The answer becomes a Java string, or Java has no memory for it; the     *)
(* block is given back either way.                                         *)
CopyResult(k) ==
  /\ At(k, "copy")
  /\ \E text \in BOOLEAN :
       SetCall(k, [call[k] EXCEPT !.pc = "unlock", !.text = text])
  /\ Dealloc(call[k].object)
  /\ UNCHANGED <<destroyed, holder, flag, calls, raced>>

-----------------------------------------------------------------------------
(* Back in Kotlin                                                          *)

(* A text is the end of the call unless it cannot be parsed; without one   *)
(* it fails.                                                               *)
Unlock(k) ==
  LET o == call[k].object
  IN  /\ At(k, "unlock")
      /\ holder' = IF holder[o] = k THEN [holder EXCEPT ![o] = NoCall] ELSE holder
      /\ Fail(k) \/ (call[k].text /\ EndCall(k, "idle"))
      /\ UNCHANGED <<destroyed, trapped, blocks, flag, calls, raced>>

(* Changed: consumeCloudflareBlocked clears the flag and then reads it.    *)
readCleared(k) ==
  /\ At(k, "read")
  /\ SetCall(k, [call[k] EXCEPT !.pc = "clear", !.saw = FALSE, !.object = 0])
  /\ UNCHANGED <<destroyed, trapped, blocks, holder, flag, calls, raced>>

(* The two statements of consumeCloudflareBlocked.  A source that always   *)
(* needs a web view is blocked without them.                               *)
ReadFlag(k) ==
  /\ At(k, "read")
  /\ \/ EndCall(k, "idle")
     \/ SetCall(k, [call[k] EXCEPT !.pc = "clear", !.saw = flag, !.object = 0])
  /\ UNCHANGED <<destroyed, trapped, blocks, holder, flag, calls, raced>>

(* Blocked if the flag was set or the exception speaks of Cloudflare.      *)
ClearFlag(k) ==
  /\ At(k, "clear")
  /\ flag' = FALSE
  /\ \E pc \in IF call[k].saw THEN {"idle"} ELSE {"idle", "failure"} :
       call' = [j \in Calls |->
         IF j = k THEN [IdleCall EXCEPT !.pc = pc]
                  ELSE [call[j] EXCEPT !.stolen = call[j].challenged]]
  /\ UNCHANGED <<destroyed, trapped, blocks, holder, calls, raced>>

-----------------------------------------------------------------------------
(* finalize                                                                *)

Managed(o) == \/ \E e \in Extensions : installed[e] = o \/ crawlers[e] = o
              \/ \E m \in Managers : \/ manager[m].object = o
                                     \/ \E e \in Extensions : manager[m].map[e] = o

(* Changed: calls under way do not keep the object.                        *)
ManagedOnly(o) == Managed(o)

(* A call that will still use this keeps the object.  getListings does not *)
(* once it has read instPtr, so nothing promises that it does.             *)
Reachable(o) ==
  Managed(o) \/ \E k \in Calls : call[k].object = o /\ call[k].kind # "listing"

Finalize(o) ==
  /\ o <= made /\ o \notin destroyed /\ ~Reachable(o)
  /\ destroyed' = destroyed \cup {o}
  /\ UNCHANGED <<trapped, blocks, holder, flag, call, calls, raced>>

-----------------------------------------------------------------------------
CallStep(k) ==
  \/ LookUp(k) \/ Lock(k) \/ AllocArgument(k) \/ GuestReturns(k)
  \/ FreeArgument(k) \/ CopyResult(k) \/ Unlock(k) \/ ReadFlag(k) \/ ClearFlag(k)

Next ==
  \/ RegistryNext /\ UNCHANGED runtime
  \/ /\ \/ \E k \in Calls : StartCall(k) \/ CallStep(k) \/ CancelWait(k)
                            \/ MeetChallenge(k)
        \/ \E o \in Objects : Finalize(o)
     /\ UNCHANGED registryVars

Spec == Init /\ [][Next]_vars

-----------------------------------------------------------------------------
(* Of the calls that take the mutex, exactly the one inside an instance    *)
(* holds it: no two share an instance, and no way out leaves it held.      *)
MutexKept ==
  \A o \in Objects, k \in Calls :
    holder[o] = k <=> /\ call[k].object = o /\ call[k].kind # "listing"
                      /\ call[k].pc \in Inside \cup {"unlock"}

(* No instance that the registry offers, or that a call waits for or is    *)
(* inside, has been destroyed - however often the extension was replaced   *)
(* meanwhile - except under a listing, which holds only the bare pointer.  *)
UsedAlive ==
  /\ \A e \in Extensions : {installed[e], crawlers[e]} \cap destroyed = {}
  /\ \A k \in Calls : call[k].pc \in Inside \cup {"lock"} /\ call[k].kind # "listing"
                      => call[k].object \notin destroyed

(* The bridge gives back every block it takes, on every way out: what is   *)
(* taken is what the calls inside hold, so an idle instance holds nothing. *)
Held(k) == (IF call[k].arg THEN 1 ELSE 0)
           + (IF call[k].text /\ call[k].pc \in Inside THEN 1 ELSE 0)
HeapBalanced ==
  \A o \in Objects : Counted(o) =>
    /\ CallsIn(o) = {} => blocks[o] = 0
    /\ \A k \in CallsIn(o) : CallsIn(o) = {k} => blocks[o] = Held(k)

(* A job that met a challenge is blocked, and not failed for good, unless  *)
(* another job's look at the flag took the challenge for its own.          *)
OwnChallengeBlocks ==
  [][\A k \in Calls : At(k, "clear") /\ call'[k].pc = "failure"
       => ~call[k].challenged \/ call[k].stolen]_vars

(* With no overlap of management operations since the last load, a job     *)
(* finds no crawler for an installed extension only while the one          *)
(* operation under way has still to bring the crawlers up to date.         *)
NotFoundJustified ==
  [][\A k \in Calls :
       /\ At(k, "lookup") /\ call'[k].pc = "failure"
       /\ exclusive /\ installed[call[k].ext] # 0
       => \E m \in Managers :
            manager[m].pc \in {"list", "loadEach", "sync", "clear", "add"}]_vars
=============================================================================
