------------------------- MODULE SourceRateLimiter --------------------------
(***************************************************************************)
(* SourceRateLimiter.acquire: every download reserves the next free moment *)
(* of its source and waits for it.  The reservation is made under the      *)
(* source's mutex without suspending, hence one step; the wait is outside. *)
(*                                                                         *)
(* Time is counted in ticks and does not go backward (the code reads the   *)
(* wall clock).                                                            *)
(***************************************************************************)
EXTENDS Integers, FiniteSets

CONSTANTS
  Callers, Sources,
  SourceOf,      (* of each caller                                         *)
  HighPriority,  (* callers with isHighPriority                            *)
  Cooldown,      (* runnerCooldownMs of each source                        *)
  MaxJitter,     (* maxJitterMs                                            *)
  Horizon        (* bound: the last tick                                   *)

ASSUME CallersAssumption ==
  SourceOf \in [Callers -> Sources] /\ HighPriority \subseteq Callers
ASSUME TimesAssumption ==
  Cooldown \in [Sources -> Nat] /\ MaxJitter \in Nat /\ Horizon \in Nat

VARIABLES
  now,          (* the clock                                               *)
  nextAllowed,  (* the map nextAllowedTime; no entry counts as 0           *)
  caller        (* of each caller: where it is, and the moment it waits for *)

vars == <<now, nextAllowed, caller>>

Pc == {"idle", "waiting", "started"}

TypeOK ==
  /\ now \in 0..Horizon
  /\ nextAllowed \in [Sources -> Nat]
  /\ caller \in [Callers -> [pc : Pc, at : Nat]]

Init ==
  /\ now = 0
  /\ nextAllowed = [s \in Sources |-> 0]
  /\ caller = [c \in Callers |-> [pc |-> "idle", at |-> 0]]

later(a, b) == IF a > b THEN a ELSE b

(* cooldownMs <= 0: nothing to wait for, nothing to note.                  *)
Unlimited(c) ==
  /\ caller[c].pc = "idle"
  /\ Cooldown[SourceOf[c]] = 0
  /\ caller' = [caller EXCEPT ![c] = [pc |-> "started", at |-> now]]
  /\ UNCHANGED <<now, nextAllowed>>

(* Changed: the source's next moment lies one interval after the last one, *)
(* however long ago that was.                                              *)
ReserveFromLast(c) ==
  LET s == SourceOf[c]
  IN /\ caller[c].pc = "idle"
     /\ Cooldown[s] > 0 /\ c \notin HighPriority
     /\ \E jitter \in 0..MaxJitter :
          /\ nextAllowed' = [nextAllowed EXCEPT ![s] = @ + Cooldown[s] + jitter]
          /\ caller' = [caller EXCEPT ![c] =
                          [pc |-> "waiting", at |-> later(now, nextAllowed[s])]]
     /\ UNCHANGED now

(* Changed: the queue is forgotten.                                        *)
ReserveFromNow(c) ==
  LET s == SourceOf[c]
  IN /\ caller[c].pc = "idle"
     /\ Cooldown[s] > 0 /\ c \notin HighPriority
     /\ \E jitter \in 0..MaxJitter :
          nextAllowed' = [nextAllowed EXCEPT ![s] = now + Cooldown[s] + jitter]
     /\ caller' = [caller EXCEPT ![c] =
                     [pc |-> "waiting", at |-> later(now, nextAllowed[s])]]
     /\ UNCHANGED now

(* A background download queues behind those that reserved before it.      *)
Reserve(c) ==
  LET s             == SourceOf[c]
      earliestStart == later(now, nextAllowed[s])
  IN /\ caller[c].pc = "idle"
     /\ Cooldown[s] > 0 /\ c \notin HighPriority
     /\ \E jitter \in 0..MaxJitter :
          nextAllowed' = [nextAllowed EXCEPT ![s] =
                            earliestStart + Cooldown[s] + jitter]
     /\ caller' = [caller EXCEPT ![c] = [pc |-> "waiting", at |-> earliestStart]]
     /\ UNCHANGED now

(* Changed: the queue grows by one more interval.                          *)
JumpOnTop(c) ==
  LET s == SourceOf[c]
  IN /\ caller[c].pc = "idle"
     /\ Cooldown[s] > 0 /\ c \in HighPriority
     /\ nextAllowed' = [nextAllowed EXCEPT ![s] = later(now, @) + Cooldown[s]]
     /\ caller' = [caller EXCEPT ![c] = [pc |-> "started", at |-> now]]
     /\ UNCHANGED now

(* A high-priority one starts at once, and the queue is counted from it,   *)
(* whatever had been reserved.                                             *)
Jump(c) ==
  LET s == SourceOf[c]
  IN /\ caller[c].pc = "idle"
     /\ Cooldown[s] > 0 /\ c \in HighPriority
     /\ nextAllowed' = [nextAllowed EXCEPT ![s] = now + Cooldown[s]]
     /\ caller' = [caller EXCEPT ![c] = [pc |-> "started", at |-> now]]
     /\ UNCHANGED now

(* delay() ends, at its time or later.                                     *)
Resume(c) ==
  /\ caller[c].pc = "waiting"
  /\ now >= caller[c].at
  /\ caller' = [caller EXCEPT ![c].pc = "started"]
  /\ UNCHANGED <<now, nextAllowed>>

Tick ==
  /\ now < Horizon
  /\ now' = now + 1
  /\ UNCHANGED <<nextAllowed, caller>>

Next ==
  \/ Tick
  \/ \E c \in Callers : Unlimited(c) \/ Reserve(c) \/ Jump(c) \/ Resume(c)

Spec == Init /\ [][Next]_vars

-----------------------------------------------------------------------------
(* Properties                                                              *)

Served(s) == {c \in Callers : SourceOf[c] = s /\ caller[c].pc # "idle"}

(* No high-priority download has come for the source yet.                  *)
Undisturbed(s) ==
  \A c \in HighPriority : SourceOf[c] = s => caller[c].pc = "idle"

(* Two background downloads of a source are never scheduled closer together *)
(* than its cooldown ("source rate limiting"), until a high-priority one   *)
(* resets the source's next moment.                                        *)
Spaced ==
  \A s \in Sources : Undisturbed(s) =>
    \A c, d \in Served(s) :
      c # d => \/ caller[c].at + Cooldown[s] <= caller[d].at
               \/ caller[d].at + Cooldown[s] <= caller[c].at

(* With high-priority downloads between them: each opens one further lane,  *)
(* no more; within one cooldown a source sees at most one download, and    *)
(* one for each high-priority one there has been.                          *)
RateBounded ==
  \A s \in Sources : Cooldown[s] > 0 =>
    \A c \in Served(s) :
      LET near == {d \in Served(s) :
                     /\ caller[d].at >= caller[c].at
                     /\ caller[d].at <  caller[c].at + Cooldown[s]}
      IN Cardinality(near) <= 1 + Cardinality(Served(s) \cap HighPriority)

(* The backlog is no longer than the downloads that wait: an idle source   *)
(* pays nothing for its past, and no reservation reaches further into the  *)
(* future than one interval for each that waits, and one.                  *)
BacklogBounded ==
  \A s \in Sources :
    LET ahead == {c \in Served(s) : caller[c].at > now}
    IN nextAllowed[s] <=
         now + (Cardinality(ahead) + 1) * (Cooldown[s] + MaxJitter)
=============================================================================
