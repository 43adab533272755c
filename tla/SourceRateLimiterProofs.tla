---------------------- MODULE SourceRateLimiterProofs -----------------------
(***************************************************************************)
(* The spacing of the downloads of a source, for any sources, cooldowns,   *)
(* jitter and number of downloads.  Spaced alone is not inductive: what    *)
(* makes the next reservation keep its distance is that nextAllowedTime    *)
(* lies one cooldown beyond every reservation made (Ahead).  The reset by  *)
(* a high-priority download breaks Ahead, so all is claimed only of the    *)
(* sources that have not seen one.                                         *)
(*                                                                         *)
(* With high-priority downloads, each opens a lane of its own, and the     *)
(* spacing holds within each lane (InLanes): of the downloads that one     *)
(* cooldown sees no two share a lane.  The backlog is bounded at every     *)
(* later moment as well (Bounded), or time could not go on.                *)
(***************************************************************************)
EXTENDS SourceRateLimiter, FiniteSetTheorems, TLAPS

Ahead ==
  \A c \in Callers :
    /\ caller[c].pc # "idle" /\ Cooldown[SourceOf[c]] > 0
    /\ Undisturbed(SourceOf[c])
    => caller[c].at + Cooldown[SourceOf[c]] <= nextAllowed[SourceOf[c]]

(* Spaced, caller by caller.                                               *)
Apart(c, d) ==
  \/ caller[c].at + Cooldown[SourceOf[c]] <= caller[d].at
  \/ caller[d].at + Cooldown[SourceOf[c]] <= caller[c].at

PairsSpaced ==
  \A c, d \in Callers :
    /\ c # d /\ SourceOf[c] = SourceOf[d]
    /\ caller[c].pc # "idle" /\ caller[d].pc # "idle"
    /\ Undisturbed(SourceOf[c])
    => Apart(c, d)

LimiterInv == TypeOK /\ Ahead /\ PairsSpaced

(* The clock, the map and the callers' records keep their types.           *)
LEMMA LimiterTypes == TypeOK /\ [Next]_vars => TypeOK'
<1> SUFFICES ASSUME TypeOK, [Next]_vars PROVE TypeOK'
  OBVIOUS
<1> USE CallersAssumption, TimesAssumption DEF TypeOK
<1>1. \A s \in Sources : Cooldown[s] \in Nat /\ nextAllowed[s] \in Nat
  OBVIOUS
<1>2. ASSUME NEW c \in Callers, Unlimited(c) PROVE TypeOK'
  BY <1>2 DEF Unlimited, Pc
<1>3. ASSUME NEW c \in Callers, Reserve(c) PROVE TypeOK'
  <2> DEFINE s == SourceOf[c]
             start == later(now, nextAllowed[s])
  <2>1. s \in Sources /\ start \in Nat
    BY <1>1 DEF later
  <2>2. PICK jitter \in 0..MaxJitter :
          nextAllowed' = [nextAllowed EXCEPT ![s] = start + Cooldown[s] + jitter]
    BY <1>3 DEF Reserve
  <2>3. start + Cooldown[s] + jitter \in Nat
    BY <1>1, <2>1
  <2>4. caller' = [caller EXCEPT ![c] = [pc |-> "waiting", at |-> start]]
    BY <1>3 DEF Reserve
  <2>5. UNCHANGED now
    BY <1>3 DEF Reserve
  <2> HIDE DEF s, start
  <2> QED
    BY <2>1, <2>2, <2>3, <2>4, <2>5 DEF Pc
<1>4. ASSUME NEW c \in Callers, Jump(c) PROVE TypeOK'
  BY <1>1, <1>4 DEF Jump, Pc
<1>5. ASSUME NEW c \in Callers, Resume(c) PROVE TypeOK'
  BY <1>5 DEF Resume, Pc
<1>6. CASE Tick
  BY <1>6 DEF Tick
<1>7. CASE UNCHANGED vars
  BY <1>7 DEF vars
<1> QED
  BY <1>2, <1>3, <1>4, <1>5, <1>6, <1>7 DEF Next

(* A source that is undisturbed after a step was so before it.             *)
LEMMA UndisturbedBefore ==
  ASSUME TypeOK, [Next]_vars, NEW s \in Sources, Undisturbed(s)'
  PROVE  Undisturbed(s)
<1> USE CallersAssumption DEF TypeOK
<1>1. SUFFICES ASSUME NEW c \in HighPriority, SourceOf[c] = s, caller[c].pc # "idle"
               PROVE  caller'[c].pc # "idle"
  BY DEF Undisturbed
<1>2. c \in Callers
  OBVIOUS
<1>3. ASSUME NEW d \in Callers, Unlimited(d) \/ Reserve(d) \/ Jump(d) \/ Resume(d)
      PROVE  caller'[c].pc # "idle"
  <2>1. CASE d = c
    BY <1>1, <1>2, <1>3, <2>1 DEF Unlimited, Reserve, Jump, Resume
  <2>2. CASE d # c
    <3>1. caller'[c] = caller[c]
      BY <1>2, <1>3, <2>2 DEF Unlimited, Reserve, Jump, Resume
    <3> QED
      BY <1>1, <3>1
  <2> QED
    BY <2>1, <2>2
<1>4. CASE Tick \/ UNCHANGED vars
  BY <1>1, <1>4 DEF Tick, vars
<1> QED
  BY <1>3, <1>4 DEF Next

(* A caller whose reservation is made, or answered at once.                *)
LEMMA Reserved ==
  ASSUME LimiterInv, NEW c \in Callers, Unlimited(c) \/ Reserve(c)
  PROVE  Ahead' /\ PairsSpaced'
<1> USE CallersAssumption, TimesAssumption DEF LimiterInv, TypeOK
<1> DEFINE s == SourceOf[c]
<1>0. \A x \in Sources : Undisturbed(x)' => Undisturbed(x)
  BY UndisturbedBefore DEF Next
<1>1. /\ s \in Sources /\ Cooldown[s] \in Nat /\ nextAllowed[s] \in Nat
      /\ \A d \in Callers : caller[d].at \in Nat /\ Cooldown[SourceOf[d]] \in Nat
  OBVIOUS
<1>2. CASE Unlimited(c)
  <2>1. /\ caller'[c] = [pc |-> "started", at |-> now]
        /\ \A d \in Callers : d # c => caller'[d] = caller[d]
        /\ nextAllowed' = nextAllowed /\ Cooldown[s] = 0
    BY <1>2 DEF Unlimited
  <2>2. Ahead'
    BY <1>0, <2>1 DEF Ahead
  <2>3. PairsSpaced'
    BY <1>0, <1>1, <2>1 DEF PairsSpaced, Apart
  <2> QED
    BY <2>2, <2>3
<1>3. CASE Reserve(c)
  <2> DEFINE start == later(now, nextAllowed[s])
  <2>1. PICK jitter \in 0..MaxJitter :
          nextAllowed' = [nextAllowed EXCEPT ![s] = start + Cooldown[s] + jitter]
    BY <1>3 DEF Reserve
  <2>2. /\ caller'[c] = [pc |-> "waiting", at |-> start]
        /\ \A d \in Callers : d # c => caller'[d] = caller[d]
        /\ Cooldown[s] > 0 /\ caller[c].pc = "idle"
    BY <1>3 DEF Reserve
  <2>3. start \in Nat /\ start >= nextAllowed[s]
    BY <1>1 DEF later
  <2> HIDE DEF start
  <2>4. /\ nextAllowed'[s] >= start + Cooldown[s]
        /\ nextAllowed'[s] >= nextAllowed[s]
        /\ \A x \in Sources : x # s => nextAllowed'[x] = nextAllowed[x]
    BY <1>1, <2>1, <2>3
  <2>5. Ahead'
    <3> SUFFICES ASSUME NEW d \in Callers,
                        caller'[d].pc # "idle", Cooldown[SourceOf[d]] > 0,
                        Undisturbed(SourceOf[d])
                 PROVE  caller'[d].at + Cooldown[SourceOf[d]]
                          <= nextAllowed'[SourceOf[d]]
      BY <1>0 DEF Ahead
    <3>1. CASE d = c
      BY <3>1, <2>2, <2>4
    <3>2. CASE d # c
      <4>1. caller[d].at + Cooldown[SourceOf[d]] <= nextAllowed[SourceOf[d]]
        BY <3>2, <2>2 DEF Ahead
      <4>2. nextAllowed'[SourceOf[d]] \in Nat
        BY <1>1, <2>1, <2>3
      <4> QED
        BY <1>1, <2>2, <2>4, <3>2, <4>1, <4>2
    <3> QED
      BY <3>1, <3>2
  <2>6. PairsSpaced'
    <3>1. ASSUME NEW d \in Callers, d # c, SourceOf[d] = s, caller[d].pc # "idle",
                 Undisturbed(s)
          PROVE  caller[d].at + Cooldown[s] <= start
      BY <1>1, <2>2, <2>3, <3>1 DEF Ahead
    <3> QED
      BY <1>0, <2>2, <3>1 DEF PairsSpaced, Apart
  <2> QED
    BY <2>5, <2>6
<1> QED
  BY <1>2, <1>3

(* A high-priority caller: only the other sources are still undisturbed.   *)
LEMMA Jumped ==
  ASSUME LimiterInv, NEW c \in Callers, Jump(c)
  PROVE  Ahead' /\ PairsSpaced'
<1> USE CallersAssumption DEF LimiterInv, TypeOK
<1>1. \A x \in Sources : Undisturbed(x)' => Undisturbed(x)
  BY UndisturbedBefore DEF Next
<1>2. /\ c \in HighPriority /\ caller'[c].pc = "started"
      /\ \A d \in Callers : d # c => caller'[d] = caller[d]
      /\ \A x \in Sources : x # SourceOf[c] => nextAllowed'[x] = nextAllowed[x]
  BY DEF Jump
<1>3. ~Undisturbed(SourceOf[c])'
  BY <1>2 DEF Undisturbed
<1>4. Ahead'
  <2> SUFFICES ASSUME NEW d \in Callers, caller'[d].pc # "idle",
                      Cooldown[SourceOf[d]] > 0, Undisturbed(SourceOf[d])'
               PROVE  caller'[d].at + Cooldown[SourceOf[d]]
                        <= nextAllowed'[SourceOf[d]]
    BY DEF Ahead
  <2>1. SourceOf[d] # SourceOf[c] /\ d # c
    BY <1>3
  <2> QED
    BY <1>1, <1>2, <2>1 DEF Ahead
<1>5. PairsSpaced'
  <2> SUFFICES ASSUME NEW d \in Callers, NEW e \in Callers,
                      d # e, SourceOf[d] = SourceOf[e],
                      caller'[d].pc # "idle", caller'[e].pc # "idle",
                      Undisturbed(SourceOf[d])'
               PROVE  Apart(d, e)'
    BY DEF PairsSpaced
  <2>1. d # c /\ e # c
    BY <1>3
  <2> QED
    BY <1>1, <1>2, <2>1 DEF PairsSpaced, Apart
<1> QED
  BY <1>4, <1>5

(* A source's reservations keep their distance until a high-priority       *)
(* download comes: SourceRateLimiter.acquire spaces them by the cooldown   *)
(* at least, however many ask, in whichever order, with whatever jitter.   *)
THEOREM ReservationsSpaced == Spec => []Spaced
<1>1. Init => LimiterInv
  BY CallersAssumption, TimesAssumption
  DEF Init, LimiterInv, TypeOK, Ahead, PairsSpaced, Pc
<1>2. ASSUME LimiterInv, [Next]_vars PROVE LimiterInv'
  <2>1. TypeOK'
    BY <1>2, LimiterTypes DEF LimiterInv
  <2>2. ASSUME NEW c \in Callers, Unlimited(c) \/ Reserve(c)
        PROVE  Ahead' /\ PairsSpaced'
    BY <1>2, <2>2, Reserved
  <2>3. ASSUME NEW c \in Callers, Resume(c) PROVE Ahead' /\ PairsSpaced'
    <3>1. /\ \A d \in Callers : /\ caller'[d].at = caller[d].at
                                /\ caller'[d].pc # "idle" <=> caller[d].pc # "idle"
          /\ nextAllowed' = nextAllowed
      BY <1>2, <2>3 DEF Resume, LimiterInv, TypeOK
    <3>2. \A x \in Sources : Undisturbed(x)' => Undisturbed(x)
      BY <1>2, UndisturbedBefore DEF LimiterInv
    <3>3. \A d \in Callers : SourceOf[d] \in Sources
      BY CallersAssumption
    <3> QED
      BY <1>2, <3>1, <3>2, <3>3 DEF LimiterInv, Ahead, PairsSpaced, Apart
  <2>4. CASE Tick \/ UNCHANGED vars
    BY <1>2, <2>1, <2>4 DEF Tick, vars, LimiterInv, Ahead, PairsSpaced, Apart, Undisturbed
  <2>5. ASSUME NEW c \in Callers, Jump(c) PROVE Ahead' /\ PairsSpaced'
    BY <1>2, <2>5, Jumped
  <2> QED
    BY <1>2, <2>1, <2>2, <2>3, <2>4, <2>5 DEF Next, LimiterInv
<1>3. LimiterInv => Spaced
  BY CallersAssumption DEF LimiterInv, PairsSpaced, Apart, Spaced, Served
<1> QED
  BY <1>1, <1>2, <1>3, PTL DEF Spec

-----------------------------------------------------------------------------
(* Lanes: who is in one is there since the same high-priority download, or *)
(* since the beginning; last is the lane the next background download      *)
(* joins.                                                                  *)
NoHead == CHOOSE h : h \notin HighPriority
AllHeads == HighPriority \cup {NoHead}
Heads(s) == {NoHead} \cup (HighPriority \cap Served(s))

LanesFit(s, lane, last) ==
  /\ \A c \in Served(s) : lane[c] \in Heads(s)
  /\ last \in Heads(s)
  /\ \A c \in Served(s) : lane[c] = last => caller[c].at + Cooldown[s] <= nextAllowed[s]
  /\ \A c, d \in Served(s) : c # d /\ lane[c] = lane[d] => Apart(c, d)

InLanes ==
  \A s \in Sources : Cooldown[s] > 0 =>
    \E lane \in [Callers -> AllHeads], last \in AllHeads : LanesFit(s, lane, last)

(* What the queue holds at a moment, now or later.                         *)
Waiting(s, time) == {c \in Served(s) : caller[c].at > time}
Longest(s) == Cooldown[s] + MaxJitter

Bounded ==
  \A s \in Sources, time \in Nat : time >= now =>
    nextAllowed[s] <= time + (Cardinality(Waiting(s, time)) + 1) * Longest(s)

FiniteServed == \A s \in Sources : IsFiniteSet(Served(s))

RateInv == TypeOK /\ FiniteServed /\ InLanes /\ Bounded

(* Those of a source that wait are finitely many.                          *)
LEMMA WaitingFinite ==
  ASSUME FiniteServed, NEW s \in Sources, NEW time
  PROVE  IsFiniteSet(Waiting(s, time)) /\ Cardinality(Waiting(s, time)) \in Nat
<1>1. Waiting(s, time) \in SUBSET Served(s)
  BY DEF Waiting
<1> QED
  BY <1>1, FS_Subset, FS_CardinalityType DEF FiniteServed

(* The first lane is headed by no caller.                                  *)
LEMMA HeadIsNew == NoHead \notin HighPriority
BY NoSetContainsEverything DEF NoHead

(* A step that adds no caller to a source, and moves none of its times.    *)
LEMMA SourceStays ==
  ASSUME RateInv, NEW s \in Sources, Served(s)' = Served(s),
         nextAllowed'[s] = nextAllowed[s],
         \A c \in Served(s) : caller'[c].at = caller[c].at,
         now' \in Nat, now' >= now
  PROVE  /\ IsFiniteSet(Served(s)')
         /\ \A lane, last : LanesFit(s, lane, last) => LanesFit(s, lane, last)'
         /\ \A time \in Nat : time >= now' =>
              nextAllowed'[s] <= time + (Cardinality(Waiting(s, time)') + 1) * Longest(s)
<1>1. IsFiniteSet(Served(s)')
  BY DEF RateInv, FiniteServed
<1>2. Heads(s)' = Heads(s)
  BY DEF Heads
<1>3. ASSUME NEW lane, NEW last, LanesFit(s, lane, last) PROVE LanesFit(s, lane, last)'
  <2>1. \A c \in Served(s) : SourceOf[c] = s
    BY DEF Served
  <2>2. \A c, d \in Served(s) : Apart(c, d)' <=> Apart(c, d)
    BY <2>1 DEF Apart
  <2> QED
    BY <1>2, <1>3, <2>2 DEF LanesFit
<1>4. \A time : Waiting(s, time)' = Waiting(s, time)
  BY DEF Waiting
<1>5. ASSUME NEW time \in Nat, time >= now'
      PROVE  nextAllowed'[s] <= time + (Cardinality(Waiting(s, time)') + 1) * Longest(s)
  <2>1. time >= now
    BY <1>5, TimesAssumption DEF RateInv, TypeOK
  <2> QED
    BY <1>4, <2>1 DEF RateInv, Bounded
<1> QED
  BY <1>1, <1>3, <1>5

(* A step that leaves every source as it is.                               *)
LEMMA AllStay ==
  ASSUME RateInv, TypeOK', now' >= now, nextAllowed' = nextAllowed,
         \A c \in Callers : /\ caller'[c].at = caller[c].at
                            /\ caller'[c].pc # "idle" <=> caller[c].pc # "idle"
  PROVE  RateInv'
<1>1. \A s \in Sources : Served(s)' = Served(s)
  BY DEF Served
<1>2. \A s \in Sources : \A c \in Served(s) : caller'[c].at = caller[c].at
  BY DEF Served
<1>3. now' \in Nat
  BY TimesAssumption DEF TypeOK
<1>4. FiniteServed'
  BY <1>1 DEF RateInv, FiniteServed
<1>5. InLanes'
  <2> SUFFICES ASSUME NEW s \in Sources, Cooldown[s] > 0
               PROVE  \E lane \in [Callers -> AllHeads], last \in AllHeads :
                        LanesFit(s, lane, last)'
    BY DEF InLanes
  <2>1. PICK lane \in [Callers -> AllHeads], last \in AllHeads : LanesFit(s, lane, last)
    BY DEF RateInv, InLanes
  <2> QED
    BY <1>1, <1>2, <1>3, <2>1, SourceStays
<1>6. Bounded'
  BY <1>1, <1>2, <1>3, SourceStays DEF Bounded, Longest
<1> QED
  BY <1>4, <1>5, <1>6 DEF RateInv

(* A caller joins those its source has served: what is left to prove       *)
(* concerns its own source.                                                *)
LEMMA Joins ==
  ASSUME RateInv, TypeOK', NEW c \in Callers, NEW s \in Sources, s = SourceOf[c],
         NEW at \in Nat, caller[c].pc = "idle",
         caller'[c].pc # "idle", caller'[c].at = at,
         \A d \in Callers : d # c => caller'[d] = caller[d],
         \A x \in Sources : x # s => nextAllowed'[x] = nextAllowed[x],
         UNCHANGED now,
         Cooldown[s] > 0 =>
           \E lane \in [Callers -> AllHeads], last \in AllHeads : LanesFit(s, lane, last)',
         \A time \in Nat : time >= now =>
           nextAllowed'[s] <= time + (Cardinality(Waiting(s, time)') + 1) * Longest(s)
  PROVE  RateInv'
<1>1. \A x \in Sources : x # s => Served(x)' = Served(x)
  BY DEF Served
<1>2. \A x \in Sources : x # s => \A d \in Served(x) : caller'[d].at = caller[d].at
  BY DEF Served
<1>3. now' \in Nat /\ now' >= now
  BY TimesAssumption DEF RateInv, TypeOK
<1>4. FiniteServed'
  <2>1. Served(s)' = Served(s) \cup {c}
    BY DEF Served
  <2>2. IsFiniteSet(Served(s)')
    BY <2>1, FS_AddElement DEF RateInv, FiniteServed
  <2> QED
    BY <1>1, <2>2 DEF RateInv, FiniteServed
<1>5. InLanes'
  <2> SUFFICES ASSUME NEW x \in Sources, Cooldown[x] > 0, x # s
               PROVE  \E lane \in [Callers -> AllHeads], last \in AllHeads :
                        LanesFit(x, lane, last)'
    BY DEF InLanes
  <2>1. PICK lane \in [Callers -> AllHeads], last \in AllHeads : LanesFit(x, lane, last)
    BY DEF RateInv, InLanes
  <2> QED
    BY <1>1, <1>2, <1>3, <2>1, SourceStays
<1>6. Bounded'
  <2> SUFFICES ASSUME NEW x \in Sources, NEW time \in Nat, time >= now
               PROVE  nextAllowed'[x] <= time + (Cardinality(Waiting(x, time)') + 1) * Longest(x)
    BY DEF Bounded, Longest
  <2>1. CASE x = s
    BY <2>1
  <2>2. CASE x # s
    BY <1>1, <1>2, <1>3, <2>2, SourceStays
  <2> QED
    BY <2>1, <2>2
<1> QED
  BY <1>4, <1>5, <1>6 DEF RateInv

(* What a caller that joins changes of its source.                         *)
LEMMA JoinsServed ==
  ASSUME NEW c \in Callers, NEW s \in Sources, s = SourceOf[c],
         caller[c].pc = "idle", caller'[c].pc # "idle",
         \A d \in Callers : d # c => caller'[d] = caller[d]
  PROVE  /\ Served(s)' = Served(s) \cup {c} /\ c \notin Served(s)
         /\ \A d \in Served(s) : d \in Callers /\ d # c /\ caller'[d] = caller[d]
         /\ \A d \in Served(s)' : SourceOf[d] = s
         /\ \A time : Waiting(s, time)'
              = Waiting(s, time) \cup (IF caller'[c].at > time THEN {c} ELSE {})
         /\ Heads(s)' = Heads(s) \cup (HighPriority \cap {c})
<1>1. /\ Served(s)' = Served(s) \cup {c} /\ c \notin Served(s)
      /\ \A d \in Served(s) : d \in Callers /\ d # c /\ caller'[d] = caller[d]
      /\ \A d \in Served(s)' : SourceOf[d] = s
  BY DEF Served
<1>2. Heads(s)' = Heads(s) \cup (HighPriority \cap {c})
  BY <1>1 DEF Heads
<1>3. \A time : Waiting(s, time)'
        = Waiting(s, time) \cup (IF caller'[c].at > time THEN {c} ELSE {})
  BY <1>1 DEF Waiting
<1> QED
  BY <1>1, <1>2, <1>3

(* Counting intervals.                                                     *)
LEMMA MoreIntervals ==
  ASSUME NEW n \in Nat, NEW w \in Nat
  PROVE  w <= (n + 1) * w /\ (n + 2) * w = (n + 1) * w + w
BY SMT

(* A download of a source without a cooldown starts at once: the source    *)
(* has no lanes to keep, and nobody comes to wait.                         *)
LEMMA UnlimitedRate ==
  ASSUME RateInv, TypeOK', NEW c \in Callers, Unlimited(c)
  PROVE  RateInv'
<1> PICK s \in Sources : s = SourceOf[c]
  BY CallersAssumption
<1>1. /\ caller[c].pc = "idle" /\ caller'[c].pc # "idle" /\ caller'[c].at = now
      /\ \A d \in Callers : d # c => caller'[d] = caller[d]
      /\ UNCHANGED <<now, nextAllowed>> /\ Cooldown[s] = 0 /\ now \in Nat
  BY TimesAssumption DEF Unlimited, RateInv, TypeOK
<1>2. ASSUME NEW time \in Nat, time >= now
      PROVE  nextAllowed'[s] <= time + (Cardinality(Waiting(s, time)') + 1) * Longest(s)
  <2>1. Waiting(s, time)'
          = Waiting(s, time) \cup (IF caller'[c].at > time THEN {c} ELSE {})
    BY <1>1, JoinsServed
  <2>2. ~(caller'[c].at > time)
    BY <1>1, <1>2
  <2>3. Waiting(s, time)' = Waiting(s, time)
    BY <2>1, <2>2
  <2> QED
    BY <1>1, <1>2, <2>3 DEF RateInv, Bounded
<1> QED
  BY <1>1, <1>2, Joins

(* A background download joins the last lane, behind everyone in it, and   *)
(* reserves one interval.                                                  *)
LEMMA ReserveRate ==
  ASSUME RateInv, TypeOK', NEW c \in Callers, Reserve(c)
  PROVE  RateInv'
<1> PICK s \in Sources : s = SourceOf[c]
  BY CallersAssumption
<1> PICK start : start = later(now, nextAllowed[s])
  OBVIOUS
<1>1. /\ caller[c].pc = "idle" /\ caller'[c].pc # "idle" /\ caller'[c].at = start
      /\ \A d \in Callers : d # c => caller'[d] = caller[d]
      /\ UNCHANGED now /\ Cooldown[s] > 0 /\ c \notin HighPriority
  BY DEF Reserve, RateInv, TypeOK
<1>2. PICK jitter \in 0..MaxJitter :
        nextAllowed' = [nextAllowed EXCEPT ![s] = start + Cooldown[s] + jitter]
  BY DEF Reserve
<1>3. /\ now \in Nat /\ nextAllowed[s] \in Nat /\ Cooldown[s] \in Nat /\ jitter \in Nat
      /\ MaxJitter \in Nat /\ jitter <= MaxJitter
      /\ \A d \in Callers : caller[d].at \in Nat
  BY TimesAssumption DEF RateInv, TypeOK
<1>4. start \in Nat /\ start >= nextAllowed[s] /\ start >= now
      /\ start \in {now, nextAllowed[s]}
  BY <1>3 DEF later
<1>5. /\ nextAllowed'[s] = start + Cooldown[s] + jitter
      /\ \A x \in Sources : x # s => nextAllowed'[x] = nextAllowed[x]
  BY <1>2 DEF RateInv, TypeOK
<1>6. /\ Served(s)' = Served(s) \cup {c} /\ c \notin Served(s)
      /\ \A d \in Served(s) : d \in Callers /\ d # c /\ caller'[d] = caller[d]
      /\ \A d \in Served(s)' : SourceOf[d] = s
      /\ Heads(s)' = Heads(s)
      /\ \A time : Waiting(s, time)'
           = Waiting(s, time) \cup (IF start > time THEN {c} ELSE {})
  <2>1. /\ Served(s)' = Served(s) \cup {c} /\ c \notin Served(s)
        /\ \A d \in Served(s) : d \in Callers /\ d # c /\ caller'[d] = caller[d]
        /\ \A d \in Served(s)' : SourceOf[d] = s
    BY <1>1, JoinsServed
  <2>2. Heads(s)' = Heads(s)
    <3>1. Heads(s)' = Heads(s) \cup (HighPriority \cap {c})
      BY <1>1, JoinsServed
    <3> QED
      BY <1>1, <3>1
  <2>3. \A time : Waiting(s, time)'
          = Waiting(s, time) \cup (IF caller'[c].at > time THEN {c} ELSE {})
    BY <1>1, JoinsServed
  <2>4. caller'[c].at = start
    BY <1>1
  <2> QED
    BY <2>1, <2>2, <2>3, <2>4
<1>7. \E lane \in [Callers -> AllHeads], last \in AllHeads : LanesFit(s, lane, last)'
  <2>1. PICK lane \in [Callers -> AllHeads], last \in AllHeads : LanesFit(s, lane, last)
    BY <1>1 DEF RateInv, InLanes
  <2>2. last \in AllHeads /\ last \in Heads(s)'
    BY <1>6, <2>1 DEF LanesFit, Heads, AllHeads
  <2>3. PICK new \in [Callers -> AllHeads] :
          new[c] = last /\ \A d \in Callers : d # c => new[d] = lane[d]
    <3>1. /\ [lane EXCEPT ![c] = last] \in [Callers -> AllHeads]
          /\ [lane EXCEPT ![c] = last][c] = last
          /\ \A d \in Callers : d # c => [lane EXCEPT ![c] = last][d] = lane[d]
      BY <2>1, <2>2
    <3> QED
      BY <3>1
  <2>4. \A d \in Served(s) : new[d] = lane[d] /\ caller'[d].at = caller[d].at
    BY <1>6, <2>3
  <2>5. \A d \in Served(s)' : new[d] \in Heads(s)'
    BY <1>6, <2>1, <2>2, <2>3, <2>4 DEF LanesFit
  <2>6. ASSUME NEW d \in Served(s)', new[d] = last
        PROVE  caller'[d].at + Cooldown[s] <= nextAllowed'[s]
    <3>1. CASE d = c
      BY <1>1, <1>3, <1>4, <1>5, <3>1
    <3>2. CASE d # c
      <4>1. caller[d].at + Cooldown[s] <= nextAllowed[s]
        BY <1>6, <2>1, <2>4, <2>6, <3>2 DEF LanesFit
      <4>2. caller[d].at \in Nat
        BY <1>3, <1>6, <3>2
      <4>3. caller'[d].at = caller[d].at
        BY <1>6, <2>4, <3>2
      <4> QED
        BY <1>3, <1>4, <1>5, <4>1, <4>2, <4>3
    <3> QED
      BY <3>1, <3>2
  <2>7. ASSUME NEW d \in Served(s), new[d] = last
        PROVE  caller'[d].at + Cooldown[s] <= start
    <3>1. caller[d].at + Cooldown[s] <= nextAllowed[s]
      BY <2>1, <2>4, <2>7 DEF LanesFit
    <3>2. caller[d].at \in Nat
      BY <1>3, <1>6
    <3> QED
      BY <1>3, <1>4, <2>4, <3>1, <3>2
  <2>8. ASSUME NEW d \in Served(s)', NEW e \in Served(s)', d # e, new[d] = new[e]
        PROVE  Apart(d, e)'
    <3>1. CASE d = c
      BY <1>1, <1>6, <2>3, <2>7, <2>8, <3>1 DEF Apart
    <3>2. CASE e = c
      BY <1>1, <1>6, <2>3, <2>7, <2>8, <3>2 DEF Apart
    <3>3. CASE d # c /\ e # c
      <4>1. Apart(d, e)
        BY <1>6, <2>1, <2>4, <2>8, <3>3 DEF LanesFit
      <4> QED
        BY <1>6, <2>4, <3>3, <4>1 DEF Apart
    <3> QED
      BY <3>1, <3>2, <3>3
  <2>9. LanesFit(s, new, last)'
    BY <2>2, <2>5, <2>6, <2>8 DEF LanesFit
  <2> QED
    BY <2>9
<1>8. ASSUME NEW time \in Nat, time >= now
      PROVE  nextAllowed'[s] <= time + (Cardinality(Waiting(s, time)') + 1) * Longest(s)
  <2>1. PICK w \in Nat : w = Longest(s)
    BY <1>3 DEF Longest
  <2>2. nextAllowed'[s] <= start + w
    BY <1>3, <1>4, <1>5, <2>1 DEF Longest
  <2>3. IsFiniteSet(Waiting(s, time)) /\ Cardinality(Waiting(s, time)) \in Nat
    BY WaitingFinite DEF RateInv
  <2>4. PICK n \in Nat : n = Cardinality(Waiting(s, time))
    BY <2>3
  <2>5. nextAllowed[s] <= time + (n + 1) * w
    BY <1>8, <2>1, <2>4 DEF RateInv, Bounded
  <2>6. CASE start > time
    <3>1. Waiting(s, time)' = Waiting(s, time) \cup {c} /\ c \notin Waiting(s, time)
      BY <1>6, <2>6 DEF Waiting
    <3>2. Cardinality(Waiting(s, time)') = n + 1
      BY <2>3, <2>4, <3>1, FS_AddElement
    <3>3. start = nextAllowed[s]
      BY <1>3, <1>4, <1>8, <2>6
    <3>4. (n + 2) * w = (n + 1) * w + w
      BY MoreIntervals
    <3>5. PICK k \in Nat : k = (n + 1) * w
      OBVIOUS
    <3>6. nextAllowed'[s] <= time + (k + w)
      BY <1>3, <1>5, <2>2, <2>5, <3>3, <3>5, <1>4
    <3>7. (n + 1) + 1 = n + 2
      OBVIOUS
    <3> QED
      BY <2>1, <3>2, <3>4, <3>5, <3>6, <3>7
  <2>7. CASE ~(start > time)
    <3>1. Waiting(s, time)' = Waiting(s, time)
      BY <1>6, <2>7
    <3>2. PICK k \in Nat : k = (n + 1) * w /\ w <= k
      BY MoreIntervals
    <3>3. nextAllowed'[s] <= time + k
      BY <1>3, <1>4, <1>5, <2>2, <2>7, <3>2
    <3> QED
      BY <2>1, <2>4, <3>1, <3>2, <3>3
  <2> QED
    BY <2>6, <2>7
<1> QED
  BY <1>1, <1>4, <1>5, <1>7, <1>8, Joins

(* The high-priority download opens a lane, its own, and the queue is      *)
(* counted from it.                                                        *)
LEMMA JumpRate ==
  ASSUME RateInv, TypeOK', NEW c \in Callers, Jump(c)
  PROVE  RateInv'
<1> PICK s \in Sources : s = SourceOf[c]
  BY CallersAssumption
<1>1. /\ caller[c].pc = "idle" /\ caller'[c].pc # "idle" /\ caller'[c].at = now
      /\ \A d \in Callers : d # c => caller'[d] = caller[d]
      /\ UNCHANGED now /\ Cooldown[s] > 0 /\ c \in HighPriority
  BY DEF Jump, RateInv, TypeOK
<1>2. nextAllowed' = [nextAllowed EXCEPT ![s] = now + Cooldown[s]]
  BY DEF Jump
<1>3. now \in Nat /\ Cooldown[s] \in Nat /\ MaxJitter \in Nat
  BY TimesAssumption DEF RateInv, TypeOK
<1>4. /\ nextAllowed'[s] = now + Cooldown[s]
      /\ \A x \in Sources : x # s => nextAllowed'[x] = nextAllowed[x]
  BY <1>2 DEF RateInv, TypeOK
<1>5. /\ Served(s)' = Served(s) \cup {c} /\ c \notin Served(s)
      /\ \A d \in Served(s) : d \in Callers /\ d # c /\ caller'[d] = caller[d]
      /\ \A d \in Served(s)' : SourceOf[d] = s
  BY <1>1, JoinsServed
<1>6. Heads(s)' = Heads(s) \cup {c} /\ c \notin Heads(s)
  <2>1. Heads(s)' = Heads(s) \cup (HighPriority \cap {c})
    BY <1>1, JoinsServed
  <2>2. HighPriority \cap {c} = {c}
    BY <1>1
  <2>3. c \notin Heads(s)
    BY <1>1, <1>5, HeadIsNew DEF Heads
  <2> QED
    BY <2>1, <2>2, <2>3
<1>7. \E lane \in [Callers -> AllHeads], last \in AllHeads : LanesFit(s, lane, last)'
  <2>1. PICK lane \in [Callers -> AllHeads], last \in AllHeads : LanesFit(s, lane, last)
    BY <1>1 DEF RateInv, InLanes
  <2>2. PICK new \in [Callers -> AllHeads] :
          new[c] = c /\ \A d \in Callers : d # c => new[d] = lane[d]
    <3>1. /\ [lane EXCEPT ![c] = c] \in [Callers -> AllHeads]
          /\ [lane EXCEPT ![c] = c][c] = c
          /\ \A d \in Callers : d # c => [lane EXCEPT ![c] = c][d] = lane[d]
      BY <1>1, <2>1 DEF AllHeads
    <3> QED
      BY <3>1
  <2>3. \A d \in Served(s) : new[d] = lane[d] /\ new[d] \in Heads(s) /\ new[d] # c
    BY <1>5, <1>6, <2>1, <2>2 DEF LanesFit
  <2>4. \A d \in Served(s)' : new[d] \in Heads(s)'
    BY <1>5, <1>6, <2>2, <2>3
  <2>5. c \in Heads(s)'
    BY <1>6
  <2>6. ASSUME NEW d \in Served(s)', new[d] = c
        PROVE  caller'[d].at + Cooldown[s] <= nextAllowed'[s]
    <3>1. d = c
      BY <1>5, <2>3, <2>6
    <3> QED
      BY <1>1, <1>3, <1>4, <3>1
  <2>7. ASSUME NEW d \in Served(s)', NEW e \in Served(s)', d # e, new[d] = new[e]
        PROVE  Apart(d, e)'
    <3>1. d \in Served(s) /\ e \in Served(s)
      BY <1>5, <2>2, <2>3, <2>7
    <3>2. Apart(d, e)
      BY <2>1, <2>3, <2>7, <3>1 DEF LanesFit
    <3> QED
      BY <1>5, <3>1, <3>2 DEF Apart
  <2>8. LanesFit(s, new, c)'
    BY <2>4, <2>5, <2>6, <2>7 DEF LanesFit
  <2> QED
    BY <1>1, <2>8 DEF AllHeads
<1>8. ASSUME NEW time \in Nat, time >= now
      PROVE  nextAllowed'[s] <= time + (Cardinality(Waiting(s, time)') + 1) * Longest(s)
  <2>1. PICK w \in Nat : w = Longest(s)
    BY <1>3 DEF Longest
  <2>2. IsFiniteSet(Waiting(s, time)) /\ Cardinality(Waiting(s, time)) \in Nat
    BY WaitingFinite DEF RateInv
  <2>3. Waiting(s, time)' = Waiting(s, time)
    <3>1. Waiting(s, time)'
            = Waiting(s, time) \cup (IF caller'[c].at > time THEN {c} ELSE {})
      BY <1>1, JoinsServed
    <3>2. ~(caller'[c].at > time)
      BY <1>1, <1>3, <1>8
    <3> QED
      BY <3>1, <3>2
  <2>4. PICK n \in Nat : n = Cardinality(Waiting(s, time)')
    BY <2>2, <2>3
  <2>5. PICK k \in Nat : k = (n + 1) * w /\ w <= k
    BY MoreIntervals
  <2>6. nextAllowed'[s] <= time + k
    BY <1>3, <1>4, <1>8, <2>1, <2>5 DEF Longest
  <2> QED
    BY <2>1, <2>4, <2>5, <2>6
<1> QED
  BY <1>1, <1>3, <1>4, <1>7, <1>8, Joins

(* The invariant of the lanes and of the backlog holds in every state.     *)
LEMMA RateInvariant == Spec => []RateInv
<1>1. Init => RateInv
  <2> SUFFICES ASSUME Init PROVE RateInv
    OBVIOUS
  <2>1. TypeOK
    BY TimesAssumption DEF Init, TypeOK, Pc
  <2>2. \A s \in Sources : Served(s) = {}
    BY DEF Init, Served
  <2>3. FiniteServed
    BY <2>2, FS_EmptySet DEF FiniteServed
  <2>4. InLanes
    <3>1. [c \in Callers |-> NoHead] \in [Callers -> AllHeads]
      BY DEF AllHeads
    <3>2. \A s \in Sources : LanesFit(s, [c \in Callers |-> NoHead], NoHead)
      BY <2>2 DEF LanesFit, Heads
    <3> QED
      BY <3>1, <3>2 DEF InLanes, AllHeads
  <2>5. Bounded
    <3> SUFFICES ASSUME NEW s \in Sources, NEW time \in Nat, time >= now
                 PROVE  nextAllowed[s]
                          <= time + (Cardinality(Waiting(s, time)) + 1) * Longest(s)
      BY DEF Bounded
    <3>1. PICK n \in Nat : n = Cardinality(Waiting(s, time))
      BY <2>3, WaitingFinite
    <3>2. PICK w \in Nat : w = Longest(s)
      BY TimesAssumption DEF Longest
    <3>3. PICK k \in Nat : k = (n + 1) * w
      BY MoreIntervals
    <3>4. nextAllowed[s] = 0
      BY DEF Init
    <3> QED
      BY <3>1, <3>2, <3>3, <3>4
  <2> QED
    BY <2>1, <2>3, <2>4, <2>5 DEF RateInv
<1>2. RateInv /\ [Next]_vars => RateInv'
  <2> SUFFICES ASSUME RateInv, [Next]_vars PROVE RateInv'
    OBVIOUS
  <2>1. TypeOK /\ TypeOK'
    BY LimiterTypes DEF RateInv
  <2>2. now \in Nat
    BY <2>1, TimesAssumption DEF TypeOK
  <2>3. ASSUME NEW c \in Callers, Unlimited(c) \/ Reserve(c) \/ Jump(c)
        PROVE  RateInv'
    BY <2>1, <2>3, UnlimitedRate, ReserveRate, JumpRate
  <2>4. ASSUME NEW c \in Callers, Resume(c) PROVE RateInv'
    <3>1. caller' = [caller EXCEPT ![c].pc = "started"] /\ caller[c].pc = "waiting"
      BY <2>4 DEF Resume
    <3>2. \A d \in Callers : /\ caller'[d].at = caller[d].at
                             /\ caller'[d].pc # "idle" <=> caller[d].pc # "idle"
      BY <2>1, <3>1 DEF TypeOK
    <3> QED
      BY <2>1, <2>2, <2>4, <3>2, AllStay DEF Resume
  <2>5. CASE Tick
    <3>1. now' >= now
      BY <2>2, <2>5 DEF Tick
    <3> QED
      BY <2>1, <2>5, <3>1, AllStay DEF Tick
  <2>6. CASE UNCHANGED vars
    BY <2>1, <2>2, <2>6, AllStay DEF vars
  <2> QED
    BY <2>3, <2>4, <2>5, <2>6 DEF Next
<1> QED
  BY <1>1, <1>2, PTL DEF Spec

(* Of the downloads that one cooldown sees, no two share a lane.           *)
LEMMA LanesBoundRate == RateInv => RateBounded
<1> SUFFICES ASSUME RateInv, NEW s \in Sources, Cooldown[s] > 0, NEW c \in Served(s)
             PROVE  Cardinality({d \in Served(s) :
                                   /\ caller[d].at >= caller[c].at
                                   /\ caller[d].at <  caller[c].at + Cooldown[s]})
                      <= 1 + Cardinality(Served(s) \cap HighPriority)
  BY DEF RateBounded
<1> DEFINE near == {d \in Served(s) : /\ caller[d].at >= caller[c].at
                                      /\ caller[d].at <  caller[c].at + Cooldown[s]}
<1>1. PICK lane \in [Callers -> AllHeads], last \in AllHeads : LanesFit(s, lane, last)
  BY DEF RateInv, InLanes
<1>2. /\ IsFiniteSet(near) /\ Cardinality(near) \in Nat
      /\ near \subseteq Served(s) /\ Served(s) \subseteq Callers
  <2>1. near \in SUBSET Served(s)
    OBVIOUS
  <2> QED
    BY <2>1, FS_Subset, FS_CardinalityType DEF RateInv, FiniteServed, Served
<1>3. /\ IsFiniteSet(Heads(s)) /\ Cardinality(Heads(s)) \in Nat
      /\ Cardinality(Heads(s)) = 1 + Cardinality(Served(s) \cap HighPriority)
  <2> DEFINE high == Served(s) \cap HighPriority
  <2>1. IsFiniteSet(high) /\ Cardinality(high) \in Nat
    BY FS_Intersection, FS_CardinalityType DEF RateInv, FiniteServed
  <2>2. Heads(s) = high \cup {NoHead} /\ NoHead \notin high
    BY HeadIsNew DEF Heads
  <2> HIDE DEF high
  <2>3. IsFiniteSet(Heads(s)) /\ Cardinality(Heads(s)) = Cardinality(high) + 1
    BY <2>1, <2>2, FS_AddElement
  <2> QED
    BY <2>1, <2>3 DEF high
<1>4. ASSUME NEW d \in near, NEW e \in near, d # e PROVE lane[d] # lane[e]
  <2>1. SourceOf[d] = s /\ SourceOf[e] = s
    BY DEF Served
  <2>2. /\ caller[c].at \in Nat /\ caller[d].at \in Nat /\ caller[e].at \in Nat
        /\ Cooldown[s] \in Nat
    BY <1>2, TimesAssumption DEF RateInv, TypeOK
  <2>3. ~Apart(d, e)
    BY <2>1, <2>2 DEF Apart
  <2> QED
    BY <1>1, <1>4, <2>3 DEF LanesFit
<1>5. [d \in near |-> lane[d]] \in [near -> Heads(s)]
  BY <1>1 DEF LanesFit
<1> HIDE DEF near
<1>6. ~(Cardinality(Heads(s)) < Cardinality(near))
  <2> SUFFICES ASSUME Cardinality(Heads(s)) < Cardinality(near) PROVE FALSE
    OBVIOUS
  <2>1. PICK f \in [near -> Heads(s)] : \A d \in near : f[d] = lane[d]
    BY <1>5
  <2>2. \E d, e \in near : d # e /\ f[d] = f[e]
    BY <1>2, <1>3, FS_PigeonHole
  <2> QED
    BY <1>4, <2>1, <2>2
<1> QED
  BY <1>2, <1>3, <1>6 DEF near

(* acquire: within one cooldown a source sees at most one download, and    *)
(* one for each high-priority one there has been.                          *)
THEOREM RateIsBounded == Spec => []RateBounded
BY RateInvariant, LanesBoundRate, PTL

(* acquire: the backlog of a source is no longer than the downloads that   *)
(* wait for it, and one.                                                   *)
THEOREM BacklogIsBounded == Spec => []BacklogBounded
<1>1. RateInv => BacklogBounded
  <2> SUFFICES ASSUME RateInv PROVE BacklogBounded
    OBVIOUS
  <2>1. now \in Nat /\ now >= now
    BY TimesAssumption DEF RateInv, TypeOK
  <2> QED
    BY <2>1 DEF RateInv, Bounded, Waiting, Longest, BacklogBounded
<1> QED
  BY <1>1, RateInvariant, PTL
=============================================================================
