-------------------------- MODULE ReadyQueueProofs --------------------------
(***************************************************************************)
(* One cycle of the scheduler's queue, for any tasks, novels, priorities   *)
(* and sources and any number of pops: what is fetched is handed out or    *)
(* belongs to a saturated source, novels take turns, and a novel's tasks   *)
(* are started in the order in which they were fetched.                    *)
(*                                                                         *)
(* A task that is pushed back keeps its place in its novel's queue, but    *)
(* its novel may lose its place among the others: Ahead and Passed say     *)
(* what the order of a bucket's keys still tells of the history then.      *)
(***************************************************************************)
EXTENDS ReadyQueue, FiniteSetTheorems, SequenceTheorems, TLAPS

-----------------------------------------------------------------------------
(* Sequences.                                                              *)

(* What is left of a sequence when an element has been taken out.          *)
LEMMA RemoveAtIs ==
  ASSUME NEW S, NEW s \in Seq(S), NEW i \in DOMAIN s
  PROVE  /\ RemoveAt(s, i) \in Seq(S)
         /\ Len(RemoveAt(s, i)) = Len(s) - 1
         /\ \A k \in 1..(Len(s) - 1) :
              RemoveAt(s, i)[k] = IF k < i THEN s[k] ELSE s[k + 1]
<1> DEFINE a == SubSeq(s, 1, i - 1)
           b == SubSeq(s, i + 1, Len(s))
           c == a \o b
<1>1. DOMAIN s = 1..Len(s) /\ Len(s) \in Nat /\ i \in 1..Len(s)
  BY LenProperties
<1>2. /\ a \in Seq(S) /\ Len(a) = i - 1
      /\ \A k \in 1..(i - 1) : a[k] = s[k]
  BY <1>1, SubSeqProperties
<1>3. /\ b \in Seq(S) /\ Len(b) = Len(s) - i
      /\ \A k \in 1..(Len(s) - i) : b[k] = s[i + k]
  BY <1>1, SubSeqProperties
<1> HIDE DEF a, b
<1>4. /\ c \in Seq(S) /\ Len(c) = Len(a) + Len(b)
      /\ \A k \in 1..(Len(a) + Len(b)) :
           c[k] = IF k <= Len(a) THEN a[k] ELSE b[k - Len(a)]
  BY <1>2, <1>3, ConcatProperties
<1> HIDE DEF c
<1>5. /\ Len(c) = Len(s) - 1
      /\ \A k \in 1..(Len(s) - 1) : c[k] = IF k < i THEN s[k] ELSE s[k + 1]
  <2>1. Len(a) + Len(b) = Len(s) - 1
    BY <1>1, <1>2, <1>3
  <2>2. ASSUME NEW k \in 1..(Len(s) - 1)
        PROVE  c[k] = IF k < i THEN s[k] ELSE s[k + 1]
    <3>1. c[k] = IF k <= Len(a) THEN a[k] ELSE b[k - Len(a)]
      BY <1>4, <2>1, <2>2
    <3>2. CASE k < i
      BY <1>1, <1>2, <2>2, <3>1, <3>2
    <3>3. CASE k >= i
      <4>1. k - (i - 1) \in 1..(Len(s) - i) /\ i + (k - (i - 1)) = k + 1
        BY <1>1, <2>2, <3>3
      <4> QED
        BY <1>1, <1>2, <1>3, <2>2, <3>1, <3>3, <4>1
    <3> QED
      BY <1>1, <2>2, <3>2, <3>3
  <2> QED
    BY <1>4, <2>1, <2>2
<1>6. RemoveAt(s, i) = c
  BY DEF RemoveAt, a, b, c
<1> QED
  BY <1>4, <1>5, <1>6

(* The keys of a bucket once the i-th novel was served: the others keep    *)
(* their order, and it comes last, if at all.                              *)
Served(order, i, rest, new) ==
  /\ new \in Seq(Novels) /\ IsInjective(new)
  /\ ToSet(new) = IF rest = << >> THEN ToSet(order) \ {order[i]} ELSE ToSet(order)
  /\ \A a, b \in DOMAIN new :
       a < b =>
         /\ new[a] # order[i]
         /\ new[b] # order[i] =>
              \E x, y \in DOMAIN order :
                x < y /\ order[x] = new[a] /\ order[y] = new[b]

(* The two ways in which pop leaves the keys are such.                     *)
LEMMA ServedIs ==
  ASSUME NEW order \in Seq(Novels), IsInjective(order), NEW i \in DOMAIN order, NEW rest
  PROVE  Served(order, i, rest, served(order, i, rest))
<1> DEFINE new  == served(order, i, rest)
           left == RemoveAt(order, i)
           back(k) == IF k < i THEN k ELSE k + 1
<1>1. DOMAIN order = 1..Len(order) /\ Len(order) \in Nat /\ order[i] \in Novels
      /\ i \in 1..Len(order)
  BY LenProperties, ElementOfSeq
<1>2. /\ left \in Seq(Novels) /\ Len(left) = Len(order) - 1
      /\ \A k \in 1..(Len(order) - 1) : left[k] = order[back(k)]
  BY RemoveAtIs
<1>3. /\ DOMAIN left = 1..(Len(order) - 1)
      /\ \A k \in DOMAIN left : /\ back(k) \in DOMAIN order /\ back(k) # i
                                /\ left[k] = order[back(k)] /\ left[k] # order[i]
      /\ \A a, b \in DOMAIN left : a < b => back(a) < back(b)
      /\ \A a, b \in DOMAIN left : back(a) = back(b) => a = b
      /\ \A x \in DOMAIN order : x # i => \E k \in DOMAIN left : back(k) = x
  <2>1. DOMAIN left = 1..(Len(order) - 1)
    BY <1>2, LenProperties
  <2>2. \A k \in DOMAIN left : back(k) \in DOMAIN order /\ back(k) # i /\ left[k] = order[back(k)]
    BY <1>1, <1>2, <2>1
  <2>3. \A a, b \in DOMAIN left : a < b => back(a) < back(b)
    BY <1>1, <2>1
  <2>4. \A a, b \in DOMAIN left : back(a) = back(b) => a = b
    BY <1>1, <2>1
  <2>5. ASSUME NEW x \in DOMAIN order, x # i PROVE \E k \in DOMAIN left : back(k) = x
    <3>1. CASE x < i
      BY <1>1, <2>1, <3>1
    <3>2. CASE x > i
      <4>1. x - 1 \in DOMAIN left /\ back(x - 1) = x
        BY <1>1, <2>1, <3>2
      <4> QED
        BY <4>1
    <3> QED
      BY <1>1, <2>5, <3>1, <3>2
  <2>6. \A k \in DOMAIN left : left[k] # order[i]
    BY <2>2 DEF IsInjective
  <2> QED
    BY <2>1, <2>2, <2>3, <2>4, <2>5, <2>6
<1> HIDE DEF left, back, new
<1>4. IsInjective(left)
  BY <1>3 DEF IsInjective
<1>5. ToSet(left) = ToSet(order) \ {order[i]}
  <2>1. ASSUME NEW n \in ToSet(left) PROVE n \in ToSet(order) \ {order[i]}
    BY <1>3 DEF ToSet
  <2>2. ASSUME NEW n \in ToSet(order) \ {order[i]} PROVE n \in ToSet(left)
    <3>1. PICK x \in DOMAIN order : order[x] = n
      BY DEF ToSet
    <3>2. x # i
      BY <3>1
    <3>3. PICK k \in DOMAIN left : back(k) = x
      BY <1>3, <3>2
    <3> QED
      BY <1>3, <3>1, <3>3 DEF ToSet
  <2> QED
    BY <2>1, <2>2
<1>6. ASSUME NEW a \in DOMAIN left, NEW b \in DOMAIN left, a < b
      PROVE  \E x, y \in DOMAIN order : x < y /\ order[x] = left[a] /\ order[y] = left[b]
  BY <1>3, <1>6
<1>7. ASSUME rest = << >> PROVE Served(order, i, rest, new)
  <2>1. new = left
    BY <1>7 DEF served, left, new
  <2> QED
    BY <1>2, <1>3, <1>4, <1>5, <1>6, <1>7, <2>1 DEF Served
<1>8. ASSUME rest # << >> PROVE Served(order, i, rest, new)
  <2>1. new = Append(left, order[i])
    BY <1>8 DEF served, left, new
  <2>2. /\ new \in Seq(Novels) /\ Len(new) = Len(order) /\ DOMAIN new = 1..Len(order)
        /\ \A k \in DOMAIN left : new[k] = left[k]
        /\ new[Len(order)] = order[i]
    <3>1. /\ new \in Seq(Novels) /\ Len(new) = Len(left) + 1
          /\ \A k \in 1..Len(left) : new[k] = left[k]
          /\ new[Len(left) + 1] = order[i]
      <4>1. left \in Seq(Novels) /\ order[i] \in Novels
        BY <1>1, <1>2
      <4>2. /\ Append(left, order[i]) \in Seq(Novels)
            /\ Len(Append(left, order[i])) = Len(left) + 1
            /\ \A k \in 1..Len(left) : Append(left, order[i])[k] = left[k]
            /\ Append(left, order[i])[Len(left) + 1] = order[i]
        BY <4>1, AppendProperties
      <4> QED
        BY <2>1, <4>2
    <3>2. Len(left) + 1 = Len(order) /\ DOMAIN left = 1..Len(left)
      BY <1>1, <1>2, <1>3
    <3> QED
      BY <3>1, <3>2, LenProperties
  <2>3. \A k \in DOMAIN new : k \in DOMAIN left \/ k = Len(order)
    BY <1>1, <1>3, <2>2
  <2>4. IsInjective(new)
    BY <1>3, <1>4, <2>2, <2>3 DEF IsInjective
  <2>5. ToSet(new) = ToSet(left) \cup {order[i]}
    <3>1. \A n \in ToSet(new) : n \in ToSet(left) \cup {order[i]}
      BY <2>2, <2>3 DEF ToSet
    <3>2. \A n \in ToSet(left) : n \in ToSet(new)
      <4>1. DOMAIN left \subseteq DOMAIN new
        BY <1>1, <1>3, <2>2
      <4> QED
        BY <2>2, <4>1 DEF ToSet
    <3>3. order[i] \in ToSet(new)
      <4>1. Len(order) \in DOMAIN new
        BY <1>1, <2>2
      <4> QED
        BY <2>2, <4>1 DEF ToSet
    <3> QED
      BY <3>1, <3>2, <3>3
  <2>6. order[i] \in ToSet(order)
    BY DEF ToSet
  <2>7. ASSUME NEW a \in DOMAIN new, NEW b \in DOMAIN new, a < b
        PROVE  /\ new[a] # order[i]
               /\ new[b] # order[i] =>
                    \E x, y \in DOMAIN order :
                      x < y /\ order[x] = new[a] /\ order[y] = new[b]
    <3>1. a \in DOMAIN left
      BY <1>1, <1>3, <2>2, <2>3, <2>7
    <3>2. new[b] # order[i] => b \in DOMAIN left
      BY <2>2, <2>3
    <3>3. new[b] # order[i] => /\ new[a] = left[a] /\ new[b] = left[b]
      BY <2>2, <3>1, <3>2
    <3>4. new[a] # order[i]
      BY <1>3, <2>2, <3>1
    <3> QED
      BY <1>6, <2>7, <3>1, <3>2, <3>3, <3>4
  <2> QED
    BY <1>5, <1>8, <2>2, <2>4, <2>5, <2>6, <2>7 DEF Served
<1> QED
  BY <1>7, <1>8 DEF new

(* The keys of a bucket with a novel that may have been there before.      *)
LEMMA WithNovelIs ==
  ASSUME NEW order \in Seq(Novels), IsInjective(order), NEW n \in Novels
  PROVE  LET new == withNovel(order, n)
         IN /\ new \in Seq(Novels) /\ IsInjective(new)
            /\ ToSet(new) = ToSet(order) \cup {n}
            /\ DOMAIN order \subseteq DOMAIN new
            /\ \A a \in DOMAIN order : new[a] = order[a]
            /\ \A a \in DOMAIN new : a \notin DOMAIN order =>
                 new[a] = n /\ \A b \in DOMAIN order : b < a
<1> DEFINE new == withNovel(order, n)
<1>1. DOMAIN order = 1..Len(order) /\ Len(order) \in Nat
  BY LenProperties
<1>2. CASE n \in ToSet(order)
  <2>1. new = order
    BY <1>1, <1>2 DEF withNovel, Contains, ToSet
  <2> QED
    BY <1>2, <2>1
<1>3. CASE n \notin ToSet(order)
  <2>1. new = Append(order, n)
    BY <1>1, <1>3 DEF withNovel, Contains, ToSet
  <2>2. /\ new \in Seq(Novels) /\ DOMAIN new = 1..(Len(order) + 1)
        /\ \A a \in DOMAIN order : new[a] = order[a]
        /\ new[Len(order) + 1] = n
    BY <1>1, <2>1, AppendProperties, LenProperties
  <2>3. \A a \in DOMAIN new : a \in DOMAIN order \/ a = Len(order) + 1
    BY <1>1, <2>2
  <2>4. DOMAIN order \subseteq DOMAIN new /\ Len(order) + 1 \in DOMAIN new
    BY <1>1, <2>2
  <2>5. ToSet(new) = ToSet(order) \cup {n}
    BY <2>2, <2>3, <2>4 DEF ToSet
  <2>6. IsInjective(new)
    BY <1>3, <2>2, <2>3 DEF IsInjective, ToSet
  <2> QED
    BY <1>1, <2>2, <2>3, <2>4, <2>5, <2>6
<1> QED
  BY <1>2, <1>3

(* A sequence with an element before it.                                   *)
LEMMA FrontIs ==
  ASSUME NEW S, NEW s \in Seq(S), NEW e \in S
  PROVE  /\ <<e>> \o s \in Seq(S) /\ DOMAIN (<<e>> \o s) = 1..(Len(s) + 1)
         /\ (<<e>> \o s)[1] = e /\ \A k \in 1..Len(s) : (<<e>> \o s)[k + 1] = s[k]
<1>1. <<e>> \in Seq(S) /\ Len(<<e>>) = 1 /\ <<e>>[1] = e
  OBVIOUS
<1>2. Len(s) \in Nat
  BY LenProperties
<1> DEFINE f == <<e>> \o s
<1>3. /\ f \in Seq(S) /\ Len(f) = 1 + Len(s)
      /\ \A i \in 1..(1 + Len(s)) : f[i] = IF i <= 1 THEN <<e>>[i] ELSE s[i - 1]
  BY <1>1, ConcatProperties
<1> HIDE DEF f
<1>4. f \in Seq(S) /\ DOMAIN f = 1..(Len(s) + 1) /\ f[1] = e
  BY <1>1, <1>2, <1>3, LenProperties
<1>5. ASSUME NEW k \in 1..Len(s) PROVE f[k + 1] = s[k]
  BY <1>2, <1>3
<1> QED
  BY <1>4, <1>5 DEF f

(* A sequence with an element behind it.                                   *)
LEMMA BackIs ==
  ASSUME NEW S, NEW s \in Seq(S), NEW e \in S
  PROVE  /\ Append(s, e) \in Seq(S) /\ DOMAIN Append(s, e) = 1..(Len(s) + 1)
         /\ Append(s, e)[Len(s) + 1] = e
         /\ \A k \in 1..Len(s) : Append(s, e)[k] = s[k]
<1>1. /\ Append(s, e) \in Seq(S) /\ Len(Append(s, e)) = Len(s) + 1
      /\ Append(s, e)[Len(s) + 1] = e
      /\ \A k \in 1..Len(s) : Append(s, e)[k] = s[k]
  BY AppendProperties
<1> QED
  BY <1>1, LenProperties

(* A sequence without its first element.                                   *)
LEMMA RestIs ==
  ASSUME NEW S, NEW s \in Seq(S), s # << >>
  PROVE  /\ Head(s) = s[1] /\ s[1] \in S /\ Len(s) \in Nat \ {0}
         /\ Tail(s) \in Seq(S) /\ DOMAIN Tail(s) = 1..(Len(s) - 1)
         /\ \A k \in 1..(Len(s) - 1) : Tail(s)[k] = s[k + 1]
<1>1. /\ Head(s) \in S /\ Tail(s) \in Seq(S) /\ Len(Tail(s)) = Len(s) - 1
      /\ \A i \in 1..Len(Tail(s)) : Tail(s)[i] = s[i + 1]
  BY HeadTailProperties
<1>2. Len(s) \in Nat /\ Len(s) # 0 /\ Head(s) = s[1]
  BY LenProperties, EmptySeq
<1> QED
  BY <1>1, <1>2, LenProperties

(* A set of naturals has a least element.                                  *)
LEMMA Least ==
  ASSUME NEW T \in SUBSET Nat, T # {}
  PROVE  \E x \in T : \A y \in T : x <= y
<1> DEFINE Less == {ss \in Nat \X Nat : ss[1] < ss[2]}
<1>1. IsWellFoundedOn(Less, Nat)
  BY NatLessThanWellFounded, Zenon DEF OpToRel
<1>2. PICK x \in T : \A y \in T : <<y, x>> \notin Less
  BY <1>1, WFMin, Zenon
<1>3. \A y \in T : ~(y < x)
  BY <1>2
<1> QED
  BY <1>3

-----------------------------------------------------------------------------
(* The invariant.                                                          *)

(* While the queue is filled nothing has been popped.                      *)
Filling ==
  /\ IsInjective(fetched)
  /\ pushed < Len(fetched) =>
       /\ held = NoTask /\ end = "no"
       /\ popped = << >> /\ launched = << >>
  /\ end # "no" => held = NoTask

(* Whatever was pushed is waiting, in somebody's hands or was popped, and  *)
(* when pop() has answered null only the tasks of saturated sources wait.  *)
Kept ==
  /\ \A x \in 1..pushed :
       \/ fetched[x] \in Waiting(PriorityOf[fetched[x]], NovelOf[fetched[x]])
       \/ fetched[x] \in ToSet(popped)
  /\ held # NoTask => popped # << >> /\ popped[Len(popped)] = held
  /\ end = "null" => \A p \in Priorities : \A i \in DOMAIN novels[p] : ~Eligible(p, i)

(* The queues, what is held and what was launched keep the order of what   *)
(* was fetched.                                                            *)
Among(f, m, t) == \E x \in 1..m : f[x] = t
Earlier(f, m, t, u) == \E x, y \in 1..m : x < y /\ f[x] = t /\ f[y] = u
Ordered(f, m, s) ==
  /\ \A a \in DOMAIN s : Among(f, m, s[a])
  /\ \A a, b \in DOMAIN s : a < b => Earlier(f, m, s[a], s[b])

Before(t, u) == Earlier(fetched, pushed, t, u)
Behind(t) == queue[PriorityOf[t]][NovelOf[t]]
Together(t, u) == NovelOf[t] = NovelOf[u] /\ PriorityOf[t] = PriorityOf[u]

Sorted ==
  /\ \A p \in Priorities, n \in Novels : Ordered(fetched, pushed, queue[p][n])
  /\ held # NoTask =>
       /\ Among(fetched, pushed, held)
       /\ \A a \in DOMAIN Behind(held) : Before(held, Behind(held)[a])
  /\ \A i \in DOMAIN launched :
       /\ \A a \in DOMAIN Behind(launched[i]) : Before(launched[i], Behind(launched[i])[a])
       /\ held # NoTask /\ Together(launched[i], held) => Before(launched[i], held)

(* Nothing above what was handed out can be popped any more.               *)
Exhausted(p) ==
  \A r \in Priorities : r > p => \A j \in DOMAIN novels[r] : ~Eligible(r, j)
Descending ==
  /\ held # NoTask => Exhausted(PriorityOf[held])
  /\ \A i \in DOMAIN launched :
       /\ Exhausted(PriorityOf[launched[i]])
       /\ held # NoTask => PriorityOf[launched[i]] >= PriorityOf[held]

(* A novel that has not been served since the i-th pop is before the novel *)
(* that was served then.                                                   *)
Unserved(h, n, i, j) == \A l \in i..j : NovelOf[h[l]] # n
InFront(order, h, n, i) ==
  \A a, b \in DOMAIN order :
    order[b] = n /\ order[a] # n /\ Unserved(h, order[a], i, Len(h)) => a < b
Ahead ==
  \A i \in DOMAIN popped : InFront(novels[PriorityOf[popped[i]]], popped, NovelOf[popped[i]], i)

(* A novel still to be served that was passed over between two tasks of    *)
(* another is of a saturated source.                                       *)
ToServe(p, n) ==
  \/ n \in ToSet(novels[p])
  \/ held # NoTask /\ PriorityOf[held] = p /\ NovelOf[held] = n
Passed ==
  \A i, j \in DOMAIN popped, n \in Novels :
    i < j /\ Together(popped[i], popped[j]) /\ NovelOf[popped[i]] # n
    /\ ToServe(PriorityOf[popped[i]], n) /\ Unserved(popped, n, i, j)
    => SourceOf[n] \in saturated

QueueInv ==
  /\ TypeOK /\ Filling /\ Kept /\ Sorted /\ Descending /\ Ahead /\ Passed
  /\ NovelsTakeTurns /\ InOrder

(* What the types say.                                                     *)
LEMMA Shapes ==
  ASSUME TypeOK
  PROVE  /\ \A t \in Tasks : /\ NovelOf[t] \in Novels /\ PriorityOf[t] \in Priorities
                             /\ PriorityOf[t] \in Int /\ t # NoTask
                             /\ SourceOf[NovelOf[t]] \in Sources
         /\ Priorities \subseteq Int
         /\ \A p \in Priorities, n \in Novels :
              /\ queue[p][n] \in Seq(Tasks) /\ DOMAIN queue[p][n] = 1..Len(queue[p][n])
              /\ Len(queue[p][n]) \in Nat
              /\ queue[p][n] # << >> <=> 1 \in DOMAIN queue[p][n]
              /\ \A a \in DOMAIN queue[p][n] :
                   /\ queue[p][n][a] \in Tasks
                   /\ NovelOf[queue[p][n][a]] = n /\ PriorityOf[queue[p][n][a]] = p
         /\ \A p \in Priorities :
              /\ novels[p] \in Seq(Novels) /\ DOMAIN novels[p] = 1..Len(novels[p])
              /\ Len(novels[p]) \in Nat /\ IsInjective(novels[p])
              /\ \A i \in DOMAIN novels[p] : novels[p][i] \in Novels
         /\ \A i \in DOMAIN popped : popped[i] \in Tasks
         /\ \A i \in DOMAIN launched : launched[i] \in Tasks
         /\ \A i \in DOMAIN fetched : fetched[i] \in Tasks
         /\ DOMAIN popped = 1..Len(popped) /\ Len(popped) \in Nat
         /\ DOMAIN launched = 1..Len(launched) /\ Len(launched) \in Nat
         /\ DOMAIN fetched = 1..Len(fetched) /\ Len(fetched) \in Nat /\ pushed \in Nat
         /\ \A t \in Tasks : Behind(t) = queue[PriorityOf[t]][NovelOf[t]]
<1>1. \A t \in Tasks : /\ NovelOf[t] \in Novels /\ PriorityOf[t] \in Priorities
                       /\ PriorityOf[t] \in Int /\ t # NoTask
                       /\ SourceOf[NovelOf[t]] \in Sources
  BY TasksAssumption
<1>2. ASSUME NEW p \in Priorities, NEW n \in Novels
      PROVE  /\ queue[p][n] \in Seq(Tasks) /\ DOMAIN queue[p][n] = 1..Len(queue[p][n])
             /\ Len(queue[p][n]) \in Nat
             /\ queue[p][n] # << >> <=> 1 \in DOMAIN queue[p][n]
             /\ \A a \in DOMAIN queue[p][n] :
                  /\ queue[p][n][a] \in Tasks
                  /\ NovelOf[queue[p][n][a]] = n /\ PriorityOf[queue[p][n][a]] = p
  <2>1. queue[p][n] \in Seq(Tasks)
    BY DEF TypeOK
  <2>2. DOMAIN queue[p][n] = 1..Len(queue[p][n]) /\ Len(queue[p][n]) \in Nat
    BY <2>1, LenProperties
  <2>3. queue[p][n] # << >> <=> 1 \in DOMAIN queue[p][n]
    BY <2>1, <2>2, EmptySeq
  <2>4. \A a \in DOMAIN queue[p][n] :
          /\ queue[p][n][a] \in Tasks
          /\ NovelOf[queue[p][n][a]] = n /\ PriorityOf[queue[p][n][a]] = p
    BY <2>1, ElementOfSeq DEF TypeOK, Waiting, ToSet
  <2> QED
    BY <2>1, <2>2, <2>3, <2>4
<1>3. ASSUME NEW p \in Priorities
      PROVE  /\ novels[p] \in Seq(Novels) /\ DOMAIN novels[p] = 1..Len(novels[p])
             /\ Len(novels[p]) \in Nat /\ IsInjective(novels[p])
             /\ \A i \in DOMAIN novels[p] : novels[p][i] \in Novels
  <2>1. novels[p] \in Seq(Novels) /\ IsInjective(novels[p])
    BY DEF TypeOK
  <2> QED
    BY <2>1, LenProperties, ElementOfSeq
<1>4. /\ popped \in Seq(Tasks) /\ launched \in Seq(Tasks) /\ fetched \in Seq(Tasks)
      /\ pushed \in Nat
  <2>1. fetched \in Seq(Tasks) /\ Len(fetched) \in Nat /\ pushed \in 0..Len(fetched)
    BY LenProperties DEF TypeOK
  <2> QED
    BY <2>1 DEF TypeOK
<1>5. /\ \A i \in DOMAIN popped : popped[i] \in Tasks
      /\ \A i \in DOMAIN launched : launched[i] \in Tasks
      /\ \A i \in DOMAIN fetched : fetched[i] \in Tasks
  BY <1>4, ElementOfSeq, LenProperties
<1>6. /\ DOMAIN popped = 1..Len(popped) /\ Len(popped) \in Nat
      /\ DOMAIN launched = 1..Len(launched) /\ Len(launched) \in Nat
      /\ DOMAIN fetched = 1..Len(fetched) /\ Len(fetched) \in Nat
  BY <1>4, LenProperties
<1>7. \A t \in Tasks : Behind(t) = queue[PriorityOf[t]][NovelOf[t]]
  BY DEF Behind
<1> QED
  BY <1>1, <1>2, <1>3, <1>4, <1>5, <1>6, <1>7, TasksAssumption

(* pop() answers null only if no novel is eligible: of the eligible ones   *)
(* the first of the highest bucket is selected.                            *)
LEMMA NullMeansNone ==
  ASSUME TypeOK, \A p \in Priorities : \A i \in DOMAIN novels[p] : ~Selected(p, i)
  PROVE  \A p \in Priorities : \A i \in DOMAIN novels[p] : ~Eligible(p, i)
<1> DEFINE Open == {p \in Priorities : \E i \in DOMAIN novels[p] : Eligible(p, i)}
           Above(p) == {r \in Priorities : r > p}
<1> SUFFICES ASSUME Open # {} PROVE FALSE
  OBVIOUS
<1>1. \A p \in Priorities : Above(p) \in SUBSET Priorities /\ IsFiniteSet(Above(p))
                            /\ Cardinality(Above(p)) \in Nat
  BY TasksAssumption, FS_Subset, FS_CardinalityType
<1>2. PICK p \in Open : \A r \in Open : Cardinality(Above(p)) <= Cardinality(Above(r))
  <2> DEFINE Ranks == {Cardinality(Above(r)) : r \in Open}
  <2>1. Ranks \in SUBSET Nat /\ Ranks # {}
    BY <1>1
  <2> HIDE DEF Ranks
  <2>2. PICK x \in Ranks : \A y \in Ranks : x <= y
    BY <2>1, Least
  <2> QED
    BY <2>2 DEF Ranks
<1>3. ASSUME NEW r \in Open PROVE ~(r > p)
  <2> SUFFICES ASSUME r > p PROVE FALSE
    OBVIOUS
  <2>0. p \in Int /\ r \in Int /\ \A x \in Priorities : x \in Int
    BY Shapes
  <2>1. Above(r) \in SUBSET Above(p) /\ r \in Above(p) /\ r \notin Above(r)
    <3>1. \A x \in Priorities : x > r => x > p
      BY <2>0
    <3>2. r \in Priorities /\ ~(r > r)
      BY <2>0
    <3> QED
      BY <3>1, <3>2
  <2> HIDE DEF Above
  <2>2. IsFiniteSet(Above(p)) /\ Cardinality(Above(p)) \in Nat /\ Cardinality(Above(r)) \in Nat
    BY <1>1
  <2>3. Cardinality(Above(r)) <= Cardinality(Above(p))
        /\ (Cardinality(Above(p)) = Cardinality(Above(r)) => Above(p) = Above(r))
    BY <2>1, <2>2, FS_Subset
  <2> QED
    BY <1>2, <2>1, <2>2, <2>3
<1>4. PICK i \in {k \in DOMAIN novels[p] : Eligible(p, k)} :
        \A k \in {k \in DOMAIN novels[p] : Eligible(p, k)} : i <= k
  <2> DEFINE Places == {k \in DOMAIN novels[p] : Eligible(p, k)}
  <2>1. Places \in SUBSET Nat /\ Places # {}
    BY Shapes
  <2> HIDE DEF Places
  <2>2. \E x \in Places : \A y \in Places : x <= y
    BY <2>1, Least
  <2> QED
    BY <2>2 DEF Places
<1>5. ASSUME NEW j \in 1..i-1 PROVE ~Eligible(p, j)
  <2>1. DOMAIN novels[p] = 1..Len(novels[p]) /\ Len(novels[p]) \in Nat
    BY Shapes
  <2>2. j \in DOMAIN novels[p] /\ j < i
    BY <1>4, <2>1
  <2> QED
    BY <1>4, <2>1, <2>2
<1>6. Selected(p, i)
  BY <1>3, <1>4, <1>5 DEF Selected
<1> QED
  BY <1>4, <1>6

(* What is in the order of the fetched tasks is in it once.                *)
LEMMA OnceIn ==
  ASSUME NEW f, IsInjective(f), NEW m \in Nat, 1..m \subseteq DOMAIN f,
         NEW S, NEW s \in Seq(S), Ordered(f, m, s)
  PROVE  IsInjective(s) /\ \A a, b \in DOMAIN s : a < b => s[a] # s[b]
<1>0. DOMAIN s = 1..Len(s) /\ Len(s) \in Nat
  BY LenProperties
<1>1. ASSUME NEW a \in DOMAIN s, NEW b \in DOMAIN s, a < b PROVE s[a] # s[b]
  <2>1. PICK x \in 1..m, y \in 1..m : x < y /\ f[x] = s[a] /\ f[y] = s[b]
    BY <1>1 DEF Ordered, Earlier
  <2>2. x \in DOMAIN f /\ y \in DOMAIN f /\ x # y
    BY <2>1
  <2> QED
    BY <2>1, <2>2 DEF IsInjective
<1>2. ASSUME NEW a \in DOMAIN s, NEW b \in DOMAIN s, s[a] = s[b] PROVE a = b
  <2>1. a \in Int /\ b \in Int /\ ~(a < b) /\ ~(b < a)
    BY <1>0, <1>1, <1>2
  <2> QED
    BY <2>1
<1> QED
  BY <1>1, <1>2 DEF IsInjective

(* The order with one more fetched task, with that task at the end, with   *)
(* an earlier task at the front, and without the first task.               *)
LEMMA OrderedOn ==
  ASSUME NEW f, NEW m \in Nat, NEW s, Ordered(f, m, s)
  PROVE  Ordered(f, m + 1, s)
<1>1. 1..m \subseteq 1..(m + 1)
  OBVIOUS
<1>2. ASSUME NEW a \in DOMAIN s PROVE Among(f, m + 1, s[a])
  BY <1>1 DEF Ordered, Among
<1>3. ASSUME NEW a \in DOMAIN s, NEW b \in DOMAIN s, a < b
      PROVE  Earlier(f, m + 1, s[a], s[b])
  BY <1>1, <1>3 DEF Ordered, Earlier
<1> QED
  BY <1>2, <1>3 DEF Ordered

(* The task fetched last, behind the others.                               *)
LEMMA OrderedBack ==
  ASSUME NEW f, NEW m \in Nat, NEW S, NEW s \in Seq(S), NEW t \in S,
         Ordered(f, m, s), f[m + 1] = t
  PROVE  Ordered(f, m + 1, Append(s, t))
<1>1. /\ DOMAIN Append(s, t) = 1..(Len(s) + 1) /\ Append(s, t)[Len(s) + 1] = t
      /\ \A k \in 1..Len(s) : Append(s, t)[k] = s[k]
  BY BackIs
<1> DEFINE q == Append(s, t)
<1> HIDE DEF q
<1>2. /\ DOMAIN q = 1..(Len(s) + 1) /\ q[Len(s) + 1] = t
      /\ \A k \in 1..Len(s) : q[k] = s[k]
      /\ DOMAIN s = 1..Len(s) /\ Len(s) \in Nat
  BY <1>1, LenProperties DEF q
<1>3. \A a \in DOMAIN q : a \in DOMAIN s \/ a = Len(s) + 1
  BY <1>2
<1>4. m + 1 \in 1..(m + 1) /\ \A x \in 1..m : x \in 1..(m + 1) /\ x < m + 1
  OBVIOUS
<1>5. Ordered(f, m + 1, s)
  BY OrderedOn
<1>6. ASSUME NEW a \in DOMAIN q PROVE Among(f, m + 1, q[a])
  <2>1. CASE a \in DOMAIN s
    BY <1>2, <1>5, <2>1 DEF Ordered
  <2>2. CASE a = Len(s) + 1
    BY <1>2, <1>4, <2>2 DEF Among
  <2> QED
    BY <1>3, <2>1, <2>2
<1>7. ASSUME NEW a \in DOMAIN q, NEW b \in DOMAIN q, a < b
      PROVE  Earlier(f, m + 1, q[a], q[b])
  <2>1. a \in DOMAIN s
    BY <1>2, <1>7
  <2>2. CASE b \in DOMAIN s
    BY <1>2, <1>5, <1>7, <2>1, <2>2 DEF Ordered
  <2>3. CASE b = Len(s) + 1
    <3>1. PICK x \in 1..m : f[x] = s[a]
      BY <2>1 DEF Ordered, Among
    <3>2. f[x] = q[a] /\ f[m + 1] = q[b]
      BY <1>2, <2>1, <2>3, <3>1
    <3> QED
      BY <1>4, <3>1, <3>2 DEF Earlier
  <2> QED
    BY <1>3, <2>2, <2>3
<1> QED
  BY <1>6, <1>7 DEF Ordered, q

(* A task before the others.                                               *)
LEMMA OrderedFront ==
  ASSUME NEW f, NEW m \in Nat, NEW S, NEW s \in Seq(S), NEW t \in S, Ordered(f, m, s),
         Among(f, m, t), \A a \in DOMAIN s : Earlier(f, m, t, s[a])
  PROVE  Ordered(f, m, <<t>> \o s)
<1>1. /\ DOMAIN (<<t>> \o s) = 1..(Len(s) + 1) /\ (<<t>> \o s)[1] = t
      /\ \A k \in 1..Len(s) : (<<t>> \o s)[k + 1] = s[k]
  BY FrontIs
<1> DEFINE q == <<t>> \o s
<1> HIDE DEF q
<1>2. /\ DOMAIN q = 1..(Len(s) + 1) /\ q[1] = t
      /\ \A k \in 1..Len(s) : q[k + 1] = s[k]
      /\ DOMAIN s = 1..Len(s) /\ Len(s) \in Nat
  BY <1>1, LenProperties DEF q
<1>3. \A a \in DOMAIN q : a # 1 => a - 1 \in DOMAIN s /\ q[a] = s[a - 1]
  <2> SUFFICES ASSUME NEW a \in DOMAIN q, a # 1
               PROVE  a - 1 \in DOMAIN s /\ q[a] = s[a - 1]
    OBVIOUS
  <2>1. a - 1 \in 1..Len(s) /\ (a - 1) + 1 = a
    BY <1>2
  <2> QED
    BY <1>2, <2>1
<1>4. ASSUME NEW a \in DOMAIN q PROVE Among(f, m, q[a])
  BY <1>2, <1>3 DEF Ordered
<1>5. ASSUME NEW a \in DOMAIN q, NEW b \in DOMAIN q, a < b PROVE Earlier(f, m, q[a], q[b])
  <2>1. b - 1 \in DOMAIN s /\ q[b] = s[b - 1]
    BY <1>2, <1>3, <1>5
  <2>2. CASE a = 1
    BY <1>2, <2>1, <2>2
  <2>3. CASE a # 1
    <3>1. a - 1 \in DOMAIN s /\ q[a] = s[a - 1] /\ a - 1 < b - 1
      BY <1>2, <1>3, <1>5, <2>3
    <3> QED
      BY <2>1, <3>1 DEF Ordered
  <2> QED
    BY <2>2, <2>3
<1> QED
  BY <1>4, <1>5 DEF Ordered, q

(* The first task, and what is behind it.                                  *)
LEMMA OrderedRest ==
  ASSUME NEW f, NEW m \in Nat, NEW S, NEW s \in Seq(S), s # << >>, Ordered(f, m, s)
  PROVE  /\ Ordered(f, m, Tail(s)) /\ Among(f, m, s[1])
         /\ \A a \in DOMAIN Tail(s) : Earlier(f, m, s[1], Tail(s)[a])
<1> DEFINE q == Tail(s)
<1>1. /\ DOMAIN q = 1..(Len(s) - 1) /\ Len(s) \in Nat \ {0} /\ DOMAIN s = 1..Len(s)
      /\ \A k \in 1..(Len(s) - 1) : q[k] = s[k + 1]
  BY RestIs, LenProperties
<1> HIDE DEF q
<1>2. /\ 1 \in DOMAIN s
      /\ \A a \in DOMAIN q : a \in Int /\ a + 1 \in DOMAIN s /\ 1 < a + 1 /\ q[a] = s[a + 1]
  BY <1>1
<1>3. \A a \in DOMAIN q : Among(f, m, q[a]) /\ Earlier(f, m, s[1], q[a])
  BY <1>2 DEF Ordered
<1>4. ASSUME NEW a \in DOMAIN q, NEW b \in DOMAIN q, a < b PROVE Earlier(f, m, q[a], q[b])
  <2>1. a + 1 < b + 1
    BY <1>2, <1>4
  <2> QED
    BY <1>2, <2>1 DEF Ordered
<1> QED
  BY <1>2, <1>3, <1>4 DEF Ordered, q

(* A task is put into its queue.                                           *)
Pushing(t, q) ==
  /\ novels' = [novels EXCEPT ![PriorityOf[t]] = withNovel(@, NovelOf[t])]
  /\ queue' = [queue EXCEPT ![PriorityOf[t]][NovelOf[t]] = q]

(* Its novel's key is there then, behind the others if it is new.          *)
LEMMA PushingIs ==
  ASSUME TypeOK, NEW t \in Tasks, NEW q \in Seq(Tasks), q # << >>, Pushing(t, q)
  PROVE  /\ novels' \in [Priorities -> Seq(Novels)]
         /\ queue' \in [Priorities -> [Novels -> Seq(Tasks)]]
         /\ queue'[PriorityOf[t]][NovelOf[t]] = q
         /\ \A p \in Priorities, n \in Novels :
              p # PriorityOf[t] \/ n # NovelOf[t] => queue'[p][n] = queue[p][n]
         /\ \A p \in Priorities : p # PriorityOf[t] => novels'[p] = novels[p]
         /\ \A p \in Priorities :
              /\ IsInjective(novels'[p]) /\ DOMAIN novels[p] \subseteq DOMAIN novels'[p]
              /\ \A a \in DOMAIN novels[p] : novels'[p][a] = novels[p][a]
              /\ \A a \in DOMAIN novels'[p] : a \notin DOMAIN novels[p] =>
                   /\ p = PriorityOf[t] /\ novels'[p][a] = NovelOf[t]
                   /\ \A b \in DOMAIN novels[p] : b < a
              /\ \A n : n \in ToSet(novels'[p]) <=>
                   n \in ToSet(novels[p]) \/ (p = PriorityOf[t] /\ n = NovelOf[t])
         /\ \A p \in Priorities, n \in Novels : n \in ToSet(novels'[p]) <=> queue'[p][n] # << >>
<1> DEFINE P == PriorityOf[t]
           N == NovelOf[t]
           new == withNovel(novels[P], N)
<1>1. /\ P \in Priorities /\ N \in Novels
      /\ novels[P] \in Seq(Novels) /\ IsInjective(novels[P])
  BY Shapes
<1>2. /\ new \in Seq(Novels) /\ IsInjective(new)
      /\ ToSet(new) = ToSet(novels[P]) \cup {N}
      /\ DOMAIN novels[P] \subseteq DOMAIN new
      /\ \A a \in DOMAIN novels[P] : new[a] = novels[P][a]
      /\ \A a \in DOMAIN new : a \notin DOMAIN novels[P] =>
           new[a] = N /\ \A b \in DOMAIN novels[P] : b < a
  BY <1>1, WithNovelIs
<1>3. novels' = [novels EXCEPT ![P] = new] /\ queue' = [queue EXCEPT ![P][N] = q]
  BY DEF Pushing
<1> HIDE DEF P, N, new
<1>4. /\ novels' \in [Priorities -> Seq(Novels)] /\ novels'[P] = new
      /\ \A p \in Priorities : p # P => novels'[p] = novels[p]
  BY <1>1, <1>2, <1>3 DEF TypeOK
<1>5. /\ queue' \in [Priorities -> [Novels -> Seq(Tasks)]] /\ queue'[P][N] = q
      /\ \A p \in Priorities, n \in Novels : p # P \/ n # N => queue'[p][n] = queue[p][n]
  BY <1>1, <1>3 DEF TypeOK
<1>6. ASSUME NEW p \in Priorities
      PROVE  /\ IsInjective(novels'[p]) /\ DOMAIN novels[p] \subseteq DOMAIN novels'[p]
             /\ \A a \in DOMAIN novels[p] : novels'[p][a] = novels[p][a]
             /\ \A a \in DOMAIN novels'[p] : a \notin DOMAIN novels[p] =>
                  /\ p = P /\ novels'[p][a] = N
                  /\ \A b \in DOMAIN novels[p] : b < a
             /\ \A n : n \in ToSet(novels'[p]) <=>
                  n \in ToSet(novels[p]) \/ (p = P /\ n = N)
  BY <1>2, <1>4 DEF TypeOK
<1>7. ASSUME NEW p \in Priorities, NEW n \in Novels
      PROVE  n \in ToSet(novels'[p]) <=> queue'[p][n] # << >>
  <2>1. n \in ToSet(novels[p]) <=> queue[p][n] # << >>
    BY DEF TypeOK
  <2> QED
    BY <1>5, <1>6, <2>1
<1> QED
  BY <1>4, <1>5, <1>6, <1>7 DEF P, N

-----------------------------------------------------------------------------
(* The steps.                                                              *)

(* A queue that has not been filled yet is empty, and nothing is wrong.    *)
LEMMA InitQueue == Init => QueueInv
<1> SUFFICES ASSUME Init PROVE QueueInv
  OBVIOUS
<1>1. fetched \in Seq(Tasks) /\ IsInjective(fetched) /\ Len(fetched) \in Nat
  <2>1. PICK S \in SUBSET Tasks : fetched \in SetToSeqs(S)
    BY DEF Init, Fetches
  <2>2. Cardinality(S) \in Nat
    BY TasksAssumption, FS_Subset, FS_CardinalityType
  <2>3. fetched \in [1..Cardinality(S) -> S] /\ IsInjective(fetched)
    BY <2>1 DEF SetToSeqs, IsInjective
  <2> QED
    BY <2>2, <2>3
<1>2. /\ \A p \in Priorities : novels[p] = << >> /\ DOMAIN novels[p] = {}
      /\ \A p \in Priorities, n \in Novels : queue[p][n] = << >> /\ DOMAIN queue[p][n] = {}
      /\ DOMAIN popped = {} /\ DOMAIN launched = {} /\ held = NoTask /\ pushed = 0 /\ end = "no"
  BY DEF Init
<1>3. TypeOK
  <2>1. /\ novels \in [Priorities -> Seq(Novels)]
        /\ queue \in [Priorities -> [Novels -> Seq(Tasks)]]
        /\ popped \in Seq(Tasks) /\ launched \in Seq(Tasks) /\ saturated \subseteq Sources
    BY DEF Init
  <2>2. held \notin Pending
    BY <1>2 DEF Pending, Waiting, ToSet
  <2>3. ASSUME NEW p \in Priorities, NEW n \in Novels
        PROVE  /\ n \in ToSet(novels[p]) <=> queue[p][n] # << >>
               /\ IsInjective(queue[p][n])
               /\ \A t \in Waiting(p, n) : NovelOf[t] = n /\ PriorityOf[t] = p
    BY <1>2 DEF Waiting, ToSet, IsInjective
  <2>4. \A p \in Priorities : IsInjective(novels[p])
    BY <1>2 DEF IsInjective
  <2> QED
    BY <1>1, <1>2, <2>1, <2>2, <2>3, <2>4 DEF TypeOK
<1>4. Filling /\ Kept
  BY <1>1, <1>2 DEF Init, Filling, Kept
<1>5. Sorted /\ Descending
  BY <1>2 DEF Sorted, Descending, Ordered
<1>6. Ahead /\ Passed /\ NovelsTakeTurns /\ InOrder
  BY <1>2 DEF Ahead, Passed, NovelsTakeTurns, InOrder
<1> QED
  BY <1>3, <1>4, <1>5, <1>6 DEF QueueInv

(* What a push leaves is well typed.                                       *)
LEMMA PushedType ==
  ASSUME TypeOK, NEW t \in Tasks, NEW q \in Seq(Tasks), q # << >>, Pushing(t, q),
         IsInjective(q), \A a \in DOMAIN q : Together(q[a], t),
         held' = NoTask, saturated' \subseteq Sources, end' \in {"no", "null", "full"},
         pushed' \in 0..Len(fetched), UNCHANGED <<fetched, popped, launched>>
  PROVE  TypeOK'
<1> DEFINE P == PriorityOf[t]
           N == NovelOf[t]
<1>1. /\ novels' \in [Priorities -> Seq(Novels)]
      /\ queue' \in [Priorities -> [Novels -> Seq(Tasks)]]
      /\ queue'[P][N] = q
      /\ \A p \in Priorities, n \in Novels : p # P \/ n # N => queue'[p][n] = queue[p][n]
      /\ \A p \in Priorities : IsInjective(novels'[p])
      /\ \A p \in Priorities, n \in Novels : n \in ToSet(novels'[p]) <=> queue'[p][n] # << >>
  BY PushingIs
<1>2. ASSUME NEW p \in Priorities, NEW n \in Novels
      PROVE  /\ IsInjective(queue'[p][n])
             /\ \A a \in DOMAIN queue'[p][n] :
                  /\ queue'[p][n][a] \in Tasks
                  /\ NovelOf[queue'[p][n][a]] = n /\ PriorityOf[queue'[p][n][a]] = p
  <2>1. CASE p = P /\ n = N
    <3>1. \A a \in DOMAIN q : q[a] \in Tasks
      BY LenProperties, ElementOfSeq
    <3> QED
      BY <1>1, <2>1, <3>1 DEF Together
  <2>2. CASE p # P \/ n # N
    <3>1. queue'[p][n] = queue[p][n]
      BY <1>1, <2>2
    <3>2. IsInjective(queue[p][n])
      BY DEF TypeOK
    <3>3. \A a \in DOMAIN queue[p][n] :
            /\ queue[p][n][a] \in Tasks
            /\ NovelOf[queue[p][n][a]] = n /\ PriorityOf[queue[p][n][a]] = p
      BY Shapes
    <3> QED
      BY <3>1, <3>2, <3>3
  <2> QED
    BY <2>1, <2>2
<1>3. \A p \in Priorities, n \in Novels : \A u \in Waiting(p, n)' :
        u \in Tasks /\ NovelOf[u] = n /\ PriorityOf[u] = p
  BY <1>2 DEF Waiting, ToSet
<1>4. (held \notin Pending)'
  <2>1. NoTask \notin Tasks
    BY TasksAssumption
  <2> QED
    BY <1>3, <2>1 DEF Pending
<1>5. /\ fetched' \in Seq(Tasks) /\ pushed' \in 0..Len(fetched')
      /\ popped' \in Seq(Tasks) /\ launched' \in Seq(Tasks)
  BY DEF TypeOK
<1>6. \A p \in Priorities :
        /\ IsInjective(novels'[p])
        /\ \A n \in Novels :
             /\ n \in ToSet(novels'[p]) <=> queue'[p][n] # << >>
             /\ IsInjective(queue'[p][n])
             /\ \A u \in Waiting(p, n)' : NovelOf[u] = n /\ PriorityOf[u] = p
  BY <1>1, <1>2, <1>3
<1> QED
  BY <1>1, <1>4, <1>5, <1>6 DEF TypeOK

(* A task that was fetched is put behind the earlier ones of its novel.    *)
LEMMA PushAllStep == QueueInv /\ PushAll => QueueInv'
<1> SUFFICES ASSUME QueueInv, PushAll PROVE QueueInv'
  OBVIOUS
<1>0. TypeOK /\ Filling /\ Kept /\ Sorted
  BY DEF QueueInv
<1>a. PICK t : t = fetched[pushed + 1]
  OBVIOUS
<1>1. /\ t \in Tasks /\ pushed \in Nat /\ pushed + 1 \in DOMAIN fetched
      /\ pushed < Len(fetched) /\ Len(fetched) \in Nat /\ pushed' = pushed + 1
      /\ DOMAIN fetched = 1..Len(fetched) /\ IsInjective(fetched) /\ t = fetched[pushed + 1]
  BY <1>0, <1>a, Shapes DEF PushAll, Filling
<1>2. /\ held = NoTask /\ held' = NoTask /\ end = "no" /\ end' = "no"
      /\ popped = << >> /\ popped' = popped /\ launched = << >> /\ launched' = launched
      /\ fetched' = fetched /\ saturated' = saturated
      /\ DOMAIN popped' = {} /\ DOMAIN launched' = {}
  BY <1>0, <1>1 DEF PushAll, Filling
<1>b. PICK s : s = queue[PriorityOf[t]][NovelOf[t]]
  OBVIOUS
<1>3. /\ s \in Seq(Tasks) /\ DOMAIN s = 1..Len(s) /\ Len(s) \in Nat
      /\ PriorityOf[t] \in Priorities /\ NovelOf[t] \in Novels
      /\ \A a \in DOMAIN s : Together(s[a], t)
  <2>1. PriorityOf[t] \in Priorities /\ NovelOf[t] \in Novels
    BY <1>0, <1>1, Shapes
  <2> QED
    BY <1>0, <1>b, <2>1, Shapes DEF Together
<1>c. PICK q : q = Append(s, t)
  OBVIOUS
<1>4. Pushing(t, q)
  BY <1>a, <1>b, <1>c, <1>3 DEF PushAll, pushLast, Pushing
<1>5. /\ q \in Seq(Tasks) /\ DOMAIN q = 1..(Len(s) + 1) /\ q[Len(s) + 1] = t
      /\ \A k \in DOMAIN s : q[k] = s[k]
  <2>1. /\ Append(s, t) \in Seq(Tasks) /\ DOMAIN Append(s, t) = 1..(Len(s) + 1)
        /\ Append(s, t)[Len(s) + 1] = t
        /\ \A k \in 1..Len(s) : Append(s, t)[k] = s[k]
    BY <1>1, <1>3, BackIs
  <2> QED
    BY <1>3, <1>c, <2>1
<1>6. q # << >> /\ \A a \in DOMAIN q : a \in DOMAIN s \/ a = Len(s) + 1
  <2>1. Len(s) + 1 \in DOMAIN q
    BY <1>3, <1>5
  <2> QED
    BY <1>3, <1>5, <2>1, EmptySeq
<1>7. /\ queue'[PriorityOf[t]][NovelOf[t]] = q
      /\ \A p \in Priorities, n \in Novels :
           p # PriorityOf[t] \/ n # NovelOf[t] => queue'[p][n] = queue[p][n]
  BY <1>0, <1>1, <1>4, <1>5, <1>6, PushingIs
<1>8. Ordered(fetched, pushed, s)
  BY <1>0, <1>3, <1>b DEF Sorted
<1>9. Ordered(fetched, pushed', q)
  BY <1>1, <1>3, <1>8, <1>c, OrderedBack
<1>10. IsInjective(q)
  <2>1. pushed' \in Nat /\ 1..pushed' \subseteq DOMAIN fetched
    BY <1>1
  <2> QED
    BY <1>1, <1>5, <1>9, <2>1, OnceIn
<1>11. TypeOK'
  <2>1. \A a \in DOMAIN q : Together(q[a], t)
    BY <1>3, <1>5, <1>6 DEF Together
  <2>2. pushed' \in 0..Len(fetched) /\ saturated' \subseteq Sources
    BY <1>0, <1>1, <1>2 DEF TypeOK
  <2> QED
    BY <1>0, <1>1, <1>2, <1>4, <1>5, <1>6, <1>10, <2>1, <2>2, PushedType
<1>12. Filling'
  BY <1>0, <1>1, <1>2 DEF Filling
<1>13. Kept'
  <2>1. ASSUME NEW x \in 1..pushed'
        PROVE  fetched[x] \in Waiting(PriorityOf[fetched[x]], NovelOf[fetched[x]])'
    <3>1. CASE x = pushed + 1
      <4>1. t \in ToSet(q)
        BY <1>3, <1>5 DEF ToSet
      <4> QED
        BY <1>1, <1>2, <1>7, <3>1, <4>1 DEF Waiting
    <3>2. CASE x \in 1..pushed
      <4>1. fetched[x] \in Tasks
        BY <1>0, <1>1, <3>2, Shapes
      <4>2. fetched[x] \in Waiting(PriorityOf[fetched[x]], NovelOf[fetched[x]])
        BY <1>0, <1>2, <3>2 DEF Kept, ToSet
      <4>3. CASE Together(fetched[x], t)
        <5>1. fetched[x] \in ToSet(s)
          BY <1>b, <4>2, <4>3 DEF Waiting, Together
        <5>2. DOMAIN s \subseteq DOMAIN q
          BY <1>3, <1>5
        <5>3. fetched[x] \in ToSet(q)
          BY <1>5, <5>1, <5>2 DEF ToSet
        <5> QED
          BY <1>2, <1>7, <4>3, <5>3 DEF Waiting, Together
      <4>4. CASE ~Together(fetched[x], t)
        <5>1. PriorityOf[fetched[x]] \in Priorities /\ NovelOf[fetched[x]] \in Novels
          BY <1>0, <4>1, Shapes
        <5> QED
          BY <1>2, <1>7, <4>2, <4>4, <5>1 DEF Waiting, Together
      <4> QED
        BY <4>3, <4>4
    <3> QED
      BY <1>1, <3>1, <3>2
  <2> QED
    BY <1>2, <2>1 DEF Kept
<1>14. Sorted'
  <2>1. ASSUME NEW p \in Priorities, NEW n \in Novels
        PROVE  Ordered(fetched, pushed', queue'[p][n])
    <3>1. CASE p = PriorityOf[t] /\ n = NovelOf[t]
      BY <1>7, <1>9, <3>1
    <3>2. CASE p # PriorityOf[t] \/ n # NovelOf[t]
      <4>1. Ordered(fetched, pushed, queue[p][n])
        BY <1>0 DEF Sorted
      <4> QED
        BY <1>1, <1>7, <3>2, <4>1, OrderedOn
    <3> QED
      BY <3>1, <3>2
  <2> QED
    BY <1>2, <2>1 DEF Sorted
<1>15. (Descending /\ Ahead /\ Passed /\ NovelsTakeTurns /\ InOrder)'
  BY <1>2 DEF Descending, Ahead, Passed, NovelsTakeTurns, InOrder
<1> QED
  BY <1>11, <1>12, <1>13, <1>14, <1>15 DEF QueueInv

(* A task that is dropped was popped, and is in nobody's way.              *)
LEMMA SkipActiveStep == QueueInv /\ SkipActive => QueueInv'
<1> SUFFICES ASSUME QueueInv, SkipActive PROVE QueueInv'
  OBVIOUS
<1>0. TypeOK /\ Filling /\ Kept /\ Sorted /\ Descending /\ Ahead /\ Passed /\ NovelsTakeTurns /\ InOrder
  BY DEF QueueInv
<1>1. /\ held # NoTask /\ held' = NoTask /\ end = "no" /\ end' = end
      /\ fetched' = fetched /\ pushed' = pushed /\ novels' = novels /\ queue' = queue
      /\ saturated' = saturated /\ popped' = popped /\ launched' = launched
  BY <1>0 DEF SkipActive, Filling
<1>2. TypeOK'
  <2>1. \A p \in Priorities, n \in Novels : NoTask \notin Waiting(p, n)
    BY <1>0, Shapes, TasksAssumption DEF Waiting, ToSet
  <2>2. NoTask \notin Pending'
    BY <1>1, <2>1 DEF Pending, Waiting
  <2> QED
    BY <1>0, <1>1, <2>2 DEF TypeOK, Waiting
<1>3. Filling' /\ Kept' /\ Sorted'
  BY <1>0, <1>1 DEF Filling, Kept, Sorted, Waiting, Before, Behind
<1>4. Descending' /\ Ahead'
  BY <1>0, <1>1 DEF Descending, Exhausted, Eligible, Ahead, InFront, Unserved
<1>5. Passed' /\ NovelsTakeTurns' /\ InOrder'
  BY <1>0, <1>1 DEF Passed, ToServe, Unserved, NovelsTakeTurns, InOrder
<1> QED
  BY <1>2, <1>3, <1>4, <1>5 DEF QueueInv

(* A task that is launched is not before one launched earlier.             *)
LEMMA LaunchStep == QueueInv /\ Launch => QueueInv'
<1> SUFFICES ASSUME QueueInv, Launch PROVE QueueInv'
  OBVIOUS
<1>0. TypeOK /\ Filling /\ Kept /\ Sorted /\ Descending /\ Ahead /\ Passed /\ NovelsTakeTurns /\ InOrder
  BY DEF QueueInv
<1>1. /\ held # NoTask /\ held' = NoTask /\ end = "no" /\ end' = end /\ held \in Tasks
      /\ fetched' = fetched /\ pushed' = pushed /\ novels' = novels /\ queue' = queue
      /\ saturated' = saturated /\ popped' = popped /\ launched' = Append(launched, held)
  BY <1>0 DEF Launch, Filling, TypeOK
<1>2. /\ launched' \in Seq(Tasks) /\ DOMAIN launched' = 1..(Len(launched) + 1)
      /\ launched'[Len(launched) + 1] = held
      /\ \A k \in DOMAIN launched : launched'[k] = launched[k]
      /\ DOMAIN launched = 1..Len(launched) /\ Len(launched) \in Nat
  <2>1. launched \in Seq(Tasks)
    BY <1>0 DEF TypeOK
  <2>2. /\ Append(launched, held) \in Seq(Tasks)
        /\ DOMAIN Append(launched, held) = 1..(Len(launched) + 1)
        /\ Append(launched, held)[Len(launched) + 1] = held
        /\ \A k \in 1..Len(launched) : Append(launched, held)[k] = launched[k]
    BY <1>1, <2>1, BackIs
  <2> QED
    BY <1>1, <2>1, <2>2, LenProperties
<1>3. \A i \in DOMAIN launched' : i \in DOMAIN launched \/ i = Len(launched) + 1
  BY <1>2
<1>4. TypeOK'
  <2>1. \A p \in Priorities, n \in Novels : NoTask \notin Waiting(p, n)
    BY <1>0, Shapes, TasksAssumption DEF Waiting, ToSet
  <2>2. NoTask \notin Pending'
    BY <1>1, <2>1 DEF Pending, Waiting
  <2> QED
    BY <1>0, <1>1, <1>2, <2>2 DEF TypeOK, Waiting
<1>5. Filling'
  BY <1>0, <1>1 DEF Filling
<1>6. Kept'
  BY <1>0, <1>1 DEF Kept, Waiting
<1>7. Sorted'
  <2>1. ASSUME NEW i \in DOMAIN launched', NEW a \in DOMAIN Behind(launched'[i])
        PROVE  Before(launched'[i], Behind(launched'[i])[a])
    BY <1>0, <1>1, <1>2, <1>3, <2>1 DEF Sorted
  <2> QED
    BY <1>0, <1>1, <2>1 DEF Sorted, Before, Behind
<1>8. Descending'
  <2>1. \A i \in DOMAIN launched' : Exhausted(PriorityOf[launched'[i]])
    BY <1>0, <1>1, <1>2, <1>3 DEF Descending
  <2> QED
    BY <1>1, <2>1 DEF Descending, Exhausted, Eligible
<1>9. Ahead' /\ Passed' /\ NovelsTakeTurns'
  BY <1>0, <1>1 DEF Ahead, InFront, Unserved, Passed, ToServe, NovelsTakeTurns
<1>10. InOrder'
  <2>1. ASSUME NEW i \in DOMAIN launched', NEW j \in DOMAIN launched', i < j
        PROVE  /\ PriorityOf[launched'[i]] >= PriorityOf[launched'[j]]
               /\ (/\ NovelOf[launched'[i]] = NovelOf[launched'[j]]
                   /\ PriorityOf[launched'[i]] = PriorityOf[launched'[j]])
                  => \E a, b \in DOMAIN fetched :
                       a < b /\ fetched[a] = launched'[i] /\ fetched[b] = launched'[j]
    <3>1. i \in DOMAIN launched /\ launched'[i] = launched[i]
      BY <1>2, <1>3, <2>1
    <3>2. CASE j \in DOMAIN launched
      BY <1>0, <1>2, <2>1, <3>1, <3>2 DEF InOrder
    <3>3. CASE j = Len(launched) + 1
      <4>1. launched'[j] = held
        BY <1>2, <3>3
      <4>2. PriorityOf[launched[i]] >= PriorityOf[held]
        BY <1>0, <1>1, <3>1 DEF Descending
      <4>3. Together(launched[i], held) => Before(launched[i], held)
        BY <1>0, <1>1, <3>1 DEF Sorted
      <4>4. 1..pushed \subseteq DOMAIN fetched
        <5>1. pushed \in 0..Len(fetched) /\ DOMAIN fetched = 1..Len(fetched) /\ Len(fetched) \in Nat
          BY <1>0, Shapes DEF TypeOK
        <5> QED
          BY <5>1
      <4>5. Before(launched[i], held) =>
              \E a, b \in DOMAIN fetched :
                a < b /\ fetched[a] = launched[i] /\ fetched[b] = held
        BY <4>4 DEF Before, Earlier
      <4> QED
        BY <3>1, <4>1, <4>2, <4>3, <4>5 DEF Together
    <3> QED
      BY <1>3, <3>2, <3>3
  <2> QED
    BY <1>1, <2>1 DEF InOrder
<1> QED
  BY <1>4, <1>5, <1>6, <1>7, <1>8, <1>9, <1>10 DEF QueueInv

(* The loop ends with null: nothing eligible is left behind.               *)
LEMMA PopNullStep == QueueInv /\ PopNull => QueueInv'
<1> SUFFICES ASSUME QueueInv, PopNull PROVE QueueInv'
  OBVIOUS
<1>0. TypeOK /\ Filling /\ Kept /\ Sorted /\ Descending /\ Ahead /\ Passed /\ NovelsTakeTurns /\ InOrder
  BY DEF QueueInv
<1>1. /\ held = NoTask /\ held' = NoTask /\ end' = "null" /\ pushed = Len(fetched)
      /\ fetched' = fetched /\ pushed' = pushed /\ novels' = novels /\ queue' = queue
      /\ saturated' = saturated /\ popped' = popped /\ launched' = launched
  BY DEF PopNull, Filled
<1>2. \A p \in Priorities : \A i \in DOMAIN novels[p] : ~Eligible(p, i)
  BY <1>0, NullMeansNone DEF PopNull
<1>3. TypeOK'
  BY <1>0, <1>1 DEF TypeOK, Waiting, Pending
<1>4. Filling'
  <2>1. Len(fetched) \in Nat
    BY <1>0, Shapes
  <2> QED
    BY <1>0, <1>1, <2>1 DEF Filling
<1>5. Kept'
  BY <1>0, <1>1, <1>2 DEF Kept, Waiting, Eligible
<1>6. Sorted' /\ Descending'
  BY <1>0, <1>1 DEF Sorted, Before, Behind, Descending, Exhausted, Eligible
<1>7. Ahead' /\ Passed'
  BY <1>0, <1>1 DEF Ahead, InFront, Unserved, Passed, ToServe
<1>8. NovelsTakeTurns' /\ InOrder'
  BY <1>0, <1>1 DEF NovelsTakeTurns, InOrder
<1> QED
  BY <1>3, <1>4, <1>5, <1>6, <1>7, <1>8 DEF QueueInv

(* A task that finds no room goes back before the others of its novel.     *)
(* Its novel may come last among the keys, but it was served last too.     *)
LEMMA PushBackStep ==
  ASSUME QueueInv, held # NoTask, pushFirst(held), held' = NoTask,
         UNCHANGED <<fetched, pushed, popped, launched>>,
         saturated \subseteq saturated', saturated' \subseteq Sources,
         end' \in {end, "full"}
  PROVE  QueueInv'
<1>0. TypeOK /\ Filling /\ Kept /\ Sorted /\ Descending /\ Ahead /\ Passed /\ NovelsTakeTurns /\ InOrder
  BY DEF QueueInv
<1>a. PICK t : t = held
  OBVIOUS
<1>1. /\ t = held /\ held # NoTask /\ held' = NoTask /\ end = "no" /\ t \in Tasks
      /\ end' \in {"no", "full"} /\ pushed = Len(fetched) /\ pushed \in Nat
      /\ fetched' = fetched /\ pushed' = pushed /\ popped' = popped /\ launched' = launched
      /\ PriorityOf[t] \in Priorities /\ NovelOf[t] \in Novels
  <2>1. /\ end = "no" /\ t \in Tasks /\ ~(pushed < Len(fetched)) /\ Len(fetched) \in Nat
        /\ pushed \in 0..Len(fetched)
    BY <1>0, <1>a, Shapes DEF Filling, TypeOK
  <2>2. PriorityOf[t] \in Priorities /\ NovelOf[t] \in Novels
    BY <1>0, <2>1, Shapes
  <2> QED
    BY <1>a, <2>1, <2>2
<1>b. PICK s : s = queue[PriorityOf[t]][NovelOf[t]]
  OBVIOUS
<1>2. /\ s \in Seq(Tasks) /\ DOMAIN s = 1..Len(s) /\ Len(s) \in Nat
      /\ \A a \in DOMAIN s : Together(s[a], t)
      /\ Ordered(fetched, pushed, s) /\ Among(fetched, pushed, t)
      /\ \A a \in DOMAIN s : Earlier(fetched, pushed, t, s[a])
  <2>1. s \in Seq(Tasks) /\ DOMAIN s = 1..Len(s) /\ Len(s) \in Nat
    BY <1>0, <1>1, <1>b, Shapes
  <2>2. \A a \in DOMAIN s : Together(s[a], t)
    BY <1>0, <1>1, <1>b, Shapes DEF Together
  <2>3. /\ Ordered(fetched, pushed, s) /\ Among(fetched, pushed, t)
        /\ \A a \in DOMAIN s : Earlier(fetched, pushed, t, s[a])
    BY <1>0, <1>1, <1>b DEF Sorted, Before, Behind
  <2> QED
    BY <2>1, <2>2, <2>3
<1>c. PICK q : q = <<t>> \o s
  OBVIOUS
<1>3. Pushing(t, q)
  BY <1>1, <1>b, <1>c DEF pushFirst, Pushing
<1>4. /\ q \in Seq(Tasks) /\ DOMAIN q = 1..(Len(s) + 1) /\ q[1] = t
      /\ \A k \in DOMAIN s : q[k + 1] = s[k]
      /\ \A a \in DOMAIN q : a = 1 \/ (a - 1 \in DOMAIN s /\ q[a] = s[a - 1])
  <2>1. /\ <<t>> \o s \in Seq(Tasks) /\ DOMAIN (<<t>> \o s) = 1..(Len(s) + 1)
        /\ (<<t>> \o s)[1] = t /\ \A k \in 1..Len(s) : (<<t>> \o s)[k + 1] = s[k]
    BY <1>1, <1>2, FrontIs
  <2>2. /\ q \in Seq(Tasks) /\ DOMAIN q = 1..(Len(s) + 1) /\ q[1] = t
        /\ \A k \in DOMAIN s : q[k + 1] = s[k]
    BY <1>2, <1>c, <2>1
  <2>3. ASSUME NEW a \in DOMAIN q, a # 1 PROVE a - 1 \in DOMAIN s /\ q[a] = s[a - 1]
    <3>1. a - 1 \in DOMAIN s /\ (a - 1) + 1 = a
      BY <1>2, <2>2, <2>3
    <3> QED
      BY <2>2, <3>1
  <2> QED
    BY <2>2, <2>3
<1>5. Ordered(fetched, pushed, q)
  BY <1>1, <1>2, <1>c, OrderedFront
<1>6. IsInjective(q) /\ q # << >>
  <2>1. 1..pushed \subseteq DOMAIN fetched /\ IsInjective(fetched)
    BY <1>0, <1>1, Shapes DEF Filling
  <2>2. IsInjective(q)
    BY <1>1, <1>4, <1>5, <2>1, OnceIn
  <2>3. 1 \in DOMAIN q
    BY <1>2, <1>4
  <2> QED
    BY <1>4, <2>2, <2>3, EmptySeq
<1>7. /\ queue'[PriorityOf[t]][NovelOf[t]] = q
      /\ \A p \in Priorities, n \in Novels :
           p # PriorityOf[t] \/ n # NovelOf[t] => queue'[p][n] = queue[p][n]
      /\ \A p \in Priorities : p # PriorityOf[t] => novels'[p] = novels[p]
      /\ \A p \in Priorities :
           /\ DOMAIN novels[p] \subseteq DOMAIN novels'[p]
           /\ \A a \in DOMAIN novels[p] : novels'[p][a] = novels[p][a]
           /\ \A a \in DOMAIN novels'[p] : a \notin DOMAIN novels[p] =>
                /\ p = PriorityOf[t] /\ novels'[p][a] = NovelOf[t]
                /\ \A b \in DOMAIN novels[p] : b < a
           /\ \A n : n \in ToSet(novels'[p]) <=>
                n \in ToSet(novels[p]) \/ (p = PriorityOf[t] /\ n = NovelOf[t])
  BY <1>0, <1>1, <1>3, <1>4, <1>6, PushingIs
<1>8. TypeOK'
  <2>1. \A a \in DOMAIN q : Together(q[a], t)
    BY <1>2, <1>4 DEF Together
  <2>2. pushed' \in 0..Len(fetched) /\ end' \in {"no", "null", "full"}
    BY <1>0, <1>1 DEF TypeOK
  <2> QED
    BY <1>0, <1>1, <1>3, <1>4, <1>6, <2>1, <2>2, PushedType
<1>9. Filling'
  BY <1>0, <1>1 DEF Filling
<1>10. Kept'
  <2>1. ASSUME NEW x \in 1..pushed
        PROVE  \/ fetched[x] \in ToSet(queue'[PriorityOf[fetched[x]]][NovelOf[fetched[x]]])
               \/ fetched[x] \in ToSet(popped)
    <3>0. /\ fetched[x] \in Tasks /\ PriorityOf[fetched[x]] \in Priorities
          /\ NovelOf[fetched[x]] \in Novels
      <4>1. x \in DOMAIN fetched
        BY <1>0, <1>1, Shapes
      <4>2. fetched[x] \in Tasks
        BY <1>0, <4>1, Shapes
      <4> QED
        BY <1>0, <4>2, Shapes
    <3>1. \/ fetched[x] \in ToSet(queue[PriorityOf[fetched[x]]][NovelOf[fetched[x]]])
          \/ fetched[x] \in ToSet(popped)
      BY <1>0 DEF Kept, Waiting
    <3>2. ToSet(s) \subseteq ToSet(q)
      <4>1. \A k \in DOMAIN s : k + 1 \in DOMAIN q
        BY <1>2, <1>4
      <4> QED
        BY <1>4, <4>1 DEF ToSet
    <3>3. CASE Together(fetched[x], t)
      BY <1>7, <1>b, <3>1, <3>2, <3>3 DEF Together
    <3>4. CASE ~Together(fetched[x], t)
      BY <1>7, <3>0, <3>1, <3>4 DEF Together
    <3> QED
      BY <3>3, <3>4
  <2> QED
    BY <1>1, <2>1 DEF Kept, Waiting
<1>11. Sorted'
  <2>1. ASSUME NEW p \in Priorities, NEW n \in Novels
        PROVE  Ordered(fetched, pushed, queue'[p][n])
    <3>1. Ordered(fetched, pushed, queue[p][n])
      BY <1>0 DEF Sorted
    <3> QED
      BY <1>5, <1>7, <3>1
  <2>2. ASSUME NEW i \in DOMAIN launched,
               NEW a \in DOMAIN queue'[PriorityOf[launched[i]]][NovelOf[launched[i]]]
        PROVE  Earlier(fetched, pushed, launched[i],
                       queue'[PriorityOf[launched[i]]][NovelOf[launched[i]]][a])
    <3>0. /\ launched[i] \in Tasks /\ PriorityOf[launched[i]] \in Priorities
          /\ NovelOf[launched[i]] \in Novels
      <4>1. launched[i] \in Tasks
        BY <1>0, Shapes
      <4> QED
        BY <1>0, <4>1, Shapes
    <3>1. /\ \A k \in DOMAIN queue[PriorityOf[launched[i]]][NovelOf[launched[i]]] :
               Earlier(fetched, pushed, launched[i],
                       queue[PriorityOf[launched[i]]][NovelOf[launched[i]]][k])
          /\ Together(launched[i], t) => Earlier(fetched, pushed, launched[i], t)
      BY <1>0, <1>1 DEF Sorted, Before, Behind
    <3>2. CASE Together(launched[i], t)
      <4>1. queue'[PriorityOf[launched[i]]][NovelOf[launched[i]]] = q
            /\ queue[PriorityOf[launched[i]]][NovelOf[launched[i]]] = s
        BY <1>7, <1>b, <3>2 DEF Together
      <4> QED
        BY <1>4, <2>2, <3>1, <3>2, <4>1
    <3>3. CASE ~Together(launched[i], t)
      <4>1. queue'[PriorityOf[launched[i]]][NovelOf[launched[i]]]
              = queue[PriorityOf[launched[i]]][NovelOf[launched[i]]]
        BY <1>7, <3>0, <3>3 DEF Together
      <4> QED
        BY <2>2, <3>1, <4>1
    <3> QED
      BY <3>2, <3>3
  <2> QED
    BY <1>1, <2>1, <2>2 DEF Sorted, Before, Behind
<1>12. Descending'
  <2>1. ASSUME NEW i \in DOMAIN launched, NEW r \in Priorities, r > PriorityOf[launched[i]],
               NEW j \in DOMAIN novels'[r]
        PROVE  ~Eligible(r, j)'
    <3>1. r # PriorityOf[t] /\ r > PriorityOf[launched[i]]
      <4>1. PriorityOf[launched[i]] >= PriorityOf[t]
        BY <1>0, <1>1 DEF Descending
      <4>2. PriorityOf[launched[i]] \in Int /\ PriorityOf[t] \in Int
        <5>1. launched[i] \in Tasks
          BY <1>0, Shapes
        <5> QED
          BY <1>0, <1>1, <5>1, Shapes
      <4> QED
        BY <2>1, <4>1, <4>2
    <3>2. novels'[r] = novels[r] /\ queue'[r][novels[r][j]] = queue[r][novels[r][j]]
      <4>1. novels'[r] = novels[r]
        BY <1>7, <3>1
      <4>2. novels[r][j] \in Novels
        BY <1>0, <2>1, <4>1, Shapes
      <4> QED
        BY <1>7, <3>1, <4>1, <4>2
    <3>3. ~Eligible(r, j)
      BY <1>0, <2>1, <3>1, <3>2 DEF Descending, Exhausted
    <3> QED
      BY <3>2, <3>3 DEF Eligible
  <2> QED
    BY <1>1, <2>1 DEF Descending, Exhausted
<1>13. Ahead'
  <2>1. ASSUME NEW i \in DOMAIN popped, NEW p, p = PriorityOf[popped[i]],
               NEW a \in DOMAIN novels'[p], NEW b \in DOMAIN novels'[p],
               novels'[p][b] = NovelOf[popped[i]], novels'[p][a] # NovelOf[popped[i]],
               Unserved(popped, novels'[p][a], i, Len(popped))
        PROVE  a < b
    <3>1. p \in Priorities
      <4>1. popped[i] \in Tasks
        BY <1>0, Shapes
      <4> QED
        BY <1>0, <2>1, <4>1, Shapes
    <3>2. a \in DOMAIN novels[p]
      <4>1. /\ popped[Len(popped)] = t /\ Len(popped) \in i..Len(popped)
        BY <1>0, <1>1, Shapes DEF Kept
      <4>2. novels'[p][a] # NovelOf[t]
        BY <2>1, <4>1 DEF Unserved
      <4> QED
        BY <1>7, <2>1, <3>1, <4>2
    <3>3. novels'[p][a] = novels[p][a]
      BY <1>7, <3>1, <3>2
    <3>4. CASE b \in DOMAIN novels[p]
      <4>1. novels'[p][b] = novels[p][b]
        BY <1>7, <3>1, <3>4
      <4>2. InFront(novels[p], popped, NovelOf[popped[i]], i)
        BY <1>0, <2>1 DEF Ahead
      <4> QED
        BY <2>1, <3>2, <3>3, <3>4, <4>1, <4>2 DEF InFront
    <3>5. CASE b \notin DOMAIN novels[p]
      BY <1>7, <2>1, <3>1, <3>2, <3>5
    <3> QED
      BY <3>4, <3>5
  <2> QED
    BY <1>1, <2>1 DEF Ahead, InFront, Unserved
<1>14. Passed'
  <2>1. ASSUME NEW i \in DOMAIN popped, NEW n \in Novels, ToServe(PriorityOf[popped[i]], n)'
        PROVE  ToServe(PriorityOf[popped[i]], n)
    <3>1. PriorityOf[popped[i]] \in Priorities
      <4>1. popped[i] \in Tasks
        BY <1>0, Shapes
      <4> QED
        BY <1>0, <4>1, Shapes
    <3> QED
      BY <1>1, <1>7, <2>1, <3>1 DEF ToServe
  <2>2. ASSUME NEW i \in DOMAIN popped, NEW j \in DOMAIN popped, NEW n \in Novels,
               i < j, Together(popped[i], popped[j]), NovelOf[popped[i]] # n,
               ToServe(PriorityOf[popped[i]], n)', Unserved(popped, n, i, j)
        PROVE  SourceOf[n] \in saturated'
    BY <1>0, <2>1, <2>2 DEF Passed
  <2> QED
    BY <1>1, <2>2 DEF Passed, Unserved
<1>15. NovelsTakeTurns' /\ InOrder'
  BY <1>0, <1>1 DEF NovelsTakeTurns, InOrder
<1> QED
  BY <1>8, <1>9, <1>10, <1>11, <1>12, <1>13, <1>14, <1>15 DEF QueueInv

(* The first eligible novel gives its first task and goes to the end.      *)
(* Those that were before it have nothing to give or are saturated.        *)
LEMMA PopStep == QueueInv /\ Pop => QueueInv'
<1> SUFFICES ASSUME QueueInv, Pop PROVE QueueInv'
  OBVIOUS
<1>0. TypeOK /\ Filling /\ Kept /\ Sorted /\ Descending /\ Ahead /\ Passed /\ NovelsTakeTurns /\ InOrder
  BY DEF QueueInv
<1>1. /\ pushed = Len(fetched) /\ end = "no" /\ end' = end /\ held = NoTask
      /\ fetched' = fetched /\ pushed' = pushed /\ saturated' = saturated
      /\ launched' = launched /\ popped' = Append(popped, held')
  BY DEF Pop, Filled
<1>p. PICK p \in Priorities : \E i \in DOMAIN novels[p] :
        /\ Selected(p, i)
        /\ held' = Head(queue[p][novels[p][i]])
        /\ queue' = [queue EXCEPT ![p][novels[p][i]] = Tail(queue[p][novels[p][i]])]
        /\ novels' = [novels EXCEPT ![p] = served(novels[p], i, Tail(queue[p][novels[p][i]]))]
  BY DEF Pop
<1>2. PICK i \in DOMAIN novels[p] :
        /\ Selected(p, i)
        /\ held' = Head(queue[p][novels[p][i]])
        /\ queue' = [queue EXCEPT ![p][novels[p][i]] = Tail(queue[p][novels[p][i]])]
        /\ novels' = [novels EXCEPT ![p] = served(novels[p], i, Tail(queue[p][novels[p][i]]))]
  BY <1>p
<1>a. PICK order : order = novels[p]
  OBVIOUS
<1>b. PICK n : n = order[i]
  OBVIOUS
<1>c. PICK s : s = queue[p][n]
  OBVIOUS
<1>d. PICK r : r = Tail(s)
  OBVIOUS
<1>e. PICK new : new = served(order, i, r)
  OBVIOUS
<1>3. /\ Eligible(p, i) /\ Exhausted(p) /\ \A j \in 1..i-1 : ~Eligible(p, j)
      /\ s # << >> /\ SourceOf[n] \notin saturated
  <2>1. Eligible(p, i) /\ (\A j \in 1..i-1 : ~Eligible(p, j)) /\ Exhausted(p)
    BY <1>2 DEF Selected, Exhausted
  <2>2. s # << >> /\ SourceOf[n] \notin saturated
    BY <2>1, <1>a, <1>b, <1>c DEF Eligible
  <2> QED
    BY <2>1, <2>2
<1>4. /\ order \in Seq(Novels) /\ IsInjective(order) /\ i \in DOMAIN order
      /\ DOMAIN order = 1..Len(order) /\ Len(order) \in Nat /\ n \in Novels /\ n = order[i]
      /\ s \in Seq(Tasks) /\ DOMAIN s = 1..Len(s) /\ Len(s) \in Nat
      /\ \A a \in DOMAIN s : s[a] \in Tasks /\ NovelOf[s[a]] = n /\ PriorityOf[s[a]] = p
  <2>1. /\ order \in Seq(Novels) /\ IsInjective(order) /\ i \in DOMAIN order
        /\ DOMAIN order = 1..Len(order) /\ Len(order) \in Nat /\ n \in Novels
    BY <1>0, <1>a, <1>b, Shapes
  <2>2. /\ s \in Seq(Tasks) /\ DOMAIN s = 1..Len(s) /\ Len(s) \in Nat
        /\ \A a \in DOMAIN s : s[a] \in Tasks /\ NovelOf[s[a]] = n /\ PriorityOf[s[a]] = p
    BY <1>0, <1>c, <2>1, Shapes
  <2> QED
    BY <1>b, <2>1, <2>2
<1>5. /\ r \in Seq(Tasks) /\ 1 \in DOMAIN s /\ Head(s) = s[1]
      /\ \A a \in DOMAIN r : a + 1 \in DOMAIN s /\ r[a] = s[a + 1]
      /\ \A b \in DOMAIN s : b = 1 \/ (b - 1 \in DOMAIN r /\ r[b - 1] = s[b])
  <2>1. /\ Head(s) = s[1] /\ Len(s) \in Nat \ {0} /\ r \in Seq(Tasks)
        /\ DOMAIN r = 1..(Len(s) - 1) /\ \A k \in 1..(Len(s) - 1) : r[k] = s[k + 1]
    BY <1>3, <1>4, <1>d, RestIs
  <2>2. ASSUME NEW b \in DOMAIN s, b # 1 PROVE b - 1 \in DOMAIN r /\ r[b - 1] = s[b]
    <3>1. b - 1 \in DOMAIN r /\ (b - 1) + 1 = b
      BY <1>4, <2>1, <2>2
    <3> QED
      BY <2>1, <3>1
  <2>3. ASSUME NEW a \in DOMAIN r PROVE a + 1 \in DOMAIN s /\ r[a] = s[a + 1]
    BY <1>4, <2>1
  <2> QED
    BY <1>4, <2>1, <2>2, <2>3
<1>f. PICK t : t = s[1]
  OBVIOUS
<1>6. /\ t \in Tasks /\ NovelOf[t] = n /\ PriorityOf[t] = p /\ held' = t /\ t # NoTask
      /\ Ordered(fetched, pushed, r) /\ Among(fetched, pushed, t)
      /\ \A a \in DOMAIN r : Earlier(fetched, pushed, t, r[a])
      /\ IsInjective(r) /\ t \notin ToSet(r) /\ Ordered(fetched, pushed, s)
  <2>1. t \in Tasks /\ NovelOf[t] = n /\ PriorityOf[t] = p
    BY <1>4, <1>5, <1>f
  <2>2. held' = t
    BY <1>2, <1>5, <1>a, <1>b, <1>c, <1>f
  <2>3. Ordered(fetched, pushed, s)
    BY <1>0, <1>4, <1>c DEF Sorted
  <2>4. pushed \in Nat /\ 1..pushed \subseteq DOMAIN fetched /\ IsInjective(fetched)
    BY <1>0, <1>1, Shapes DEF Filling
  <2>5. /\ Ordered(fetched, pushed, Tail(s)) /\ Among(fetched, pushed, s[1])
        /\ \A a \in DOMAIN Tail(s) : Earlier(fetched, pushed, s[1], Tail(s)[a])
    BY <1>3, <1>4, <2>3, <2>4, OrderedRest
  <2>6. /\ Ordered(fetched, pushed, r) /\ Among(fetched, pushed, t)
        /\ \A a \in DOMAIN r : Earlier(fetched, pushed, t, r[a])
    BY <2>5, <1>d, <1>f
  <2>7. IsInjective(r)
    BY <1>5, <2>4, <2>6, OnceIn
  <2>8. t \notin ToSet(r)
    <3>1. \A a \in DOMAIN r : r[a] # t
      <4>1. \A a, b \in DOMAIN s : a < b => s[a] # s[b]
        BY <1>4, <2>3, <2>4, OnceIn
      <4>2. \A a \in DOMAIN r : a + 1 \in DOMAIN s /\ 1 < a + 1
        <5>1. DOMAIN r = 1..Len(r) /\ Len(r) \in Nat
          BY <1>5, LenProperties
        <5> QED
          BY <1>5, <5>1
      <4> QED
        BY <1>5, <1>f, <4>1, <4>2
    <3> QED
      BY <3>1 DEF ToSet
  <2> QED
    BY <2>1, <2>2, <2>3, <2>6, <2>7, <2>8, TasksAssumption
<1>7. Served(order, i, r, new)
  BY <1>4, <1>e, ServedIs
<1>8. /\ novels' \in [Priorities -> Seq(Novels)] /\ novels'[p] = new
      /\ \A x \in Priorities : x # p => novels'[x] = novels[x]
  <2>1. novels' = [novels EXCEPT ![p] = new] /\ new \in Seq(Novels)
    BY <1>2, <1>7, <1>a, <1>b, <1>c, <1>d, <1>e DEF Served
  <2> QED
    BY <1>0, <2>1 DEF TypeOK
<1>9. /\ queue' \in [Priorities -> [Novels -> Seq(Tasks)]] /\ queue'[p][n] = r
      /\ \A x \in Priorities, y \in Novels : x # p \/ y # n => queue'[x][y] = queue[x][y]
  <2>1. queue' = [queue EXCEPT ![p][n] = r] /\ r \in Seq(Tasks)
    BY <1>2, <1>5, <1>a, <1>b, <1>c, <1>d
  <2> QED
    BY <1>0, <1>4, <2>1 DEF TypeOK
<1>10. /\ popped' \in Seq(Tasks) /\ DOMAIN popped' = 1..(Len(popped) + 1)
       /\ Len(popped') = Len(popped) + 1 /\ popped'[Len(popped) + 1] = t
       /\ \A k \in DOMAIN popped : popped'[k] = popped[k]
       /\ DOMAIN popped = 1..Len(popped) /\ Len(popped) \in Nat
       /\ \A k \in DOMAIN popped' : k \in DOMAIN popped \/ k = Len(popped) + 1
  <2>1. popped \in Seq(Tasks) /\ DOMAIN popped = 1..Len(popped) /\ Len(popped) \in Nat
    BY <1>0, LenProperties DEF TypeOK
  <2>2. /\ Append(popped, t) \in Seq(Tasks)
        /\ DOMAIN Append(popped, t) = 1..(Len(popped) + 1)
        /\ Append(popped, t)[Len(popped) + 1] = t
        /\ \A k \in 1..Len(popped) : Append(popped, t)[k] = popped[k]
    BY <1>6, <2>1, BackIs
  <2>3. /\ popped' \in Seq(Tasks) /\ DOMAIN popped' = 1..(Len(popped) + 1)
        /\ popped'[Len(popped) + 1] = t
        /\ \A k \in DOMAIN popped : popped'[k] = popped[k]
    BY <1>1, <1>6, <2>1, <2>2
  <2>4. Len(popped') = Len(popped) + 1
    BY <2>1, <2>3, LenProperties
  <2>5. \A k \in DOMAIN popped' : k \in DOMAIN popped \/ k = Len(popped) + 1
    BY <2>1, <2>3
  <2> QED
    BY <2>1, <2>3, <2>4, <2>5
<1>11. \A x \in Priorities, y \in Novels :
         /\ y \in ToSet(novels'[x]) => y \in ToSet(novels[x])
         /\ y \in ToSet(novels'[x]) <=> queue'[x][y] # << >>
         /\ IsInjective(novels'[x])
  <2> SUFFICES ASSUME NEW x \in Priorities, NEW y \in Novels
               PROVE  /\ y \in ToSet(novels'[x]) => y \in ToSet(novels[x])
                      /\ y \in ToSet(novels'[x]) <=> queue'[x][y] # << >>
                      /\ IsInjective(novels'[x])
    OBVIOUS
  <2>1. IsInjective(novels[x]) /\ (y \in ToSet(novels[x]) <=> queue[x][y] # << >>)
    BY <1>0 DEF TypeOK
  <2>2. CASE x # p
    BY <1>8, <1>9, <2>1, <2>2
  <2>3. CASE x = p /\ y # n
    BY <1>4, <1>7, <1>8, <1>9, <1>a, <2>1, <2>3 DEF Served
  <2>4. CASE x = p /\ y = n
    <3>1. n \in ToSet(order)
      BY <1>4 DEF ToSet
    <3> QED
      BY <1>4, <1>7, <1>8, <1>9, <1>a, <2>1, <2>4, <3>1 DEF Served
  <2> QED
    BY <2>2, <2>3, <2>4
<1>12. \A x \in Priorities, y \in Novels : \A a \in DOMAIN queue'[x][y] :
         \E b \in DOMAIN queue[x][y] : queue'[x][y][a] = queue[x][y][b]
  <2> SUFFICES ASSUME NEW x \in Priorities, NEW y \in Novels, NEW a \in DOMAIN queue'[x][y]
               PROVE  \E b \in DOMAIN queue[x][y] : queue'[x][y][a] = queue[x][y][b]
    OBVIOUS
  <2>1. CASE x = p /\ y = n
    <3>1. a \in DOMAIN r /\ queue'[x][y] = r /\ queue[x][y] = s
      BY <1>9, <1>c, <2>1
    <3> QED
      BY <1>5, <3>1
  <2>2. CASE x # p \/ y # n
    BY <1>9, <2>2
  <2> QED
    BY <2>1, <2>2
<1>13. TypeOK'
  <2>1. ASSUME NEW x \in Priorities, NEW y \in Novels
        PROVE  /\ IsInjective(queue'[x][y])
               /\ \A u \in ToSet(queue'[x][y]) :
                    NovelOf[u] = y /\ PriorityOf[u] = x /\ u # t
    <3>1. \A u \in ToSet(queue'[x][y]) : NovelOf[u] = y /\ PriorityOf[u] = x
      BY <1>0, <1>12, Shapes DEF ToSet
    <3>2. CASE x = p /\ y = n
      BY <1>6, <1>9, <3>1, <3>2
    <3>3. CASE x # p \/ y # n
      <4>1. IsInjective(queue[x][y])
        BY <1>0 DEF TypeOK
      <4> QED
        BY <1>6, <1>9, <3>1, <3>3, <4>1
    <3> QED
      BY <3>2, <3>3
  <2>2. (held \notin Pending)'
    BY <1>6, <2>1 DEF Pending, Waiting
  <2>3. \A x \in Priorities :
          /\ IsInjective(novels'[x])
          /\ \A y \in Novels :
               /\ y \in ToSet(novels'[x]) <=> queue'[x][y] # << >>
               /\ IsInjective(queue'[x][y])
               /\ \A u \in Waiting(x, y)' : NovelOf[u] = y /\ PriorityOf[u] = x
    <3>1. \A x \in Priorities : IsInjective(novels'[x])
      BY <1>4, <1>11
    <3> QED
      BY <1>11, <2>1, <3>1 DEF Waiting
  <2>4. /\ fetched' \in Seq(Tasks) /\ pushed' \in 0..Len(fetched') /\ launched' \in Seq(Tasks)
        /\ saturated' \subseteq Sources /\ end' \in {"no", "null", "full"}
        /\ held' \in Tasks \cup {NoTask}
    BY <1>0, <1>1, <1>6 DEF TypeOK
  <2> QED
    BY <1>8, <1>9, <1>10, <2>2, <2>3, <2>4 DEF TypeOK
<1>14. Filling'
  <2>1. Len(fetched) \in Nat
    BY <1>0, Shapes
  <2> QED
    BY <1>0, <1>1, <2>1 DEF Filling
<1>15. Kept'
  <2>1. ToSet(popped) \subseteq ToSet(popped') /\ t \in ToSet(popped')
    <3>1. DOMAIN popped \subseteq DOMAIN popped' /\ Len(popped) + 1 \in DOMAIN popped'
      BY <1>10
    <3> QED
      BY <1>10, <3>1 DEF ToSet
  <2>2. ASSUME NEW x \in 1..pushed
        PROVE  \/ fetched[x] \in ToSet(queue'[PriorityOf[fetched[x]]][NovelOf[fetched[x]]])
               \/ fetched[x] \in ToSet(popped')
    <3>0. PriorityOf[fetched[x]] \in Priorities /\ NovelOf[fetched[x]] \in Novels
      <4>1. x \in DOMAIN fetched
        BY <1>0, <1>1, Shapes
      <4>2. fetched[x] \in Tasks
        BY <1>0, <4>1, Shapes
      <4> QED
        BY <1>0, <4>2, Shapes
    <3>1. \/ fetched[x] \in ToSet(queue[PriorityOf[fetched[x]]][NovelOf[fetched[x]]])
          \/ fetched[x] \in ToSet(popped)
      BY <1>0 DEF Kept, Waiting
    <3>2. CASE fetched[x] \in ToSet(popped)
      BY <2>1, <3>2
    <3>3. CASE /\ fetched[x] \in ToSet(queue[PriorityOf[fetched[x]]][NovelOf[fetched[x]]])
               /\ ~(PriorityOf[fetched[x]] = p /\ NovelOf[fetched[x]] = n)
      BY <1>9, <3>0, <3>3
    <3>4. CASE /\ fetched[x] \in ToSet(queue[PriorityOf[fetched[x]]][NovelOf[fetched[x]]])
               /\ PriorityOf[fetched[x]] = p /\ NovelOf[fetched[x]] = n
      <4>1. fetched[x] \in ToSet(s)
        BY <1>c, <3>4
      <4>2. fetched[x] = t \/ fetched[x] \in ToSet(r)
        BY <1>5, <1>f, <4>1 DEF ToSet
      <4> QED
        BY <1>9, <2>1, <3>4, <4>2
    <3> QED
      BY <3>1, <3>2, <3>3, <3>4
  <2>3. popped' # << >> /\ popped'[Len(popped')] = held'
    <3>1. Len(popped') # 0
      BY <1>10
    <3> QED
      BY <1>6, <1>10, <3>1, EmptySeq
  <2> QED
    BY <1>1, <2>2, <2>3 DEF Kept, Waiting
<1>16. Sorted'
  <2>1. ASSUME NEW x \in Priorities, NEW y \in Novels
        PROVE  Ordered(fetched, pushed, queue'[x][y])
    <3>1. Ordered(fetched, pushed, queue[x][y])
      BY <1>0 DEF Sorted
    <3> QED
      BY <1>6, <1>9, <3>1
  <2>2. ASSUME NEW k \in DOMAIN launched
        PROVE  /\ \A a \in DOMAIN queue'[PriorityOf[launched[k]]][NovelOf[launched[k]]] :
                    Earlier(fetched, pushed, launched[k],
                            queue'[PriorityOf[launched[k]]][NovelOf[launched[k]]][a])
               /\ Together(launched[k], t) => Earlier(fetched, pushed, launched[k], t)
    <3>0. /\ launched[k] \in Tasks /\ PriorityOf[launched[k]] \in Priorities
          /\ NovelOf[launched[k]] \in Novels
      <4>1. launched[k] \in Tasks
        BY <1>0, Shapes
      <4> QED
        BY <1>0, <4>1, Shapes
    <3>1. \A a \in DOMAIN queue[PriorityOf[launched[k]]][NovelOf[launched[k]]] :
            Earlier(fetched, pushed, launched[k],
                    queue[PriorityOf[launched[k]]][NovelOf[launched[k]]][a])
      BY <1>0 DEF Sorted, Before, Behind
    <3>2. \A a \in DOMAIN queue'[PriorityOf[launched[k]]][NovelOf[launched[k]]] :
            Earlier(fetched, pushed, launched[k],
                    queue'[PriorityOf[launched[k]]][NovelOf[launched[k]]][a])
      BY <1>12, <3>0, <3>1
    <3>3. Together(launched[k], t) => Earlier(fetched, pushed, launched[k], t)
      <4>1. ASSUME Together(launched[k], t)
            PROVE  queue[PriorityOf[launched[k]]][NovelOf[launched[k]]] = s
        BY <1>6, <1>c, <4>1 DEF Together
      <4> QED
        BY <1>5, <1>f, <3>1, <4>1
    <3> QED
      BY <3>2, <3>3
  <2>3. \A a \in DOMAIN queue'[PriorityOf[t]][NovelOf[t]] :
          Earlier(fetched, pushed, t, queue'[PriorityOf[t]][NovelOf[t]][a])
    BY <1>6, <1>9
  <2> QED
    BY <1>1, <1>6, <2>1, <2>2, <2>3 DEF Sorted, Before, Behind
<1>17. \A x \in Priorities : Exhausted(x) => Exhausted(x)'
  <2>1. ASSUME NEW x \in Priorities, NEW j \in DOMAIN novels'[x], Eligible(x, j)'
        PROVE  \E k \in DOMAIN novels[x] : Eligible(x, k)
    <3>a. PICK y : y = novels'[x][j]
      OBVIOUS
    <3>1. y \in Novels /\ y \in ToSet(novels'[x])
      <4>1. novels'[x] \in Seq(Novels)
        BY <1>8
      <4> QED
        BY <2>1, <3>a, <4>1, LenProperties, ElementOfSeq DEF ToSet
    <3>2. queue'[x][y] # << >> /\ SourceOf[y] \notin saturated
      BY <1>1, <2>1, <3>a DEF Eligible
    <3>3. PICK k \in DOMAIN novels[x] : novels[x][k] = y
      BY <1>11, <3>1 DEF ToSet
    <3>4. queue[x][y] # << >>
      BY <1>3, <1>9, <1>c, <3>1, <3>2
    <3> QED
      BY <3>2, <3>3, <3>4 DEF Eligible
  <2> QED
    BY <2>1 DEF Exhausted
<1>18. Descending'
  <2>1. ASSUME NEW k \in DOMAIN launched
        PROVE  Exhausted(PriorityOf[launched[k]])' /\ PriorityOf[launched[k]] >= p
    <3>1. launched[k] \in Tasks
      BY <1>0, Shapes
    <3>2. PriorityOf[launched[k]] \in Priorities /\ PriorityOf[launched[k]] \in Int /\ p \in Int
      BY <1>0, <3>1, Shapes
    <3>3. Exhausted(PriorityOf[launched[k]])
      BY <1>0 DEF Descending
    <3>4. ~(p > PriorityOf[launched[k]])
      BY <1>2, <1>3, <3>3 DEF Exhausted
    <3>5. Exhausted(PriorityOf[launched[k]])'
      BY <1>1, <1>17, <3>2, <3>3
    <3> QED
      BY <1>1, <3>2, <3>4, <3>5
  <2>2. Exhausted(p)'
    BY <1>3, <1>17
  <2> QED
    BY <1>1, <1>6, <2>1, <2>2 DEF Descending
<1>19. ASSUME NEW k \in DOMAIN popped, NEW m, NEW j \in DOMAIN popped'
       PROVE  /\ Unserved(popped', m, k, j) /\ j \in DOMAIN popped => Unserved(popped, m, k, j)
              /\ Unserved(popped', m, k, j) /\ j = Len(popped) + 1 =>
                   Unserved(popped, m, k, Len(popped)) /\ m # n
  <2>1. \A l \in k..j : l \in DOMAIN popped' /\ (l \in DOMAIN popped => popped'[l] = popped[l])
    BY <1>10, <1>19
  <2>2. j \in DOMAIN popped => \A l \in k..j : l \in DOMAIN popped
    BY <1>10, <1>19
  <2>3. j = Len(popped) + 1 => j \in k..j /\ \A l \in k..Len(popped) : l \in k..j /\ l \in DOMAIN popped
    BY <1>10, <1>19
  <2> QED
    BY <1>6, <1>10, <2>1, <2>2, <2>3 DEF Unserved
<1>20. Ahead'
  <2>1. ASSUME NEW k \in DOMAIN popped', NEW x, x = PriorityOf[popped'[k]],
               NEW a \in DOMAIN novels'[x], NEW b \in DOMAIN novels'[x],
               novels'[x][b] = NovelOf[popped'[k]], novels'[x][a] # NovelOf[popped'[k]],
               Unserved(popped', novels'[x][a], k, Len(popped'))
        PROVE  a < b
    <3>0. x \in Priorities
      <4>1. popped'[k] \in Tasks
        BY <1>10, <2>1, ElementOfSeq
      <4> QED
        BY <1>0, <2>1, <4>1, Shapes
    <3>1. a \in Int /\ b \in Int /\ a # b
      <4>1. novels'[x] \in Seq(Novels)
        BY <1>8, <3>0
      <4> QED
        BY <2>1, <4>1, LenProperties
    <3>2. CASE k = Len(popped) + 1
      <4>1. x = p /\ NovelOf[popped'[k]] = n
        BY <1>6, <1>10, <2>1, <3>2
      <4>2. ~(b < a)
        BY <1>4, <1>7, <1>8, <2>1, <4>1 DEF Served
      <4> QED
        BY <3>1, <4>2
    <3>3. CASE k \in DOMAIN popped
      <4>0. /\ popped'[k] = popped[k] /\ x = PriorityOf[popped[k]]
            /\ novels'[x][b] = NovelOf[popped[k]] /\ novels'[x][a] # NovelOf[popped[k]]
        BY <1>10, <2>1, <3>3
      <4>1. Unserved(popped, novels'[x][a], k, Len(popped)) /\ novels'[x][a] # n
        <5>1. Len(popped') \in DOMAIN popped' /\ Len(popped') = Len(popped) + 1
          BY <1>10
        <5> QED
          BY <1>19, <2>1, <3>3, <5>1
      <4>2. InFront(novels[x], popped, NovelOf[popped[k]], k)
        BY <1>0, <3>3, <4>0 DEF Ahead
      <4>3. CASE x # p
        <5>1. novels'[x] = novels[x]
          BY <1>8, <3>0, <4>3
        <5> QED
          BY <2>1, <4>0, <4>1, <4>2, <5>1 DEF InFront
      <4>4. CASE x = p
        <5>1. ASSUME b < a PROVE FALSE
          <6>1. new[b] = novels'[x][b] /\ new[a] = novels'[x][a] /\ new[a] # order[i]
            BY <1>4, <1>8, <4>1, <4>4
          <6>2. PICK c, d \in DOMAIN order : c < d /\ order[c] = new[b] /\ order[d] = new[a]
            BY <1>7, <1>8, <2>1, <4>4, <5>1, <6>1 DEF Served
          <6>3. d < c
            BY <1>a, <4>0, <4>1, <4>2, <4>4, <6>1, <6>2 DEF InFront
          <6> QED
            BY <1>4, <6>2, <6>3
        <5> QED
          BY <3>1, <5>1
      <4> QED
        BY <4>3, <4>4
    <3> QED
      BY <1>10, <3>2, <3>3
  <2> QED
    BY <2>1 DEF Ahead, InFront
<1>21. ASSUME NEW x \in Priorities, NEW m \in Novels, ToServe(x, m)'
       PROVE  m \in ToSet(novels[x])
  <2>1. CASE m \in ToSet(novels'[x])
    BY <1>11, <2>1
  <2>2. CASE x = p /\ m = n
    BY <1>4, <1>a, <2>2 DEF ToSet
  <2> QED
    BY <1>6, <1>21, <2>1, <2>2 DEF ToServe
<1>22. Passed'
  <2>1. ASSUME NEW k \in DOMAIN popped', NEW j \in DOMAIN popped', NEW m \in Novels,
               NEW q, q = PriorityOf[popped'[k]],
               k < j, Together(popped'[k], popped'[j]), NovelOf[popped'[k]] # m,
               ToServe(q, m)', Unserved(popped', m, k, j)
        PROVE  SourceOf[m] \in saturated
    <3>0. k \in DOMAIN popped /\ popped'[k] = popped[k] /\ PriorityOf[popped[k]] \in Priorities
      <4>1. k \in DOMAIN popped /\ popped'[k] = popped[k]
        BY <1>10, <2>1
      <4>2. popped[k] \in Tasks
        BY <1>0, <4>1, Shapes
      <4> QED
        BY <1>0, <4>1, <4>2, Shapes
    <3>1. m \in ToSet(novels[PriorityOf[popped[k]]])
      BY <1>21, <2>1, <3>0
    <3>2. CASE j \in DOMAIN popped
      <4>1. popped'[j] = popped[j] /\ Unserved(popped, m, k, j)
        BY <1>10, <1>19, <2>1, <3>0, <3>2
      <4> QED
        BY <1>0, <2>1, <3>0, <3>1, <3>2, <4>1 DEF Passed, ToServe
    <3>3. CASE j = Len(popped) + 1
      <4>1. PriorityOf[popped[k]] = p /\ NovelOf[popped[k]] = n
        BY <1>6, <1>10, <2>1, <3>0, <3>3 DEF Together
      <4>2. PICK a \in DOMAIN order : order[a] = m
        BY <1>a, <3>1, <4>1 DEF ToSet
      <4>3. Unserved(popped, m, k, Len(popped)) /\ m # n
        BY <1>19, <2>1, <3>0, <3>3
      <4>4. InFront(order, popped, n, k)
        BY <1>0, <1>a, <3>0, <4>1 DEF Ahead
      <4>5. a < i
        BY <1>4, <4>2, <4>3, <4>4 DEF InFront
      <4>6. a \in 1..i-1
        BY <1>4, <4>5
      <4>7. queue[p][m] = << >> \/ SourceOf[m] \in saturated
        BY <1>3, <1>a, <4>2, <4>6 DEF Eligible
      <4> QED
        BY <1>0, <3>1, <4>1, <4>7 DEF TypeOK
    <3> QED
      BY <1>10, <3>2, <3>3
  <2> QED
    BY <1>1, <2>1 DEF Passed
<1>23. NovelsTakeTurns'
  <2>1. ASSUME NEW h \in DOMAIN popped', NEW j \in DOMAIN popped', NEW k \in DOMAIN popped',
               h < j, j < k, NovelOf[popped'[h]] = NovelOf[popped'[j]],
               NovelOf[popped'[h]] # NovelOf[popped'[k]],
               PriorityOf[popped'[h]] = PriorityOf[popped'[k]],
               PriorityOf[popped'[j]] = PriorityOf[popped'[k]]
        PROVE  \E l \in h..j : NovelOf[popped'[l]] = NovelOf[popped'[k]]
    <3>0. /\ h \in DOMAIN popped /\ j \in DOMAIN popped
          /\ popped'[h] = popped[h] /\ popped'[j] = popped[j]
      BY <1>10, <2>1
    <3>1. \A l \in h..j : l \in DOMAIN popped /\ popped'[l] = popped[l]
      BY <1>10, <3>0
    <3>2. CASE k \in DOMAIN popped
      <4>1. popped'[k] = popped[k]
        BY <1>10, <3>2
      <4>2. \E l \in h..j : NovelOf[popped[l]] = NovelOf[popped[k]]
        BY <1>0, <2>1, <3>0, <3>2, <4>1 DEF NovelsTakeTurns
      <4> QED
        BY <3>1, <4>1, <4>2
    <3>3. CASE k = Len(popped) + 1
      <4>1. popped'[k] = t
        BY <1>10, <3>3
      <4> SUFFICES ASSUME Unserved(popped, n, h, j) PROVE FALSE
        BY <1>6, <3>1, <4>1 DEF Unserved
      <4>2. ToServe(p, n)
        BY <1>4, <1>a DEF ToServe, ToSet
      <4>3. /\ Together(popped[h], popped[j]) /\ NovelOf[popped[h]] # n
            /\ PriorityOf[popped[h]] = p
        BY <1>6, <2>1, <3>0, <4>1 DEF Together
      <4>4. SourceOf[n] \in saturated
        BY <1>0, <1>4, <2>1, <3>0, <4>2, <4>3 DEF Passed
      <4> QED
        BY <1>3, <4>4
    <3> QED
      BY <1>10, <3>2, <3>3
  <2> QED
    BY <2>1 DEF NovelsTakeTurns
<1>24. InOrder'
  BY <1>0, <1>1 DEF InOrder
<1> QED
  BY <1>13, <1>14, <1>15, <1>16, <1>18, <1>20, <1>22, <1>23, <1>24 DEF QueueInv

-----------------------------------------------------------------------------
(* The theorems.                                                           *)

(* Every step of the loop, and no step, leaves the queue in order.         *)
LEMMA QueueStep == QueueInv /\ [Next]_vars => QueueInv'
<1> SUFFICES ASSUME QueueInv, [Next]_vars PROVE QueueInv'
  OBVIOUS
<1>1. ASSUME PushAll PROVE QueueInv'
  BY <1>1, PushAllStep
<1>2. ASSUME Pop PROVE QueueInv'
  BY <1>2, PopStep
<1>3. ASSUME PopNull PROVE QueueInv'
  BY <1>3, PopNullStep
<1>4. ASSUME SkipActive PROVE QueueInv'
  BY <1>4, SkipActiveStep
<1>5. ASSUME Launch PROVE QueueInv'
  BY <1>5, LaunchStep
<1>a. QueueInv => TypeOK /\ Filling
  BY DEF QueueInv
<1>6. ASSUME SourceFull PROVE QueueInv'
  <2>1. /\ held # NoTask /\ pushFirst(held) /\ held' = NoTask
        /\ UNCHANGED <<fetched, pushed, popped, launched>> /\ end' = end
    BY <1>6 DEF SourceFull
  <2>2. held \in Tasks /\ SourceOf[NovelOf[held]] \in Sources
    <3>1. held \in Tasks
      BY <1>a, <2>1 DEF TypeOK
    <3> QED
      BY <1>a, <3>1, Shapes
  <2>3. saturated \subseteq saturated' /\ saturated' \subseteq Sources
    BY <1>6, <1>a, <2>2 DEF SourceFull, TypeOK
  <2> QED
    BY <2>1, <2>3, PushBackStep
<1>7. ASSUME PoolFull PROVE QueueInv'
  <2>1. /\ held # NoTask /\ pushFirst(held) /\ held' = NoTask
        /\ UNCHANGED <<fetched, pushed, saturated, popped, launched>> /\ end' = "full"
    BY <1>7 DEF PoolFull
  <2>2. saturated \subseteq saturated' /\ saturated' \subseteq Sources
    BY <1>a, <2>1 DEF TypeOK
  <2> QED
    BY <2>1, <2>2, PushBackStep
<1>8. ASSUME UNCHANGED vars PROVE QueueInv'
  <2>1. TypeOK' /\ Filling' /\ Kept' /\ Sorted'
    BY <1>8 DEF vars, QueueInv, TypeOK, Pending, Waiting, Filling, Kept, Eligible,
                Sorted, Before, Behind
  <2>2. Descending' /\ Ahead' /\ Passed' /\ NovelsTakeTurns' /\ InOrder'
    BY <1>8 DEF vars, QueueInv, Descending, Exhausted, Eligible, Ahead, Passed, ToServe,
                NovelsTakeTurns, InOrder
  <2> QED
    BY <2>1, <2>2 DEF QueueInv
<1> QED
  BY <1>1, <1>2, <1>3, <1>4, <1>5, <1>6, <1>7, <1>8 DEF Next

(* In every state the program reaches in a cycle.                          *)
THEOREM QueueInvariant == Spec => []QueueInv
<1>1. Init => QueueInv
  BY InitQueue
<1>2. QueueInv /\ [Next]_vars => QueueInv'
  BY QueueStep
<1> QED
  BY <1>1, <1>2, PTL DEF Spec

(* The buckets are well formed: no key without tasks, no task without its  *)
(* key, no task in two places (getOrPut, pop and pushFirst).               *)
THEOREM QueueTypes == Spec => []TypeOK
<1>1. QueueInv => TypeOK
  BY DEF QueueInv
<1> QED
  BY <1>1, QueueInvariant, PTL

(* When pop() answers null, every task that was fetched was handed out but *)
(* those of saturated sources: a full source holds up no other.            *)
THEOREM HoldsNothingBack == Spec => []NothingHeldBack
<1>1. QueueInv => NothingHeldBack
  <2> SUFFICES ASSUME QueueInv, end = "null", NEW t \in ToSet(fetched), t \notin ToSet(popped)
               PROVE  SourceOf[NovelOf[t]] \in saturated
    BY DEF NothingHeldBack
  <2>0. TypeOK /\ Filling /\ Kept
    BY DEF QueueInv
  <2>1. PICK x \in DOMAIN fetched : fetched[x] = t
    BY DEF ToSet
  <2>2. x \in 1..pushed
    <3>1. DOMAIN fetched = 1..Len(fetched) /\ Len(fetched) \in Nat /\ pushed \in 0..Len(fetched)
      BY <2>0, Shapes DEF TypeOK
    <3>2. ~(pushed < Len(fetched))
      BY <2>0 DEF Filling
    <3> QED
      BY <3>1, <3>2
  <2>3. t \in Tasks /\ PriorityOf[t] \in Priorities /\ NovelOf[t] \in Novels
    <3>1. t \in Tasks
      BY <2>0, <2>1, Shapes
    <3> QED
      BY <2>0, <3>1, Shapes
  <2>4. t \in ToSet(queue[PriorityOf[t]][NovelOf[t]])
    BY <2>0, <2>1, <2>2 DEF Kept, Waiting
  <2>5. queue[PriorityOf[t]][NovelOf[t]] # << >>
    BY <2>4 DEF ToSet
  <2>6. PICK i \in DOMAIN novels[PriorityOf[t]] : novels[PriorityOf[t]][i] = NovelOf[t]
    <3>1. NovelOf[t] \in ToSet(novels[PriorityOf[t]])
      BY <2>0, <2>3, <2>5 DEF TypeOK
    <3> QED
      BY <3>1 DEF ToSet
  <2>7. ~Eligible(PriorityOf[t], i)
    BY <2>0, <2>3 DEF Kept
  <2> QED
    BY <2>5, <2>6, <2>7 DEF Eligible
<1> QED
  BY <1>1, QueueInvariant, PTL

(* Novels take turns: a novel that still has something to give is served   *)
(* between two tasks of another novel of its priority.                     *)
THEOREM TurnsAreTaken == Spec => []NovelsTakeTurns
<1>1. QueueInv => NovelsTakeTurns
  BY DEF QueueInv
<1> QED
  BY <1>1, QueueInvariant, PTL

(* A novel's chapters are launched in the order in which they were         *)
(* fetched, the higher priority first, whatever was pushed back between.   *)
THEOREM LaunchedInOrder == Spec => []InOrder
<1>1. QueueInv => InOrder
  BY DEF QueueInv
<1> QED
  BY <1>1, QueueInvariant, PTL

=============================================================================
