--------------------------- MODULE MCJobScheduler ---------------------------
(* Small instances of JobScheduler.  Tasks t1 and t2 are chapters of one   *)
(* download, b1; t3 is the only task of another batch, b2.                 *)
EXTENDS JobScheduler, TLC

CONSTANTS r1, r2, r3, c1, c2

TwoRunners   == {r1, r2}
ThreeRunners == {r1, r2, r3}
OneClient    == {c1}
TwoClients   == {c1, c2}

(* Runners are interchangeable, and so are clients.                        *)
Symmetry == Permutations(ThreeRunners) \cup Permutations(TwoClients)

BatchOfTask == [t \in Tasks |-> IF t = "t3" THEN "b2" ELSE "b1"]

SameSource == [b \in Batches |-> "src"]

OneEach == [c \in Crawlers |-> 1]
TwoEach == [c \in Crawlers |-> 2]
============================================================================
