---------------------------- MODULE MCReadyQueue ----------------------------
(* A small instance of ReadyQueue: single chapters m1 and m2 and metadata  *)
(* n1, high-priority, of novels of source "a"; chapters of two novels of   *)
(* "b" to be downloaded in the background.                                 *)
EXTENDS ReadyQueue

Novel == [t \in Tasks |-> CASE t \in {"m1", "m2"} -> "m"
                            [] t = "n1" -> "n"
                            [] t \in {"o1", "o2"} -> "o"
                            [] OTHER -> "p"]
Priority == [t \in Tasks |-> IF t \in HighPriority THEN 10 ELSE 0]
Source == [n \in Novels |-> IF n \in {"m", "n"} THEN "a" ELSE "b"]
=============================================================================
