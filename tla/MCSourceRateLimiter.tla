------------------------ MODULE MCSourceRateLimiter -------------------------
(* A small instance of SourceRateLimiter: downloads c1 to c5 of source     *)
(* "a", and f of a source without a cooldown.                              *)
EXTENDS SourceRateLimiter

SourceOfCaller == [c \in Callers |-> IF c = "f" THEN "free" ELSE "a"]
TwoTicks == [s \in Sources |-> IF s = "a" THEN 2 ELSE 0]
=============================================================================
