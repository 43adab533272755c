--------------------------- MODULE MCWorkerPools ----------------------------
(* Small instances of WorkerPools: a1 and a2 come from the source "a", b1  *)
(* from "b", and n1 has no source.                                         *)
EXTENDS WorkerPools

SourceOfTask ==
  [t \in Tasks |-> CASE t \in {"a1", "a2"} -> "a"
                     [] t = "b1" -> "b"
                     [] OTHER -> NoSource]

(* Source "a" asks for one at a time and "b" for two, more than the user's *)
(* limit of one.                                                           *)
OneAndTwo == [s \in Sources |-> IF s = "a" THEN 1 ELSE 2]
=============================================================================
