---------------------------- MODULE MCNovelStore ----------------------------
(* Small instances of NovelStore: the operations are interchangeable.      *)
EXTENDS NovelStore, TLC

Symmetry == Permutations(Clients)
=============================================================================
