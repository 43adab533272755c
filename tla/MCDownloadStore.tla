--------------------------- MODULE MCDownloadStore --------------------------
(* Small instances of DownloadStore: the operations are interchangeable.   *)
EXTENDS DownloadStore, TLC

Symmetry == Permutations(Clients)
=============================================================================
