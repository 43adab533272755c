-------------------------- MODULE MCExtensionRuntime ------------------------
(* Small instances of ExtensionRuntime: the coroutines that manage, and    *)
(* those that call, are interchangeable.                                   *)
EXTENDS ExtensionRuntime, TLC

Symmetry == Permutations(Managers) \cup Permutations(Calls)
=============================================================================
