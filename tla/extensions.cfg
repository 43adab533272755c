SPECIFICATION Spec
CHECK_DEADLOCK FALSE
CONSTANTS
  Extensions = {e1}
  Managers = {m1, m2}
  MaxObjects = 2
  MaxOperations = 2
  Calls = {k1, k2}
  MaxCalls = 2
SYMMETRY Symmetry
INVARIANTS
  RegistryConsistent
  MutexKept
  UsedAlive
  
PROPERTIES
  OwnChallengeBlocks
  NotFoundJustified
