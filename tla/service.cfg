SPECIFICATION Spec
CHECK_DEADLOCK FALSE
CONSTANTS
  Tasks = {t1}
  Instances = {1, 2}
  Loops = {1, 2}
  Runners = {1, 2}
  Coroutines = {c1}
  MaxRequests = 2
  MaxDeaths = 1
INVARIANTS
  OneLoop
  OneRunner
PROPERTIES
  WorkDone
