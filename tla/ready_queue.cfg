SPECIFICATION Spec
CONSTANTS
  Tasks = {"m1", "m2", "n1", "o1", "o2", "p1"}
  Novels = {"m", "n", "o", "p"}
  Priorities = {0, 10}
  Sources = {"a", "b"}
  NovelOf <- Novel
  PriorityOf <- Priority
  SourceOf <- Source
  HighPriority = {"m1", "m2", "n1"}
  NoTask = NoTask
  MaxPops = 7
INVARIANTS
  TypeOK
  NothingHeldBack
  NovelsTakeTurns
  InOrder
CHECK_DEADLOCK FALSE
