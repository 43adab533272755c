SPECIFICATION Spec
CONSTANTS
  Callers = {"c1", "c2", "c3", "c4", "c5", "f"}
  Sources = {"a", "free"}
  SourceOf <- SourceOfCaller
  HighPriority = {"c4", "c5"}
  Cooldown <- TwoTicks
  MaxJitter = 1
  Horizon = 5
INVARIANTS
  
  RateBounded
  BacklogBounded
CHECK_DEADLOCK FALSE
