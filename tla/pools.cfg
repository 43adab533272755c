SPECIFICATION FairSpec
CONSTANTS
  Tasks = {"a1", "a2", "b1", "n1"}
  Sources = {"a", "b"}
  SourceOf <- SourceOfTask
  NoSource = NoSource
  NoTask = NoTask
  RunnerConcurrency <- OneAndTwo
  HighPriority = {"n1"}
  Limits = {1, 2}
  InitialLimit = 1
  MaxChanges = 2
INVARIANTS
  NoSlotLost
  SourceLimited

  
