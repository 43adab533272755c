SPECIFICATION Spec
CONSTANTS
  r1 = r1
  r2 = r2
  r3 = r3
  c1 = c1
  c2 = c2
  Tasks = {"t1"}
  Batches = {"b1"}
  Crawlers = {"src"}
  BatchOf <- BatchOfTask
  CrawlerOf <- SameSource
  NoCrawler = NoCrawler
  Runners <- TwoRunners
  Clients <- TwoClients
  None = None
  HighPriority = {"t1"}
  GlobalLimit = 1
  CrawlerLimit <- OneEach
  MaxAttempts = 2
  Outcomes = {"Success", "Blocked"}
  Requests = {"create", "pause", "resume", "replay", "cancel", "replayTask", "cancelTask"}
  MaxRequests = 2
  MaxCrashes = 0
  InitialBatches = {"b1"}
  SlowHandlers = FALSE
  Overtaking = FALSE
INVARIANTS
  TypeOK
  
  StopsWhenIdle

  
SYMMETRY Symmetry
