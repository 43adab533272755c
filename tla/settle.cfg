SPECIFICATION FairSpec
CONSTANTS
  r1 = r1
  r2 = r2
  r3 = r3
  c1 = c1
  c2 = c2
  Tasks = {"t1", "t2"}
  Batches = {"b1"}
  Crawlers = {"src"}
  BatchOf <- BatchOfTask
  CrawlerOf <- SameSource
  NoCrawler = NoCrawler
  Runners <- TwoRunners
  Clients = {}
  None = None
  HighPriority = {}
  GlobalLimit = 1
  CrawlerLimit <- OneEach
  MaxAttempts = 2
  Outcomes = {"Success", "Failure", "Fatal", "Cancelled", "Blocked"}
  Requests = {}
  MaxRequests = 0
  MaxCrashes = 1
  InitialBatches = {"b1"}
  SlowHandlers = FALSE
  Overtaking = FALSE
PROPERTIES
  TasksSettle
  BatchesSettleAlive
  ImplementsQueue
