SPECIFICATION Spec
CONSTANTS
  r1 = r1
  r2 = r2
  r3 = r3
  c1 = c1
  c2 = c2
  Tasks = {"t1", "t2", "t3"}
  Batches = {"b1", "b2"}
  Crawlers = {"src"}
  BatchOf <- BatchOfTask
  CrawlerOf <- SameSource
  NoCrawler = NoCrawler
  Runners <- ThreeRunners
  Clients = {}
  None = None
  HighPriority = {"t3"}
  GlobalLimit = 2
  CrawlerLimit <- OneEach
  MaxAttempts = 2
  Outcomes = {"Success", "Failure", "Blocked", "Throw"}
  Requests = {}
  MaxRequests = 0
  MaxCrashes = 0
  InitialBatches = {"b1", "b2"}
  SlowHandlers = FALSE
  Overtaking = FALSE
INVARIANTS
  PoolAccounting
  ConcurrencyBound
  

  
SYMMETRY Symmetry
