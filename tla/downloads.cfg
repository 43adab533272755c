SPECIFICATION Spec
CONSTANTS
  Clients = {c1, c2, c3}
  MaxOperations = 4
SYMMETRY Symmetry
INVARIANTS
  
  CachedReadable
PROPERTIES
  DownloadKept
  SuccessRecordedUnlessCached
