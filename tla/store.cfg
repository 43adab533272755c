SPECIFICATION Spec
CONSTANTS
  Clients = {r1, r2, r3}
  Chapters = {c1}
  MaxOperations = 3
SYMMETRY Symmetry

  
PROPERTIES
  LibraryKept
  ReadKept
  ChaptersSurvive
  RefreshComplete
  PruneSpares
