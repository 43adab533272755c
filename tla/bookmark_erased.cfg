SPECIFICATION Spec
CONSTANTS
  Clients = {r1}
  Chapters = {c1}
  MaxOperations = 2
PROPERTIES
  BookmarksKept
