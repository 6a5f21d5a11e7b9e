CONSTANTS
  Requests <- OfAllKinds
  MaxReq = 2
  Cuts = TRUE
  Files = {"page", "empty", "dir", "missing", "hidden"}
  OpenFails = TRUE
  MmapFails = TRUE
  HeadLen = 2
  FileLen = 3
  ErrorLen = 1
  BodyLen = 2
  LowWater = 0
  isET = TRUE
SPECIFICATION Spec
INVARIANTS
  Framed
  MappingCovers
  BufferSpent
  WholeAnswered
CHECK_DEADLOCK FALSE
