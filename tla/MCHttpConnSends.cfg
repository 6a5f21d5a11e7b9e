CONSTANTS
  Requests <- OfAllKinds
  MaxReq = 1
  Cuts = FALSE
  Files = {"page", "empty", "dir", "missing", "hidden"}
  OpenFails = FALSE
  MmapFails = FALSE
  HeadLen = 2
  FileLen = 3
  ErrorLen = 1
  BodyLen = 2
  LowWater = 0
  isET = TRUE
SPECIFICATION Spec
\* One property at a time: TLC stops at the first that is violated.
INVARIANT AnnouncedSent
\* INVARIANT NoFileLeftOpen
\* PROPERTY NextRequestWaits
CHECK_DEADLOCK FALSE
