SPECIFICATION Spec
CONSTANTS
  BUCKET_SECS = 2
  CloseDelaySecs = 1
  MsPerSec = 2
  MaxLateMs = 2
  Untimestamped = TRUE
  MaxTime = 5
  MaxLog = 3
  MaxStops = 0
INVARIANTS WindowPurity NoEarlyPublish SkipsOnlyInCloseDelay ReopenedByLateRecord
CHECK_DEADLOCK FALSE
