SPECIFICATION Spec
CONSTANTS
  BUCKET_SECS = 2
  CloseDelaySecs = 1
  MsPerSec = 1
  MaxLateMs = 0
  Untimestamped = FALSE
  MaxTime = 5
  MaxLog = 4
  MaxStops = 0
INVARIANT CountsEveryQuery
CHECK_DEADLOCK FALSE
