SPECIFICATION Spec
CONSTANTS
  BUCKET_SECS = 2
  CloseDelaySecs = 1
  MsPerSec = 1
  MaxLateMs = 2
  Untimestamped = FALSE
  MaxTime = 5
  MaxLog = 3
  MaxStops = 1
INVARIANTS TypeOK Accounting AtMostOnce TopicsPaired
PROPERTY ImplementsFeed
CHECK_DEADLOCK FALSE
