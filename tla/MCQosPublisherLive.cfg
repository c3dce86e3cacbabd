SPECIFICATION FairSpec
CONSTANTS
  BUCKET_SECS = 2
  CloseDelaySecs = 1
  MsPerSec = 1
  MaxLateMs = 1
  Untimestamped = FALSE
  MaxTime = 4
  MaxLog = 3
  MaxStops = 0
PROPERTY EventuallyPublished
CHECK_DEADLOCK FALSE
