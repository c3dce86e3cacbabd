SPECIFICATION Spec
CONSTANTS
  BUCKET_SECS = 2
  CloseDelaySecs = 1
  MsPerSec = 1
  MaxLateMs = 1
  Untimestamped = FALSE
  MaxTime = 4
  MaxLog = 2
  MaxStops = 1
PROPERTY RestartKeepsWindow
CHECK_DEADLOCK FALSE
