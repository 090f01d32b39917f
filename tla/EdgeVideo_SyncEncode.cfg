\* A stream that came late shifts every later one.
CONSTANTS
  PoolCapacity = 2
  MaxRetries = 2
  HwDepth = 2
  MaxFrames = 4
  QueueLimit = 1
  Holders = {"vision", "gst"}
  Caller = "vision"
  MallocMayFail = FALSE
SPECIFICATION VideoSpec
INVARIANT SyncEncode
CHECK_DEADLOCK FALSE
