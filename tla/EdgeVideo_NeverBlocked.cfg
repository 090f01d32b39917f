\* The pool runs dry while GStreamer holds every packet.
CONSTANTS
  PoolCapacity = 2
  MaxRetries = 2
  HwDepth = 2
  MaxFrames = 4
  QueueLimit = 1
  Holders = {"vision", "gst"}
  Caller = "vision"
  MallocMayFail = FALSE
SPECIFICATION VideoSpec
INVARIANT NeverBlocked
CHECK_DEADLOCK FALSE
