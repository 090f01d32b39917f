\* Three pool buffers: one encoded, one sent and one queued, so that the pool
\* can run dry. Five pictures use it up and let a late stream shift the order.
\* Three attempts at a stream, as in the code.
CONSTANTS
  PoolCapacity = 3
  MaxRetries = 3
  HwDepth = 2
  MaxFrames = 5
  QueueLimit = 2
  Holders = {"vision", "gst"}
  Caller = "vision"
  MallocMayFail = FALSE
SPECIFICATION FairVideoSpec
INVARIANTS VideoTypeOK NoTearing InOrder EncoderOutlivesPackets AllReleased
PROPERTIES ImplementsFifo ShutdownAdvances ShutdownEnds PacketComesHome
CHECK_DEADLOCK FALSE
