\* One encoding thread, two holders, close() at any time, malloc may fail.
CONSTANTS
  PoolCapacity = 3
  MaxRetries = 2
  HwDepth = 2
  MaxFrames = 4
  Holders = {"caller", "sink"}
  Caller = "caller"
  MallocMayFail = TRUE
SPECIFICATION FairSpec
INVARIANTS TypeOK ExclusiveCustody NoUseAfterFree NoLeak NoLostWakeup
PROPERTIES LentStable EncodeAdvances EncodeReturns ImplementsLease
CHECK_DEADLOCK FALSE
