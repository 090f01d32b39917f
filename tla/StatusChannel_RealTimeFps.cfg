\* The camera stops: nobody updates the published rate any more.
CONSTANTS
  Second = 2
  Rate = 1
  Backlog = 2
  SocketBuffer = 1
  MaxRestarts = 1
SPECIFICATION Spec
INVARIANT RealTimeFps
CHECK_DEADLOCK FALSE
