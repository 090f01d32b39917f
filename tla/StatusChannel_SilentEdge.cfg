\* The edge loses power and comes back while the host is connected.
CONSTANTS
  Second = 2
  Rate = 1
  Backlog = 2
  SocketBuffer = 1
  MaxRestarts = 1
SPECIFICATION FairSpec
PROPERTY EdgeRestartHeals
CHECK_DEADLOCK FALSE
