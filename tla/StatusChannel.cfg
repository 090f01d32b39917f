\* A window of two ticks, one frame a tick or none, two restarts in all: a
\* vanished host, its successor in the backlog and an edge that restarts.
CONSTANTS
  Second = 2
  Rate = 1
  Backlog = 2
  SocketBuffer = 1
  MaxRestarts = 1
SPECIFICATION FairSpec
INVARIANTS TypeOK NoGhostRate
PROPERTIES FpsTruthful StatusReconnect DisplayFollows
CHECK_DEADLOCK FALSE
