\* The host vanishes without closing its connection and comes back.
CONSTANTS
  ParamTable <- MCParamTable
  OtherNames = {"gamma"}
  Values = {0, 1, 2}
  Backlog = 2
  MaxSets = 1
  MaxRestarts = 1
  SilentLoss = TRUE
SPECIFICATION FairSpec
PROPERTY AutoReconnect
CHECK_DEADLOCK FALSE
