\* The first answer after a reconnection is glued to what m_buffer still holds.
CONSTANTS
  ParamTable <- MCParamTable
  OtherNames = {"gamma"}
  Values = {0, 1, 2}
  Backlog = 2
  MaxSets = 2
  MaxRestarts = 1
  SilentLoss = FALSE
SPECIFICATION Spec
INVARIANT EveryAnswer
CHECK_DEADLOCK FALSE
