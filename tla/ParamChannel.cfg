\* Two sets and one restart of each side: enough to cut a line, to glue it to
\* the next one, and to have three connections, one of them waiting.
CONSTANTS
  ParamTable <- MCParamTable
  OtherNames = {"gamma"}
  Values = {0, 1, 2}
  Backlog = 2
  MaxSets = 2
  MaxRestarts = 1
  SilentLoss = FALSE
SPECIFICATION FairSpec
INVARIANTS TypeOK NeverStranded AnswersInOrder LastSetWins
PROPERTIES AutoReconnect
CHECK_DEADLOCK FALSE
