SPECIFICATION FairSpec
CONSTANTS
  Workers = {w1, w2}
  Tasks = {t1, t2}
  Agents = {a1}
  NoTask = NoTask
  NoAgent = NoAgent
  MaxAttempts = 2
  Handlers <- CoreHandlers
  Faults <- ChainFaults
  Overlap = TRUE
  LegacyTasks = {t2}
PROPERTY EveryTaskSettles
CHECK_DEADLOCK FALSE
