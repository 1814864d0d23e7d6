SPECIFICATION Spec
CONSTANTS
  Workers = {w1}
  Tasks = {t1, t2, t3}
  Agents = {a1}
  NoTask = NoTask
  NoAgent = NoAgent
  MaxAttempts = 2
  Handlers <- HireAndCancel
  Faults <- NoFaults
  Overlap = FALSE
  LegacyTasks = {}
INVARIANT NoDoubleHire
CHECK_DEADLOCK FALSE
