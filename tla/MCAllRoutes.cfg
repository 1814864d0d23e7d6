SPECIFICATION Spec
CONSTANTS
  Workers = {w1, w2}
  Tasks = {t1}
  Agents = {a1}
  NoTask = NoTask
  NoAgent = NoAgent
  MaxAttempts = 3
  Handlers <- AllHandlers
  Faults <- AllFaults
  Overlap = TRUE
  LegacyTasks = {}
SYMMETRY WorkerSymmetry
INVARIANTS TypeOK CompletionIsEarned RetryHasBudget
CHECK_DEADLOCK FALSE
