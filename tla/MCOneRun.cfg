SPECIFICATION Spec
CONSTANTS
  Workers = {w1, w2, w3}
  Tasks = {t1}
  Agents = {a1}
  NoTask = NoTask
  NoAgent = NoAgent
  MaxAttempts = 2
  Handlers <- NoRestartHandlers
  Faults <- SafeFaults
  Overlap = TRUE
  LegacyTasks = {}
SYMMETRY WorkerSymmetry
INVARIANTS OneRunAtATime RunHasAgent
CHECK_DEADLOCK FALSE
