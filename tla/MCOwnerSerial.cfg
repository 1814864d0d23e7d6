SPECIFICATION Spec
CONSTANTS
  Workers = {w1, w2, w3}
  Tasks = {t1, t2}
  Agents = {a1, a2}
  NoTask = NoTask
  NoAgent = NoAgent
  MaxAttempts = 2
  Handlers <- OwnerHandlers
  Faults <- ChainFaults
  Overlap = FALSE
  LegacyTasks = {}
SYMMETRY FullSymmetry
INVARIANTS NoDoubleHire AssigneeIsBusy CompletedIsComplete
CHECK_DEADLOCK FALSE
