SPECIFICATION PaidFairSpec
CONSTANTS
  Workers = {w1, w2}
  Tasks = {t1, t2}
  Agents = {a1}
  NoTask = NoTask
  NoAgent = NoAgent
  MaxAttempts = 2
  Handlers <- CoreHandlers
  Faults <- ChainOnly
  Overlap = FALSE
  LegacyTasks = {t2}
  Buyers = {p1}
  PaidFaults <- AllPaidFaults
INVARIANTS PaidTypeOK RunIsPaid PaidRunIsAlone NoStrayReservation
PROPERTY EveryAgentReturns
CHECK_DEADLOCK FALSE
