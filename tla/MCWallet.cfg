SPECIFICATION Spec
CONSTANTS
  Payees = {alice, bob}
  Contracts = {}
  Blocked = {bob}
  Amounts = {1, 2}
  DailyLimit = 4
  AutoLimit = 1
  ReviewAt = 2
  TimelockAt = 2
  TimelockDelay = 1
  Keys = {k1}
  NoKey = NoKey
  DayLength = 1
  KeyLife = 1
  MaxTime = 1
  Requests = {r1, r2}
  Ids = {x1, x2}
  NoId = NoId
  MaxNonce = 3
  MaxApprovals = 2
SYMMETRY Symmetry
INVARIANTS TypeOK SessionLimitHolds ReviewsPrecedePayments TimelockHolds  SessionIsEnabled
CHECK_DEADLOCK FALSE
