SPECIFICATION CardSpec
CONSTANTS
  c1 = c1
  c2 = c2
  Tasks = {t1, t2}
  AgentIds = {c1, c2}
  Accounts = {alice, bob}
  This = This
  None = None
  user = alice
  Price <- TwoPrices
  Amounts = {0, 1, 2}
  Supply = 2
  MaxDuration = 1
  MaxTime = 1
  MaxStray = 1
INVARIANTS CardTypeOK Conserved Backed HiredIsFunded
PROPERTY KeepsPromise
CHECK_DEADLOCK FALSE
SYMMETRY TaskSymmetry
