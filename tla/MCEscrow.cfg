SPECIFICATION FairSpec
CONSTANTS
  Tasks = {t1, t2}
  Accounts = {eoa, agent, multisig}
  NoAccount = NoAccount
  Reenters = {multisig}
  Rejects = {multisig}
  Amounts = {0, 1, 2}
  MaxDuration = 1
  MaxTime = 2
INVARIANTS TypeOK Conserved Solvent AmountMatchesState
PROPERTIES KeepsPromise LocksEnd
CHECK_DEADLOCK FALSE
