SPECIFICATION Spec
CONSTANTS
  Tasks = {t1}
  Hashes = {h1}
  NoTask = NoTask
  NoHash = NoHash
  MaxRecords = 2
  Faults <- AllFaults
  Alerts = {d1}
  NoAlert = NoAlert
  Slots = {w1, w2}
INVARIANTS TypeOK LedgerIsTrue OneRecordPerHash
PROPERTY ClosedByRefund
SYMMETRY Symmetry
CHECK_DEADLOCK FALSE
