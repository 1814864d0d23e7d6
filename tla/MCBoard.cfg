SPECIFICATION Spec
CONSTANTS
  Agents = {a1}
  Runs = {w1, w2, w3}
  Ttl = 2
  FreshFor = 1
  StaleFor = 4
  MaxRun = 1
INVARIANTS TypeOK SuspendedAgentsLeave
SYMMETRY Symmetry
