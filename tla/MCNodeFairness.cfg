SPECIFICATION Spec
CONSTANTS
  Nodes <- FourNodes
  ClassOf <- Mixed
  MaxDeferrals = 2
  MaxGeneration = 6
  MaxGraphs = 2
CHECK_DEADLOCK FALSE
INVARIANTS
  OneSelection
  AgingWins
