SPECIFICATION Spec
CONSTANTS
  Nodes <- TwoNodes
  ClassOf <- Rivals
  MaxDeferrals = 3
  MaxGeneration = 6
  MaxGraphs = 6
CHECK_DEADLOCK FALSE
INVARIANTS
  AgingWinsAcrossTransitions
