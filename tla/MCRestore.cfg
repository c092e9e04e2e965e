SPECIFICATION Spec
CONSTANTS
  None = None
  Principals = {}
  Intents <- OneIntent
  Classes <- Interactive
  MaxPendingRoots = 1
  MaxPendingPrincipals = 1
  MaxRootsPerPrincipal = 1
  MaxGeneration = 3
  MaxTime = 4
  MaxCheckpoints = 1
  RejectsCheckpoints = FALSE
  Restarts = FALSE
  Recovers = TRUE
INVARIANTS
  RecoveredWorkRestorable
