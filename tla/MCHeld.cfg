SPECIFICATION Spec
CONSTANTS
  None = None
  Principals = {}
  Intents <- OneIntent
  Classes <- Interactive
  MaxPendingRoots = 1
  MaxPendingPrincipals = 1
  MaxRootsPerPrincipal = 1
  MaxGeneration = 2
  MaxTime = 2
  MaxCheckpoints = 1
  RejectsCheckpoints = FALSE
  Restarts = TRUE
  Recovers = FALSE
INVARIANTS
  ActiveLeaseHeld
