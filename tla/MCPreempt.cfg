SPECIFICATION Spec
CONSTANTS
  None = None
  Principals = {}
  Intents <- OneIntent
  Classes <- Interactive
  MaxPendingRoots = 1
  MaxPendingPrincipals = 1
  MaxRootsPerPrincipal = 1
  MaxGeneration = 3
  MaxTime = 3
  MaxCheckpoints = 1
  RejectsCheckpoints = FALSE
  Restarts = FALSE
  Recovers = FALSE
INVARIANTS
  PreemptionCompletable
