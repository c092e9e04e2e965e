SPECIFICATION Spec
CONSTANTS
  None = None
  Principals = {}
  Intents <- OneIntent
  Classes <- Interactive
  MaxPendingRoots = 1
  MaxPendingPrincipals = 1
  MaxRootsPerPrincipal = 1
  MaxGeneration = 4
  MaxTime = 3
  MaxCheckpoints = 2
  RejectsCheckpoints = TRUE
  Restarts = TRUE
  Recovers = TRUE
INVARIANTS
  LedgerAgrees
  ContinuationsResumable
  StopsAreResumable
  ClaimsAgree
PROPERTIES
  OneOwner
  PointersOnlyAdvance
