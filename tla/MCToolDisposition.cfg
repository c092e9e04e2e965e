SPECIFICATION RelaySpec
CONSTANTS
  None = None
  Principals = {}
  Intents <- OneIntent
  Classes <- Interactive
  MaxPendingRoots = 1
  MaxPendingPrincipals = 1
  MaxRootsPerPrincipal = 1
  MaxGeneration = 2
  MaxTime = 1
  MaxCheckpoints = 1
  RejectsCheckpoints = FALSE
  Restarts = FALSE
  Recovers = FALSE
  MaxCalls = 1
  StrayPhases = {}
  Careful = FALSE
PROPERTIES
  DispositionIsAtomic
