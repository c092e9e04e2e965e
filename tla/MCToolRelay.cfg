SPECIFICATION RelaySpec
CONSTANTS
  None = None
  Principals = {}
  Intents <- OneIntent
  Classes <- Interactive
  MaxPendingRoots = 1
  MaxPendingPrincipals = 1
  MaxRootsPerPrincipal = 1
  MaxGeneration = 2
  MaxTime = 1
  MaxCheckpoints = 1
  RejectsCheckpoints = TRUE
  Restarts = TRUE
  Recovers = FALSE
  MaxCalls = 2
  StrayPhases = {"COMPLETED", "CANCELLED", "PAUSED"}
  Careful = TRUE
INVARIANTS
  NamedCallsHeld
  EndedWorkOwesNothing
PROPERTIES
  OneAnswerEach
