SPECIFICATION Spec
CONSTANTS
  None = None
  Principals = {p1, p2}
  Intents <- TwoIntents
  Classes <- TwoClasses
  MaxPendingRoots = 2
  MaxPendingPrincipals = 2
  MaxRootsPerPrincipal = 2
  MaxGeneration = 2
  MaxTime = 1
  MaxCheckpoints = 1
  RejectsCheckpoints = FALSE
  Restarts = FALSE
  Recovers = FALSE
SYMMETRY PrincipalSymmetry
PROPERTIES
  RootsWaitForTheWorker
  NoLeasePastTheQueue
