SPECIFICATION RootsSpec
CONSTANTS
  Principals = {p1, p2, p3, p4}
  Intents <- MCIntents
  Classes <- MCClasses
  MaxPendingRoots = 4
  MaxPendingPrincipals = 3
  MaxRootsPerPrincipal = 2
  MaxGeneration = 2
SYMMETRY MCSymmetry
INVARIANTS
  ValidState
  SelectionTotal
  BoundedBypass
PROPERTIES
  AgeKeptUntilServed
