SPECIFICATION Spec
CONSTANTS
  a1 = a1  a2 = a2  g1 = g1
  Assignments = {a1, a2}
  Roots = {g1}
  RootOf <- OneGraph
  Tags = {s}
  MaxTime = 3
  MaxDues = 3
  MaxRestarts = 1
  StaleReads = TRUE
SYMMETRY AssignmentSymmetry
INVARIANTS
  OneLiveDue
  NeverEarly
PROPERTIES
  ClosedForever
  ReceiptOnlyForGap
  SettledNeverDue
