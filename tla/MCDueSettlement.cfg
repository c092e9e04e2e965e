SPECIFICATION Spec
CONSTANTS
  a1 = a1  a2 = a2  g1 = g1
  Assignments = {a1, a2}
  Roots = {g1}
  RootOf <- OneGraph
  Tags = {s}
  MaxTime = 3
  MaxDues = 2
  MaxRestarts = 1
  StaleReads = FALSE
SYMMETRY AssignmentSymmetry
INVARIANTS
  SettlementCanClose
