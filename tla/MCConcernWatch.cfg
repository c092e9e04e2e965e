SPECIFICATION Spec
CONSTANTS
  o1 = o1
  o2 = o2
  plain = plain
  doubt = doubt
  alarm = alarm
  guess = guess
  d1 = d1
  Sources = {plain, doubt, alarm, guess}
  Grade <- MCGrade
  MinIndependent = 2
  MinRecurrence = 2
  MinScore = 8
  Dues = {d1}
  Operators = {o1, o2}
  MaxCycles = 2
  MaxObservations = 2
  MaxTime = 1
SYMMETRY Symmetry
CHECK_DEADLOCK FALSE
INVARIANTS WorkIsEarned WorkStaysInSight QueueShowsWork
