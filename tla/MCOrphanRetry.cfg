SPECIFICATION Spec
CONSTANTS
  p1 = p1
  p2 = p2
  r1 = r1
  m1 = m1
  m2 = m2
  c1 = c1
  c2 = c2
  NoOne = NoOne
  Torn = Torn
  Processes = {p1, p2, r1}
  Recoverers = {r1}
  Messages = {m1, m2}
  Meanings = {c1, c2}
  MaxSequence = 1
  MaxFaults = 2
CHECK_DEADLOCK FALSE
INVARIANT RetryFindsTheEvent

