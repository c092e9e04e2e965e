SPECIFICATION Spec
CONSTANTS
  Classes <- SomeClasses
  MaximumAttemptCount = 3
  MaximumRepeated = 2
  MaxRuns = 3
  MaxGeneration = 3
  MaxCheckpoints = 3
  MaxSchedulers = 2
  None = None
INVARIANT ClosureIsEarned
PROPERTY RetriesAreLeased
PROPERTY FatesAreFinal
CHECK_DEADLOCK FALSE
