SPECIFICATION Spec
CONSTANTS
  Classes <- SomeClasses
  MaximumAttemptCount = 3
  MaximumRepeated = 2
  MaxRuns = 3
  MaxGeneration = 3
  MaxCheckpoints = 3
  MaxSchedulers = 1
  None = None
CHECK_DEADLOCK FALSE
INVARIANT FailedRetryRecoverable
