SPECIFICATION FairSpec
CONSTANTS
  None = None
  Hosts = {h1, h2, h3}
  Cooperative = TRUE
  MaxLaunches = 2
  MaxControls = 2
  MaxHolds = 1
  MaxFaults = 1
INVARIANTS
  RestIsTrue
  OwnControlsOnly
  StartsUncontrolled
PROPERTIES
  OnePayload
  CancelTakenUp
CHECK_DEADLOCK FALSE
