SPECIFICATION Spec
CONSTANTS
  host = host
  ann = ann
  bob = bob
  i1 = i1
  None = None
  Principals = {host, ann, bob}
  Host = host
  Invitations = {i1}
  MaxRevision = 3
  MaxTime = 1
  MaxChanges = 2
  Devices = {ann, bob, None}
SYMMETRY Symmetry
CHECK_DEADLOCK FALSE
INVARIANTS RoomContinues OneSegmentPerGeneration InvitationsHonest
PROPERTY OwnersDecide
