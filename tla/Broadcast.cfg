SPECIFICATION FairSpec
CONSTANTS
  Clients = {c1}
  Broadcasts = {b1, b2}
  Mirrored = {b1}
  MaxRevision = 2
  MaxAttempt = 2
  MaxSlots = 1
  Retained = 2
  NoBroadcast = NoBroadcast
INVARIANTS
  FencesExact
  StatusIsTrue
PROPERTIES
  FreedByItsDevice
  SourcelessEnds
CHECK_DEADLOCK FALSE
