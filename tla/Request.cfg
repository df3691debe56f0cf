SPECIFICATION FairSpec
CONSTANTS
  Connections = {c1}
  RequestIds = {r1}
  Contents = {x, y}
  Handlers = {h1, h2}
  TTL = 2
  MaxPendingEmits = 1
  NoConnection = NoConnection
INVARIANTS
  CountersExact
PROPERTIES
  QuietOutsideService
  AnsweredOnce
  InFlightSettles
CHECK_DEADLOCK FALSE
