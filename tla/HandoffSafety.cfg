SPECIFICATION Spec
CONSTANTS
  Clients = {c1, c2}
  Origins = {c1, c2}
  Contexts = {p1, p2}
  Handoffs = {h1, h2}
  MaxConnection = 1
  MaxControlVersion = 2
  SourceBroadcasts = TRUE
  NoClient = NoClient
  NoContext = NoContext
SYMMETRY Symmetry
INVARIANTS
  HandoffsApart
  FrozenUntilEnd
  MemoryFollows
PROPERTIES
  HandoffHistory
