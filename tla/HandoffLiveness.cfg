SPECIFICATION FairSpec
CONSTANTS
  Clients = {c1, c2}
  Origins = {c1}
  Contexts = {p1, p2}
  Handoffs = {h1}
  MaxConnection = 2
  MaxControlVersion = 2
  SourceBroadcasts = FALSE
  NoClient = NoClient
  NoContext = NoContext
PROPERTIES
  ImplementsFairAuthority
