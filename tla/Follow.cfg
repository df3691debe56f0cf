SPECIFICATION FairSpec
CONSTANTS
  Clients = {c1, c2, c3}
  Contexts = {p1, p2}
  MaxConnection = 3
  MaxLeases = 2
  NoContext = NoContext
  NoClient = NoClient
INVARIANTS
  TypeOK
  
  NoFollowCircle
PROPERTIES
  FrozenWhileFollowing
  EndsWithItsFollower
  EndsUnattended
CHECK_DEADLOCK FALSE
