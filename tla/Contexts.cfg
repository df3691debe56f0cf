SPECIFICATION Spec
CONSTANTS
  MaxContexts = 2
  Sessions = {1, 2}
  Queues <- MCQueues
  Intents = {i1}
  MaxHandlers = 2
  MaxVersion = 3
  MaxChanges = 3
  FirstSession = 1
  MaxConnection = 2
  Faults = TRUE
INVARIANTS
  StoreConsistent
  PreparingIsCurrent
  
  AloneAgrees
PROPERTIES
  CursorsNameContents
CHECK_DEADLOCK FALSE
