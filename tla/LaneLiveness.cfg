SPECIFICATION FairSpec
CONSTANTS
  MaxControlVersion = 3
  MaxConnection = 2
  Actions <- TwoKinds
  EffectiveAt = {FALSE}
  Intents = {}
  StoreFaults = FALSE
PROPERTIES
  CommittedByRoutedConnection
  ImplementsFairOutcomes
