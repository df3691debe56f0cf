SPECIFICATION Spec
CONSTANTS
  MaxControlVersion = 5
  MaxConnection = 1
  Actions <- TrackChangesOnly
  EffectiveAt = {TRUE}
  Intents = {i1}
  StoreFaults = TRUE
INVARIANTS
  DependencyRules
  VersionsAccounted
  AppliedCoversCommits
PROPERTIES
  LaneHistory
  ImplementsOutcomes
