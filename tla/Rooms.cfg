SPECIFICATION Spec
CONSTANTS
    d1 = d1
    d2 = d2
    c1 = c1
    Devices <- MCDevices
    Groups <- MCGroups
    Syncs <- MCSyncs
    Contexts <- MCContexts
    Contents = {"a"}
    Owner = d1
    Players <- MCPlayers
    MaxBroadcasts = 2
    MaxSongs = 2
    MaxSeq = 1
    MaxRequests = 3
    MaxHandlers = 2
    Faults = TRUE
INVARIANTS PreparesInOrder 
PROPERTY ContextsKeep
CHECK_DEADLOCK FALSE
