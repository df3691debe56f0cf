CONSTANTS
    Devices = {1, 2}
    Sids = {s1, s2}
    Threads = {t1, t2}
    Fading = {2}
    Renames = TRUE
    Dealings <- Deals
    MaxControls = 1
    MaxHandoffs = 1
    Faults = TRUE
    NoDevice = NoDevice
    NoSid = NoSid
    NoThread = NoThread

SPECIFICATION Spec
CHECK_DEADLOCK FALSE
SYMMETRY Symmetry
INVARIANTS
    SessionIsRouted
    
    MatchedIsCurrent
    CircleNeedsNesting
