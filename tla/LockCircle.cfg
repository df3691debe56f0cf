CONSTANTS
    Devices = {1, 2}
    Sids = {s1, s2}
    Threads = {t1, t2}
    Fading = {}
    Renames = FALSE
    Dealings <- Deals
    MaxControls = 1
    MaxHandoffs = 1
    Faults = FALSE
    NoDevice = NoDevice
    NoSid = NoSid
    NoThread = NoThread

SPECIFICATION Spec
CHECK_DEADLOCK FALSE
SYMMETRY Symmetry
INVARIANT NoCircle
