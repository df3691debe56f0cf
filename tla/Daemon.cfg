SPECIFICATION SpecDaemon
CONSTANTS
    Paths = {"a", "b"}
    MaxChanges = 4
    MaxScans = 1
    Songs = {"x", "y"}
    MaxList = 2
    MaxCommands = 5
    Jobs = {"refresh"}
INVARIANTS LibraryFollowsDisk JukeboxInOrder
CHECK_DEADLOCK FALSE
