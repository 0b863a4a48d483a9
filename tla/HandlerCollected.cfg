\* The collector beside the handler: an edit, its revert, a rollback and a failure that cannot be recorded.
SPECIFICATION SpecBoth
CONSTANTS
    NoConfig = NoConfig
    Config = {a, b}
    BadConfig = {}
    Suspends = {FALSE}
    RollbackTargets = {1}
    Faults = {"record"}
    ChannelSize = 1
    MaxEdits = 2
    MaxRollbacks = 1
    MaxFaults = 1
    MaxCrashes = 0
    HistoryLimit = 1
SYMMETRY Symmetry
INVARIANTS
    WindowRetained
    OneConfigEach
    
CHECK_DEADLOCK FALSE
