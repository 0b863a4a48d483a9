\* An edit after a rollback.
SPECIFICATION Spec
CONSTANTS
    NoConfig = NoConfig
    Config = {a, b}
    BadConfig = {}
    Suspends = {FALSE}
    RollbackTargets = {1}
    Faults = {}
    ChannelSize = 1
    MaxEdits = 2
    MaxRollbacks = 1
    MaxFaults = 0
    MaxCrashes = 0
SYMMETRY Symmetry
INVARIANTS
    NoEditMissed
CHECK_DEADLOCK FALSE
