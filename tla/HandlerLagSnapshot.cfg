\* The history informer is late.
SPECIFICATION Spec
CONSTANTS
    NoConfig = NoConfig
    Config = {a, b}
    BadConfig = {}
    Suspends = {FALSE}
    RollbackTargets = {}
    Faults = {"lag"}
    ChannelSize = 1
    MaxEdits = 1
    MaxRollbacks = 0
    MaxFaults = 0
    MaxCrashes = 0
SYMMETRY Symmetry
INVARIANTS
    SnapshotFaithful
CHECK_DEADLOCK FALSE
