\* An edit, a rollback, a config that does not render, a failing call or patch of the condition and a crash; the history informer keeps up.
SPECIFICATION Spec
CONSTANTS
    NoConfig = NoConfig
    Config = {a, b, x}
    BadConfig = {x}
    Suspends = {FALSE}
    RollbackTargets = {0, 1, 2}
    Faults = {"call", "record"}
    ChannelSize = 1
    MaxEdits = 1
    MaxRollbacks = 1
    MaxFaults = 1
    MaxCrashes = 1
SYMMETRY Symmetry
INVARIANTS
    TypeOK
    SnapshotFaithful
    DriftIsVisible
    SettledIsApplied
    Contiguous
    
PROPERTIES
    KeepsPromise
CHECK_DEADLOCK FALSE
