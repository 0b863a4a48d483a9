\* Liveness: the release is suspended and rolled back, and an answer is lost, an apply stops halfway or a failure cannot be recorded.
SPECIFICATION LiveSpec
CONSTANTS
    NoConfig = NoConfig
    Config = {a}
    BadConfig = {}
    Suspends = {FALSE, TRUE}
    RollbackTargets = {1}
    Faults = {"lost", "record"}
    ChannelSize = 1
    MaxEdits = 1
    MaxRollbacks = 1
    MaxFaults = 1
    MaxCrashes = 0

PROPERTIES
    Converges
    RollbackServed
CHECK_DEADLOCK FALSE
