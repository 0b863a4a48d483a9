\* Liveness: a release is deleted and created anew, no history is retained, a rollback, an object is shared, a call fails.
SPECIFICATION FairSpec
CONSTANTS
    NoRelease = NoRelease
    Other = Other
    Releases = {r1, r2}
    Names = {n}
    Workers = {w1}
    HistoryLimit = 0
    MaxApplies = 1
    MaxRollbacks = 1
    MaxShares = 1
    MaxFaults = 1
PROPERTIES
    Collected
CHECK_DEADLOCK FALSE
