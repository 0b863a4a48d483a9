\* Two releases of one name after one another, two workers.
SPECIFICATION Spec
CONSTANTS
    NoRelease = NoRelease
    Other = Other
    Releases = {r1, r2}
    Names = {n}
    Workers = {w1, w2}
    HistoryLimit = 1
    MaxApplies = 2
    MaxRollbacks = 0
    MaxShares = 0
    MaxFaults = 0
SYMMETRY Symmetry
INVARIANTS
    TypeOK
PROPERTIES
    StableKept
    
CHECK_DEADLOCK FALSE
