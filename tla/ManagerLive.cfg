\* Liveness: two releases under a name, deleted and created at any time, and a failing patch.
SPECIFICATION FairSpec
CONSTANTS
    Names = {n}
    ChannelSize = 2
    MaxCreates = 2
    MaxFaults = 1
INVARIANTS
    NeverCanceled
    SameRelease
PROPERTIES
    NeverBack
    
    Reaped
CHECK_DEADLOCK FALSE
