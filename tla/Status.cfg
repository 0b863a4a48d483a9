\* Liveness: an edit, two changes of health, a failing sync, two nodes that write at once, an informer up to two versions behind.
SPECIFICATION FairSpec
CONSTANTS
    Nodes = {a, b}
    MaxEdits = 1
    MaxChanges = 2
    MaxFaults = 1
    MaxRaces = 1
    MaxPending = 2
PROPERTIES
    NoFalseAlarm
    Embodied
CHECK_DEADLOCK FALSE
