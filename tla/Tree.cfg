\* Both orders on the trees of five charts; any handler may fail, the caller may cancel.
SPECIFICATION FairSpec
CONSTANTS
    Name = "a"
    Charts <- MCCharts
    Orders = {"PositiveOrder", "ReversedOrder"}
    MayCancel = TRUE
INVARIANTS
    TypeOK
    ManifestWhole
    EachInItsPlace
    
    NoStragglers
    AllHandled
PROPERTIES
    RunReturns
CHECK_DEADLOCK FALSE
