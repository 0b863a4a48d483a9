\* Start-up with two workers of the collector, which may meet between load
\* and store.
SPECIFICATION FairStart
CONSTANTS
    Workers = {w1, w2}
    WorkerCount <- MCWorkerCount
    Known = 2
    MaxEvents = 1
    MaxQueue = 1
    MaxWorking = 2
    Lists = {{"release", "status", "gc"}, {"release", "status"}}
    Builtins = {"Deployment", "Pod"}
    CRDs <- MCCRDs
    Targets <- MCTargets
    StatusKinds = {"Pod"}
INVARIANTS
    StartOK
    NothingUnsynced
PROPERTIES
    
    SyncsOnceUp
CHECK_DEADLOCK FALSE
