\* Liveness: each kind of object; an edit, one interference, a fault, a reader.
SPECIFICATION FairSpec
CONSTANTS
    many = many
    few = few
    a = a
    b = b
    NoSpec = NoSpec
    Specs <- MCSpecs
    Addresses <- MCAddresses
    IPs <- MCIPs
    Kinds = {"Job", "Deployment", "Service"}
    MaxEdits = 1
    MaxOthers = 1
    MaxFaults = 1
    MaxReads = 1
    MaxSeconds = 2
    MaxPending = 2
INVARIANTS
    TypeOK
    
    ReadYourWrites
    
PROPERTIES
    ServicesKept
    
CHECK_DEADLOCK FALSE
