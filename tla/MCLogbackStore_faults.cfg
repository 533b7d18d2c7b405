\* Two instances, one with the logbacks role; crashes and storage errors.
SPECIFICATION FairSpec
CONSTANTS
    a = a
    b = b
    i1 = i1
    i2 = i2
    Logbacks = {a, b}
    Oversize = {}
    MaxDelay = 2
    Instances = {i1, i2}
    LogbackRole = {i1}
    ChannelCapacity = 1
    QueueSize = 1
    StorageFails = TRUE
    MaxCrashes = 2
    MaxFaults = 1
    MaxOthers = 2
    Other = Other
    None = None
INVARIANTS TypeOK
PROPERTIES ImplementsDelivery PersistedIsSent
