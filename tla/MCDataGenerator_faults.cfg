\* Late and missing logs, failing storage, a crash, a cache that evicts.
SPECIFICATION FairSpec
CONSTANTS
    Logs = {l1, l2, l3}
    CanonTime = 1
    Window = 5
    MaxCatchup = 3
    LruSizes = {1, 2}
    StorageFails = TRUE
    MaxGap = 2
    Horizon = 4
    MaxCrashes = 1
    l1 = l1
    l2 = l2
    l3 = l3
    None = None
INVARIANTS
    TypeOK
    NoLogSkipped
    SentOnce
PROPERTIES
    CatchesUp
