SPECIFICATION FairSpec
CONSTANTS
    Logs = {l1, l2}
    CanonTime = 1
    Window = 4
    MaxCatchup = 8
    LruSizes = {2}
    StorageFails = FALSE
    MaxGap = 6
    Horizon = 6
    MaxCrashes = 1
    l1 = l1
    l2 = l2
    l3 = l3
    None = None
PROPERTIES
    CatchesUpAfterOutage
