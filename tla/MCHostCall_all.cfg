SPECIFICATION FairSpec
CONSTANTS
    t1 = t1
    t2 = t2
    Threads = {t1, t2}
    Deployments <- MCDeployments
    Configured <- MCConfigured
    Nodes = 3
    MaxRetries = 3
    MaxPages = 1
    None = None
INVARIANTS TypeOK  RefusedIsUntouched GivesUpAfterAllNodes
PROPERTIES CallReturns
