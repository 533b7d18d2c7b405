\* Each generator beside the other senders, with redeliveries and a crash.
SPECIFICATION FairSpec
CONSTANTS
    j1 = j1
    j2 = j2
    j3 = j3
    m1 = m1
    m2 = m2
    m3 = m3
    u1 = u1
    u2 = u2
    QueueSize = 1
    MaxCrashes = 1
    Jobs = {j1, j2, j3}
    Period <- MCPeriod
    Once = {j3}
    Cycle = 4
    MaxLate = 1
    Never = Never
    Messages = {m1, m2, m3}
    Bodyless = {m3}
    SeenSize = 2
    MaxNumMessages = 2
    MaxFaults = 1
    Uris = {u1, u2}
    InitialRetryAfter = 1
    MaxRetryAfter = 3
    Configurations <- MCConfigurations
INVARIANTS TypeOK DeletedWasSent SentAgainOnlyWhenForgotten OnTime
PROPERTIES EveryTurn TasksEnd
