SPECIFICATION Spec
CONSTANTS
    Values = {v1, v2, big}
    Big = {big}
    Gets = {g1}
    Threads = {t1, t2}
    QueueSize = 1
    Validity = 1
    MaxLogs = 2
    MaxTime = 2
    g1 = g1
    t1 = t1
    t2 = t2
    v1 = v1
    v2 = v2
    big = big
    Log = Log
    Empty = Empty
    None = None
SYMMETRY Symmetry
INVARIANTS
    MaxSizeOnlyLimitsStorage
