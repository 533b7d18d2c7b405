\* A persistent namespace that is limited, or not, or that one of the rules may
\* only read, as configured at each start; calls of the provider may fail
\* without effect, or after they had their effect.
SPECIFICATION Spec
CONSTANTS
    c1 = c1
    c2 = c2
    k1 = k1
    k2 = k2
    Callers = {c1, c2}
    Configs <- MCConfigs
    Keys = {k1, k2}
    KeyLen <- MCKeyLen
    MaxLen = 1
    Unlimited = Unlimited
    Word = 8
    ErrorsBefore = TRUE
    ErrorsAfter = TRUE
    Persistent = TRUE
    Absent = Absent
    Nobody = Nobody
INVARIANTS TypeOK NeverUnderflows CounterIsExact OkMeansDone
PROPERTIES GrowsWithinLimit RefusedOnlyWhenFull
SYMMETRY Symmetry
