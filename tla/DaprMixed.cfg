SPECIFICATION Spec
CONSTANTS
    t1 = t1
    t2 = t2
    t3 = t3
    i1 = i1
    i2 = i2
    raw = raw
    None = None
    Value <- MCValue
    TicksPerSec = 2
    Task = {t1, t2}
    Instance = {i1, i2}
    InstanceOf <- OneInstance
    Calls <- MixedCalls
    MinInt <- MinusOne
    MaxInt = 2
    MaxRetries = 2
    MaxCalls = 3
    MaxFaults = 1
    MaxClock = 2
CHECK_DEADLOCK FALSE
SYMMETRY CloneSymmetry
INVARIANTS
    TypeOK
    CasAtomic
    EtagNamesValue
    AckMatchesEffect
PROPERTY
    IsAtomicStore
