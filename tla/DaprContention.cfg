SPECIFICATION FairSpec
CONSTANTS
    t1 = t1
    t2 = t2
    t3 = t3
    i1 = i1
    i2 = i2
    raw = raw
    None = None
    Value <- MCValue
    TicksPerSec = 2
    Task = {t1, t2, t3}
    Instance = {i1, i2}
    InstanceOf <- TwoInstances
    Calls <- IncrementCalls
    MinInt <- MinusOne
    MaxInt = 8
    MaxRetries = 2
    MaxCalls = 3
    MaxFaults = 1
    MaxClock = 0
CHECK_DEADLOCK FALSE
INVARIANTS
    NoLostUpdate
    ConflictsHaveCause
PROPERTY
    EveryCallReturns
