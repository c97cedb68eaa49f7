SPECIFICATION ReadFaultSpec
CONSTANTS
    t1 = t1
    t2 = t2
    t3 = t3
    i1 = i1
    i2 = i2
    raw = raw
    None = None
    Value <- MCValue
    TicksPerSec = 2
    Task = {t1}
    Instance = {i1, i2}
    InstanceOf <- OneInstance
    Calls <- TtlCalls
    MinInt <- MinusOne
    MaxInt = 2
    MaxRetries = 2
    MaxCalls = 4
    MaxFaults = 1
    MaxClock = 6
CHECK_DEADLOCK FALSE
INVARIANTS
    PermanentKept
    NotCutShort
