SPECIFICATION Spec
CONSTANTS
    t1 = t1
    t2 = t2
    t3 = t3
    i1 = i1
    i2 = i2
    raw = raw
    None = None
    Value <- MCValue
    TicksPerSec = 2
    Task = {t1, t2}
    Instance = {i1, i2}
    InstanceOf <- OneInstance
    Calls <- RaceCalls
    MinInt <- MinusOne
    MaxInt = 2
    MaxRetries = 2
    MaxCalls = 3
    MaxFaults = 0
    MaxClock = 2
CHECK_DEADLOCK FALSE
INVARIANT
    PermanentKept
