SPECIFICATION Spec
CONSTANTS
    t1 = t1
    t2 = t2
    e1 = e1
    e2 = e2
    NoEtag = NoEtag
    None = None
    Etag = {e1, e2}
    Task = {t1, t2}
    Requests <- MCRequests
    MaxFetches = 3
    MaxFaults = 1
    MaxRev = 1
    MaxClock = 1
SYMMETRY TaskSymmetry
CHECK_DEADLOCK FALSE
INVARIANTS
    OnlyWholeStored
    OriginWhenAsked
    FailsOnlyWithOrigin
    SettledStays
