SPECIFICATION Spec
CONSTANTS
    t1 = t1
    t2 = t2
    e1 = e1
    e2 = e2
    NoEtag = NoEtag
    None = None
    Etag = {e1}
    Task = {t1}
    Requests <- MCAges
    MaxFetches = 2
    MaxFaults = 0
    MaxRev = 1
    MaxClock = 3
CHECK_DEADLOCK FALSE
INVARIANT
    HitWithinMaxAge
