SPECIFICATION Spec
CONSTANTS
    t1 = t1
    t2 = t2
    t3 = t3
    a1 = a1
    a2 = a2
    f1 = f1
    f2 = f2
    x = x
    y = y
    none = none
    Absent = Absent
    Task = {t1, t2, t3}
    AgencyId = {a1, a2}
    FeedId = {f1, f2}
    Text = {x, y, none}
    Requests <- MCRequests
    ListLimit = 1
    MaxRequests = 4
    MaxFaults = 1
CHECK_DEADLOCK FALSE
SYMMETRY TaskSymmetry
INVARIANTS
    FeedsHaveAgencies
    FeedsMapped
    SchemaFirst
    AnswersTrue
    AgencyAsAsked
