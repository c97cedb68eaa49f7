SPECIFICATION FairSpec
CONSTANTS
    Absent = Absent
    Damaged = Damaged
    Publisher = {p1}
    Messages <- MCMessages
    Foreign <- MCForeign
    Registered <- MCRegistered
    Slot = {s1, s2}
    MaxSends = 1
    MaxForeign = 1
    MaxFaults = 2
INVARIANTS
    TypeOK
    HandledAsPublished
    SuccessWasHandled
    DropOnlyHopeless
PROPERTIES
    SentIsHandled
    EveryEventSettles
CHECK_DEADLOCK FALSE
