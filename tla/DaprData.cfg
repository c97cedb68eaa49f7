SPECIFICATION Spec
CONSTANTS
    Absent = Absent
    Null = Null
    Char <- MCChar
    Unreserved <- MCUnreserved
    Key <- MCKey
    Bytes <- MCBytes
    Topic <- MCTopic
    Headers <- MCHeaders
    Services <- MCServices
    Configs <- MCConfigs
    Env <- MCEnv
    Foreign <- MCForeign
    Container <- MCContainer
    MaxCalls = 3
    MaxFaults = 1
CHECK_DEADLOCK FALSE
INVARIANTS
    StoredAsAsked
    ReadsBack
    ListsObjects
    ConfigAsSet
