SPECIFICATION Spec
CONSTANTS
    Null = Null
    Columns <- MCColumns
    Key <- MCKey
    Tables <- MCTables
    Reads <- MCReads
    Writes <- MCWrites
    Objects <- MCObjects
    Filters <- MCFilters
    Joins <- MCJoins
    Values <- MCValues
    Targets <- MCTargets
    MaxCalls <- MCMaxCalls
CHECK_DEADLOCK FALSE
INVARIANTS
    OnlyMatching
    JoinsAsMeant
    UpsertAll
    ReadsBack
