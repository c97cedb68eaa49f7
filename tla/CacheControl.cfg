SPECIFICATION Spec
CONSTANTS
    NaN = NaN
    ObsText = ObsText
    NoEtag = NoEtag
    Etag <- MCEtag
    Headers <- MCHeaders
    MaxDirectives = 3
    MaxLine = 5
CHECK_DEADLOCK FALSE
INVARIANTS
    MeetsContract
    YieldsControl
