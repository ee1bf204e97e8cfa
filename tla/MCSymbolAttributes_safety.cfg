CONSTANTS
    Bases <- MCBases
    Keys <- MCKeys
    Values <- MCValues
    Undefined = Undefined
    Null = Null
SPECIFICATION Spec
INVARIANTS
    TypeOK
    Canonical
    RemoveMatchesReference
    PeriodMatchesReference
