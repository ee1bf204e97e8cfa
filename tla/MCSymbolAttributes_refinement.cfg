CONSTANTS
    Bases <- MCBases
    Keys <- MCKeys
    Values <- MCValues
    Undefined = Undefined
    Null = Null
SPECIFICATION Spec
PROPERTIES
    AttributeMapRefinement
