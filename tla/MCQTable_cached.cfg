CONSTANTS
    X = X
    Y = Y
    i1 = i1
    i2 = i2
    Blank = Blank
    Symbols <- MCSymbols
    StaticRows <- MCStaticRows
    Inputs = {i1, i2}
    MaxEvents = 2
    F = F
    Field = F
    Undef = Undef
    DefineOrder <- MCDefineOrder
    Deps <- MCDeps
    Bound <- MCBound
    Inline <- MCInline
    Throwing <- MCThrowing
    Empty = Empty
SPECIFICATION Spec
INVARIANT
    RowShowsCached
