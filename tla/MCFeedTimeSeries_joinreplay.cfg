CONSTANTS
    Handles = {h1, h2}
    Symbols = {s1}
    Times <- MCTimes
    NaN = NaN
SPECIFICATION Spec
SYMMETRY MCSymmetry
INVARIANTS
    QueuedNotBeforeFromTime
