CONSTANTS
    Handles = {h1, h2}
    Symbols = {s1, s2}
    MaxEvents = 2
    ReentrantCallbacks = TRUE
    None = None
SPECIFICATION Spec
SYMMETRY MCSymmetry
INVARIANTS
    NoLostCachedEvent
