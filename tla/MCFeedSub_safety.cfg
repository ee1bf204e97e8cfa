CONSTANTS
    Handles = {h1, h2}
    Symbols = {s1, s2}
    MaxEvents = 1
    ReentrantCallbacks = FALSE
    None = None
SPECIFICATION Spec
SYMMETRY MCSymmetry
INVARIANTS
    QueuedHasNotifyArmed
    ListenersMatchSubSets
    ServerViewTracksTotal
    NoLostCachedEvent
    PageConnectedStaleOnlyAfterDisconnect
PROPERTIES
    SubscriptionAbstractRefinement
