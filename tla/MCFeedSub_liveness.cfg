CONSTANTS
    Handles = {h1, h2}
    Symbols = {s1}
    MaxEvents = 3
    ReentrantCallbacks = FALSE
    None = None
SPECIFICATION Spec
PROPERTIES
    SubscriptionReachesServer
    CachedEventReachesSubscriber
    DeliveryMonotone
