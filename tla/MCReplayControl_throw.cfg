CONSTANTS
    Times = {1}
    Speeds = {0, 1}
    MaxInFlight = 2
SPECIFICATION Spec
INVARIANT
    NoUncaughtError
