CONSTANTS
    MaxHeight = 6
    Modulus = 32
    Distance = 2
    StartHeights = {0, 1, 3, 9}
    ObserverFaults = {"query", "db", "fetch", "crash"}
SPECIFICATION ObserverFairSpec
INVARIANTS
    ObserverTypeOK
    NoBlockSkipped
    ResumeIsSafe
    DistanceKept
PROPERTIES
    EventuallyHandled
CHECK_DEADLOCK FALSE
