CONSTANTS
    Keys = {k1}
    Callers = {c1, c2}
    WindowCapacity = 1
    HalfOpenAllowed = 2
    MinRequestCount = 2
    ThresholdNum = 1
    ThresholdDen = 2
    HalfOpenMaxDuration = 2
    OpenDuration = 2
    RequestTimeout = 1
    MaxTime = 9
    MaxCalls = 5

SPECIFICATION Spec
CHECK_DEADLOCK FALSE

PROPERTY TripsOnRecentResults
