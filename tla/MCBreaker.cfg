CONSTANTS
    Keys = {k1}
    Callers = {c1, c2}
    WindowCapacity = 2
    HalfOpenAllowed = 2
    MinRequestCount = 1
    ThresholdNum = 1
    ThresholdDen = 2
    HalfOpenMaxDuration = 2
    OpenDuration = 2
    RequestTimeout = 2
    MaxTime = 9
    MaxCalls = 5

SPECIFICATION Spec
SYMMETRY CallerSymmetry
CHECK_DEADLOCK FALSE

INVARIANTS
    TypeOK
    ProbeQuota
    OnlyProbesUnderWay
PROPERTIES
    ShedWhileOpen
    TripsOnNewEvidence
    ClosedByProbes
