CONSTANTS
    a = a
    b = b
    None = None
    Slices = {n1}
    Services = {a, b}
    Endpoints = {e1}
    LabelsOf <- OnlyA
    Streams = {s1}
    IdOf <- OwnIds
    ServiceOf <- ToA
    Capacity = 1
    ListFnSet = TRUE
    EarlyCancel = FALSE
    MaxChanges = 0
    Requests = {r1, r2}

SPECIFICATION ControlSpec
CHECK_DEADLOCK FALSE

PROPERTIES
    StartUpEnds
    ReadyWhileTaking

INVARIANTS
    TrafficFirst
