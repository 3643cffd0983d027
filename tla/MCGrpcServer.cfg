CONSTANTS
    a = a
    b = b
    None = None
    Slices = {n1, n2}
    Services = {a, b}
    Endpoints = {e1}
    LabelsOf <- OnlyA
    Streams = {s1, s2}
    IdOf <- OwnIds
    ServiceOf <- ToA
    Capacity = 2
    ListFnSet = TRUE
    EarlyCancel = FALSE
    MaxChanges = 2

SPECIFICATION FairSpec
CHECK_DEADLOCK FALSE

INVARIANTS
    TypeOK
    NoLateSidecar
    NoSendOnClosed

PROPERTIES
    ImplementsDistribution
    StopCompletes
