CONSTANTS
    a = a
    b = b
    None = None
    Slices = {n1}
    Services = {a, b}
    Endpoints = {e1}
    LabelsOf <- OnlyA
    Streams = {s1}
    IdOf <- OwnIds
    ServiceOf <- ToA
    Capacity = 1
    ListFnSet = FALSE
    EarlyCancel = FALSE
    MaxChanges = 1

SPECIFICATION FairSpec
CHECK_DEADLOCK FALSE

PROPERTIES
    SnapshotFirst
