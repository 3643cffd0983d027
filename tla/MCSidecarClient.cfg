CONSTANTS
    None = None
    Services = {s1}
    Requests = {r1, r2, r3, r4}
    SerialPosts = TRUE
    MaxChanges = 2

SPECIFICATION FairSpec
CHECK_DEADLOCK FALSE

INVARIANTS
    TypeOK
    StreamsCancellable

PROPERTIES
    NeverBackwards
    UnsubscribeEnds
