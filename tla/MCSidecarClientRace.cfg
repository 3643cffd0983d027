CONSTANTS
    None = None
    Services = {s1}
    Requests = {r1, r2, r3}
    SerialPosts = FALSE
    MaxChanges = 1

SPECIFICATION FairSpec
CHECK_DEADLOCK FALSE

PROPERTIES
    UnsubscribeEnds
