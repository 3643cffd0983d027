CONSTANTS
    Endpoints = {e1, e2, e3}
    Rules <- MCRules
    PeekChunks = 2
    HeadChunks = 3
    Length = 4
    MaxReplies = 2

SPECIFICATION FairSpec
CHECK_DEADLOCK FALSE

INVARIANTS
    TypeOK
    OrderlyEnds
    FirstSuccessReturned
    AdmissionsSettled

PROPERTIES
    HandlerEnds
    ShutdownEndsCopies
