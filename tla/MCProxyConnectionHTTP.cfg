CONSTANTS
    Endpoints = {e1}
    Rules <- MCRules
    PeekChunks = 2
    HeadChunks = 2
    Length = 2
    MaxReplies = 0

SPECIFICATION Spec
CHECK_DEADLOCK FALSE

INVARIANTS
    ResponseReturned
