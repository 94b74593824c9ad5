CONSTANTS
    Message <- MCMessage
    WholeFrames = FALSE
    MaxRequests = 2
    MaxBreaks = 0
SPECIFICATION Spec
INVARIANTS
    RepliesIntact
CHECK_DEADLOCK FALSE
