CONSTANTS
    Message <- MCMessage
    WholeFrames = TRUE
    MaxRequests = 3
    MaxBreaks = 2
SPECIFICATION FairSpec
INVARIANTS
    TypeOK
    RepliesIntact
    RequestsInOrder
    NoneForgotten
PROPERTIES
    EventuallyWritten
CHECK_DEADLOCK FALSE
