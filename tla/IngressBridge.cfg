CONSTANTS
    Client = {a1, a2}
    Query = {q1, q2}
    MsgId = {i1, i2}
    NoEntry = NoEntry
    NoRequest = NoRequest
    Timeout = 2
    Sweep = 2
    MaxReplies = 2
SPECIFICATION FairSpec
INVARIANTS
    TypeOK
    ExpiryBound
PROPERTIES
    ImplementsRelay
    DiesWithClient
    EventuallySettled
CHECK_DEADLOCK FALSE
