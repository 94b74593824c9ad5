CONSTANTS
    s1 = s1
    s2 = s2
    s3 = s3
    c1 = c1
    c2 = c2
    Session <- MCSession
    Client <- MCClient
    clientOf <- MCClientOf
    Query = {q1, q2}
    MsgId = {i1, i2}
    NoEntry = NoEntry
    NoSession = NoSession
    NoRequest = NoRequest
    Timeout = 2
    Sweep = 1
    MaxReplies = 2
SYMMETRY MCSymmetry
SPECIFICATION Spec
INVARIANTS
    TypeOK
    AnsweredOnce
    MixUpNeedsSharedId
    ExpiryBound
    RoutedWhileOpen
PROPERTIES
    ImplementsRelay
    OwnerKeepsId
CHECK_DEADLOCK FALSE
