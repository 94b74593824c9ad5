CONSTANTS
    s1 = s1
    s3 = s3
    c1 = c1
    c2 = c2
    Session = {s1, s3}
    Client = {c1, c2}
    clientOf <- MCClientOf
    Query = {q1, q2}
    MsgId = {i1, i2}
    NoEntry = NoEntry
    NoSession = NoSession
    NoRequest = NoRequest
    Timeout = 1
    Sweep = 2
    MaxReplies = 2
    Hosts = 2
SPECIFICATION UdpFairSpec
PROPERTIES
    ImplementsEgress
    EventuallySettled
CHECK_DEADLOCK FALSE
