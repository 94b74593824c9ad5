CONSTANTS
    Client = {a1, a2}
    Query = {q1, q2}
    MsgId = {i1, i2}
    NoEntry = NoEntry
    NoRequest = NoRequest
    Timeout = 1
    Sweep = 2
    MaxReplies = 1
SPECIFICATION FairSpec
PROPERTIES
    NoReplyAfterTimeout
CHECK_DEADLOCK FALSE
