CONSTANTS
    a1 = a1
    a2 = a2
    Name = {n1, n2}
    Value <- MCValue
    Address <- MCValue
    addressOf <- MCAddressOf
    MCBind1 = "retry"
    MCBind2 = "replace"
    bindOf <- MCBindOf
    Dns <- MCDns
    NoService = NoService
    NoOne = NoOne
    OldFile = OldFile
    BadFile = BadFile
    MaxEdits = 1
    MaxSignals = 1
    MaxErrors = 1
SPECIFICATION FairSpec
INVARIANTS
    TypeOK
    FaithfulWhenIdle
    NoStrayTask
    CleanEnd
PROPERTIES
    SighupApplies
    InterruptEnds
    ServicesListenUnlessRaced
CHECK_DEADLOCK FALSE
