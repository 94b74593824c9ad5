CONSTANTS
    a1 = a1
    a2 = a2
    Name = {n1, n2}
    Value <- MCValue
    Address <- MCValue
    addressOf <- MCAddressOf
    MCBind1 = "once"
    MCBind2 = "once"
    bindOf <- MCBindOf
    Dns <- MCDns
    NoService = NoService
    NoOne = NoOne
    OldFile = OldFile
    BadFile = BadFile
    MaxEdits = 1
    MaxSignals = 1
    MaxErrors = 0
SPECIFICATION FairSpec
CHECK_DEADLOCK FALSE
PROPERTIES
    ServicesListen
