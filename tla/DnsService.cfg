CONSTANTS
    Sidecar = {p1, p2}
    Conn = {k1, k2, k3}
    Id = {i1, i2}
    None = None
    MaxFaults = 1
SPECIFICATION FairSpec
INVARIANTS
    TypeOK
    NothingStray
PROPERTIES
    Reconnects
CHECK_DEADLOCK FALSE
