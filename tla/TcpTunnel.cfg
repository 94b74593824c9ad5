CONSTANTS
    Capacity <- MCCapacity
    MaxBytes <- MCMaxBytes
SPECIFICATION FairSpec
INVARIANTS
    TypeOK
    BytesIntact
PROPERTIES
    TearsDown
CHECK_DEADLOCK FALSE
