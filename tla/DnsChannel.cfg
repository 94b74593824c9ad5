CONSTANTS
    Message <- MCMessage
    Capacity <- MCCapacity
    Whole = 2
    MaxMessages <- MCMaxMessages
SPECIFICATION FairSpec
INVARIANTS
    TypeOK
    DeliveredInOrder
PROPERTIES
    EventuallyDelivered
    StopsWhenTold
CHECK_DEADLOCK FALSE
