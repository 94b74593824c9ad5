CONSTANTS
    service = service
    session = session
    fwd1 = fwd1
    fwd2 = fwd2
    Main = Main
    Task <- MCTask
    owner <- MCOwner
SPECIFICATION FairSpec
INVARIANTS
    TypeOK
    StoppedIsOver
    PolledAgainOnlyAfterPanic
PROPERTIES
    ToldIsOver
CHECK_DEADLOCK FALSE
