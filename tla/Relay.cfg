CONSTANTS
    r1 = r1
    r2 = r2
    Rows = {1, 2, 3}
    Relays = {r1, r2}
    BatchSize = 2
    MaxFaults = 2
SPECIFICATION FairSpec
INVARIANTS
    IndInv
    SentIsLogged
    CopiesBounded
PROPERTIES
    EventuallySent
    ImplementsDelivery
CHECK_DEADLOCK FALSE
