SPECIFICATION FairSpec
CONSTANTS
    e1 = e1
    e2 = e2
    e3 = e3
    d1 = d1
    d2 = d2
    None = None
    Events <- ThreeEvents
    Dispatchers <- BothDispatchers
    Crashing <- BothDispatchers
    BatchSize = 2
    MaxAttempts = 3
    MaxDelay = 2
INVARIANTS
    TypeOK
    HeldByOne
    OutcomeIsTrue
PROPERTIES
    KeepsDelivery
    EventuallySettled
