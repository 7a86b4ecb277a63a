SPECIFICATION FairSpec
CONSTANTS
    r1 = r1
    r2 = r2
    r3 = r3
    r4 = r4
    create = create
    pause = pause
    complete = complete
    other = other
    None = None
    Requests <- FourRequests
    Fingerprints <- FourCommands
    Kind <- KindOfFour
    Crashing <- TwoOfThem
INVARIANTS
    TypeOK
    UnusableIsExplained
    ExecutedOnce
PROPERTIES
    AnswerStays
    KeepsPromise
    EventuallyAnswered
CHECK_DEADLOCK FALSE
