SPECIFICATION Spec
CONSTANTS
    r1 = r1
    r2 = r2
    r3 = r3
    r4 = r4
    create = create
    pause = pause
    complete = complete
    other = other
    None = None
    Requests <- ThreeRequests
    Fingerprints <- OneCommand
    Kind <- KindOfOne
    Crashing <- NoRequests
INVARIANTS
    OneRunsAtATime
CHECK_DEADLOCK FALSE
