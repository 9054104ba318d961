SPECIFICATION Spec
CONSTANTS
    r1 = r1
    r2 = r2
    Request = {r1, r2}
    Ops = {"checkout"}
    MaxSessions = 3
    MaxLapses = 0
    MaxEvents = 0
    MaxFaults = 1
SYMMETRY Symmetry
CONSTRAINT Fresh
INVARIANTS
    TypeOK
    OneLinkIfFresh
    ShownIsRecorded
    OneCustomer
    CachedIsKnown
CHECK_DEADLOCK FALSE
