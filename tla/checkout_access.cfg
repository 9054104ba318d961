SPECIFICATION FairSpec
CONSTANTS
    r1 = r1
    r2 = r2
    Request = {r1}
    Ops = {"checkout", "access"}
    MaxSessions = 2
    MaxLapses = 1
    MaxEvents = 1
    MaxFaults = 1
PROPERTIES
    CancelRevokes
    PaidIsGranted
    EventsDrain
CHECK_DEADLOCK FALSE
