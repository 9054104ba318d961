SPECIFICATION Spec
CONSTANTS
    r1 = r1
    r2 = r2
    Request = {r1}
    Ops = {"checkout"}
    MaxSessions = 3
    MaxLapses = 0
    MaxEvents = 0
    MaxFaults = 0
INVARIANTS OneLink
CHECK_DEADLOCK FALSE
