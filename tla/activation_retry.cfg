SPECIFICATION ApiSpec
CONSTANTS
    Hook = {1, 2}
    Shard = {s1, s2}
    Client = {c1}
    Ops = {"create", "update", "remove", "activate"}
    MaxFaults = 1
INVARIANTS
    OnlyFaultsFail
CHECK_DEADLOCK FALSE
