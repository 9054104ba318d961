SPECIFICATION ApiFairSpec
CONSTANTS
    Hook = {1, 2}
    Shard = {s1, s2}
    Client = {c1, c2}
    Ops = {"create", "update", "remove", "activate"}
    MaxFaults = 1
INVARIANTS
    ActiveIsRegistered
    SuccessMeansActive
PROPERTIES
    LifeIsImplemented
CHECK_DEADLOCK FALSE
