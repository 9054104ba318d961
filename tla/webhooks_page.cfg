SPECIFICATION Spec
CONSTANTS
    Hook = {1, 2, 3}
    Shard = {s1}
    Client = {"create", "update", "remove", "activate"}
    Ops = {"create", "update", "remove", "activate"}
    MaxFaults = 0
    MaxAsks = 1
    Limit = 1
    Filter = {"any", "b"}
INVARIANTS
    TypeOK
    WalkComplete
    ViewIsCurrent
CHECK_DEADLOCK FALSE
