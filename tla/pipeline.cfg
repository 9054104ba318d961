SPECIFICATION FairSpec
CONSTANTS
    Shard = {s1, s2}
    BatchSize = 2
    FirstHead = 1
    MaxHeight = 5
    MaxFaults = 3
INVARIANTS
    TypeOK
    AckedIsRouted
    LatestIsStored
    NoGap
PROPERTIES
    BlocksAreRouted
CHECK_DEADLOCK FALSE
