SPECIFICATION FairSpec
CONSTANTS
    FirstHeight = 4
    MaxHeight = 6
    Data = {1, 2}
    BatchSize = 2
    Threshold = 2
    Limits = {1, 2, 4}
    UintModulus = 64
    MaxRewinds = 1
    MaxCrashes = 1
INVARIANTS
    TypeOK
    NoBlockLost
    CacheIsNewest
    GetBlocksComplete
    GetBlocksContiguous
    GetLatestBlocksComplete
    GetLatestBlockIsLatest
PROPERTIES
    CacheDrains
