SPECIFICATION Spec
CONSTANTS
    w1 = w1
    w2 = w2
    p1 = p1
    p2 = p2
    Webhook = {w1}
    Process = {p1}
    Concurrency = 2
    Blocks = 1
    MaxBlocks <- MCMaxBlocks
    Retries = 3
    MaxRetries <- MCMaxRetries
    BatchSize = 2
    MaxHeight = 3
    MaxGap = 1
    MaxFaults = 2
    ClientResends = TRUE
INVARIANTS
    NoJobLost
    NoLostWakeup
    TriesBounded
CHECK_DEADLOCK FALSE
