SPECIFICATION Spec
CONSTANTS
    w1 = w1
    w2 = w2
    p1 = p1
    p2 = p2
    Webhook = {w1}
    Process = {p1}
    Concurrency = 1
    Blocks = 2
    MaxBlocks <- MCMaxBlocks
    Retries = 2
    MaxRetries <- MCMaxRetries
    BatchSize = 2
    MaxHeight = 4
    MaxGap = 0
    MaxFaults = 0
    ClientResends = FALSE
INVARIANTS
    FreshRange
CHECK_DEADLOCK FALSE
