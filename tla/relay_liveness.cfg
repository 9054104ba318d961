SPECIFICATION FairSpec
CONSTANTS
    w1 = w1
    w2 = w2
    p1 = p1
    p2 = p2
    Webhook = {w1}
    Process = {p1}
    Concurrency = 2
    Blocks = 2
    MaxBlocks <- MCMaxBlocks
    Retries = 2
    MaxRetries <- MCMaxRetries
    BatchSize = 2
    MaxHeight = 3
    MaxGap = 1
    MaxFaults = 1
    ClientResends = FALSE
PROPERTIES
    JobsProgress
    BlocksReachWebhooks
    FeedIsImplemented
CHECK_DEADLOCK FALSE
