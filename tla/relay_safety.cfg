SPECIFICATION Spec
CONSTANTS
    w1 = w1
    w2 = w2
    p1 = p1
    p2 = p2
    Webhook = {w1, w2}
    Process = {p1, p2}
    Concurrency = 1
    Blocks = 1
    MaxBlocks <- MCMaxBlocks
    Retries = 2
    MaxRetries <- MCMaxRetries
    BatchSize = 2
    MaxHeight = 3
    MaxGap = 0
    MaxFaults = 1
    ClientResends = FALSE
SYMMETRY Symmetry
INVARIANTS
    TypeOK
    OneJobPerWebhook
    OneInFlight
    NoLostWakeup
    RelayNeverPanics
    NoSilentGap
    FreshRange
CHECK_DEADLOCK FALSE
