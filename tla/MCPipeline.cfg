SPECIFICATION FairSpec
CONSTANTS
    Start = 1
    Stop = 4
    MaxReplays = 1
    MaxInFlight = 1
    PoolCap = 1
    BatchSize = 1
    QueueCap = 1
    Concurrency = 1
CHECK_DEADLOCK FALSE
INVARIANTS CreditConserved Backpressure OkIsComplete NothingSkipped
PROPERTIES Ended FailureSpreads
