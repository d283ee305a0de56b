SPECIFICATION FairSpec
CONSTANTS
    NoValue = NoValue
    MaxHeight = 2
    MaxForks = 0
    MaxFaults = 1
    Contents <- MCOverwrites
    StartBlock = 0
    BatchSize = 1
    QueueCap = 2
    Concurrency = 2
    SeqSpan = 4
CHECK_DEADLOCK FALSE
INVARIANTS FallbackSkipsNothing
