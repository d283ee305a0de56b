SPECIFICATION FairSpec
CONSTANTS
    NoValue = NoValue
    MaxHeight = 3
    MaxForks = 0
    MaxFaults = 1
    Contents <- MCOverwrites
    StartBlock = 2
    BatchSize = 4
    QueueCap = 1
    Concurrency = 2
    SeqSpan = 4
CHECK_DEADLOCK FALSE
INVARIANTS ReplayIsNoFailure
