SPECIFICATION FairSpec
CONSTANTS
    NoValue = NoValue
    MaxHeight = 2
    MaxForks = 1
    MaxFaults = 1
    Contents <- MCOverwrites
    StartBlock = 0
    BatchSize = 4
    QueueCap = 1
    Concurrency = 1
    SeqSpan = 4
CHECK_DEADLOCK FALSE
INVARIANTS ForkReplaces
