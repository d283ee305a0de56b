SPECIFICATION FairSpec
CONSTANTS
    NoValue = NoValue
    MaxHeight = 3
    MaxForks = 1
    MaxFaults = 2
    Contents <- MCTransient
    StartBlock = 0
    BatchSize = 3
    QueueCap = 1
    Concurrency = 2
    SeqSpan = 4
CHECK_DEADLOCK FALSE
INVARIANTS CheckpointCovers Converges HeightsCovered
PROPERTIES ResumesAboveConfirmed
