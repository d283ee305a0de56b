SPECIFICATION FairSpec
CONSTANTS
    NumBatches = 3
    Concurrency = 2
    QueueCap = 2
    MaxHeight = 3
CHECK_DEADLOCK FALSE
INVARIANTS TypeOK SelectHasArm CheckpointBacked CheckpointDurable FailureWindow
PROPERTIES ImplementsLog Drains FailureSurfaces
