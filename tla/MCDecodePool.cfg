SPECIFICATION FairSpec
CONSTANTS
    NumFrames = 4
    Workers = 2
    InCap = 1
    OutCap = 1
CHECK_DEADLOCK FALSE
INVARIANTS SelectHasArm NothingPastMalformed
PROPERTIES ImplementsChannel AllProcessed ErrorSurfaces
