SPECIFICATION Spec
CONSTANTS
    a = a
    b = b
    Cleared = Cleared
    Broken = Broken
    Missing = Missing
    NoAbi = NoAbi
    Abis = {a, b}
    Blocks <- MCBlocks
    MaxHeight = 3
    MaxForks = 1
    MaxRestarts = 1
    FetchTraces = TRUE
    FetchDeltas = TRUE
    SkipSetAbi = FALSE
    FetchMayFail = TRUE
CHECK_DEADLOCK FALSE
PROPERTIES StreamExact FetchHeals
