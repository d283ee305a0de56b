SPECIFICATION Spec
CONSTANTS
    NoValue = NoValue
    Garbage = Garbage
    Wild = Wild
    System = 1
    Token = 2
    Holders = {3, 4}
    NewName = 5
    Keys = {"k1", "k2"}
    SkipActions <- MCSkip
    Auths <- MCAuths
    Abis <- MCAbis
    Supply = 2
    MaxHits = 2
    MaxLimit = 2
    MaxHeight = 3
    Window = 2
    Versions = 10
CHECK_DEADLOCK FALSE
INVARIANTS ReceiptsOnce PagesExact StateExact NothingInvented LookupsExact
PROPERTIES PagesStable
