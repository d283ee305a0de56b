SPECIFICATION Spec
CONSTANTS
    Base = 4
    VarintBytes = 3
    MaxU32 = 31
    Width <- MCWidth
    MaxDepth = 64
    NameLen = 4
    CharBits = 2
    LastBits = 1
    Radix = 2
    MaxAmount = 31
    CodeLen = 2
    Letters = {1, 2}
    Kinds <- MCKinds
    Amounts <- MCAmounts
    Precisions = {0, 1, 2, 3, 4, 5, 6, 7}
    Codes <- MCCodes
CHECK_DEADLOCK FALSE
INVARIANTS ShapesTrackAbi FramesWhole VaruintExact NameExact AssetExact
