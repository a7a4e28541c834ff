SPECIFICATION Spec
CONSTANTS
    Block <- ChunkBlock
    Genesis = "g"
    Parent <- ChunkParent
    Height <- ChunkHeight
    ChainWork <- ChunkWork
    Mined <- ChunkBlock
    Standalone <- ChunkBlock
    Wellformed <- ChunkBlock
    Accepts <- ChunkAccepts
    Early = {"b2"}
    ChunkSize = 2
    FinalityDepth = 2
    CoinbaseMaturity = 1
    NoBlock = NoBlock
    MaxOrphans = 2
    Offered = {"a1", "b1", "a3", "x3"}
    MaxCrashes = 1
INVARIANTS ReadableBeforeCrash MainIsBranch InvalidExact
PROPERTIES KeepsPromise
