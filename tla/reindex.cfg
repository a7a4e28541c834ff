SPECIFICATION ReindexSpec
CONSTANTS
    Block <- RebuildBlock
    Genesis = "g"
    Parent <- RebuildParent
    Height <- RebuildHeight
    ChainWork <- RebuildWork
    Mined <- RebuildBlock
    Standalone <- RebuildBlock
    Wellformed <- RebuildBlock
    Accepts <- RebuildAccepts
    Early = {}
    ChunkSize = 2
    FinalityDepth = 2
    CoinbaseMaturity = 2
    NoBlock = NoBlock
    MaxOrphans = 1
    Offered = {"a3"}
    MaxCrashes = 1
    MaxReindexes = 1
INVARIANTS FilesMatchRows SealedOnMain NothingLost
PROPERTIES RebuildKeeps
