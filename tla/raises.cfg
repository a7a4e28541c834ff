SPECIFICATION Spec
CONSTANTS
    Block <- ForkBlock
    Genesis = "g"
    Parent <- ForkParent
    Height <- ForkHeight
    ChainWork <- ForkWork
    Mined <- ForkBlock
    Standalone <- ForkBlock
    Wellformed <- ForkBlock
    Accepts <- ForkAccepts
    Early = {"b2"}
    ChunkSize = 2
    FinalityDepth = 2
    CoinbaseMaturity = 1
    NoBlock = NoBlock
    MaxOrphans = 2
    Offered = {}
    MaxCrashes = 0
INVARIANT SubmitNeverRaises
