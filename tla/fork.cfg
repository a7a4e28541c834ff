SPECIFICATION FairSpec
CONSTANTS
    Block <- ForkBlock
    Genesis = "g"
    Parent <- ForkParent
    Height <- ForkHeight
    ChainWork <- ForkWork
    Mined <- ForkBlock
    Standalone <- ForkBlock
    Wellformed <- ForkBlock
    Accepts <- ForkAccepts
    Early = {}
    ChunkSize = 2
    FinalityDepth = 2
    CoinbaseMaturity = 1
    NoBlock = NoBlock
    MaxOrphans = 2
    Offered = {}
    MaxCrashes = 0
INVARIANTS TypeOK BestChain OrphansWait
PROPERTIES UndoBounded Converges
